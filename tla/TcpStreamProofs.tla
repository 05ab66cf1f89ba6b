-------------------------- MODULE TcpStreamProofs ---------------------------
(***************************************************************************)
(* One connection between two programs, one that connects, writes and      *)
(* closes and one that accepts, reads and closes: for every such pair of   *)
(* scripts, whatever their lengths, the sizes of buffers and segments, the *)
(* races allowed and the faults of the network, unless a theorem says      *)
(* otherwise.  First the hypothesis on the scripts, the invariant          *)
(* StreamInv that relates the two programs, their sockets, the wires and   *)
(* the queues, what each action does, field by field, that every step is   *)
(* one of nine kinds, and what those say of the packets.  Then the proof   *)
(* that StreamInv is an invariant: that each of the nine kinds of step     *)
(* keeps each part.  The parts lean on each other.  That what is on the    *)
(* wire is the client's (needed for the bytes) rests on the handshake; the *)
(* handshake on the flags; the flags on what processip has read of the     *)
(* status.  Then what the invariant says of the connection.                *)
(***************************************************************************)
EXTENDS MCTcp, TcpProofs

-----------------------------------------------------------------------------
(* The hypothesis. *)

\* sender.cc, with writes of any number and length.

ClientScript(s) ==
  /\ Len(s) >= 3
  /\ s[1].op = "socket"
  /\ s[2].op = "connect" /\ s[2].from = cport /\ s[2].to = sport
  /\ \A k \in 3 .. (Len(s) - 1) : s[k].op = "write"
  /\ s[Len(s)].op = "close"

\* recver.cc, with reads of any number and length.
ServerScript(s) ==
  /\ Len(s) >= 4
  /\ s[1].op = "socket"
  /\ s[2].op = "bind" /\ s[2].at = sport
  /\ s[3].op = "accept"
  /\ \A k \in 4 .. (Len(s) - 1) : s[k].op = "read"
  /\ s[Len(s)].op = "close"

\* The two programs run on two hosts, one endpoint each, as MCTcp gives them.
OneWay ==
  /\ Host = MCHost /\ Endpoint = MCEndpoint /\ HostOf = MCHostOf
  /\ NoEndpoint = none
  /\ sender # recver /\ cport # sport
  /\ ClientScript(Script[sender])
  /\ ServerScript(Script[recver])

\* What the hypothesis says of the constants.
LEMMA Hypothesis ==
  ASSUME OneWay
  PROVE  /\ Host = {sender, recver} /\ sender \in Host /\ recver \in Host
         /\ sender # recver /\ cport # sport
         /\ Endpoint = {cport, sport} /\ NoEndpoint \notin {cport, sport}
         /\ HostOf[cport] = sender /\ HostOf[sport] = recver
         /\ FirstFd \in Fd /\ ServerFd \in Fd /\ ServerFd # FirstFd
         /\ FirstFd \in Nat /\ ServerFd = FirstFd + 1
         /\ Len(Script[sender]) \in Nat /\ Len(Script[recver]) \in Nat
<1>1. Script[sender] \in Seq(Calls) /\ Script[recver] \in Seq(Calls)
  BY TcpAssumption DEF OneWay, MCHost, TcpAssumption
<1> QED
  BY <1>1, TcpAssumption DEF OneWay, MCHost, MCEndpoint, MCHostOf, Fd, ServerFd, TcpAssumption

-----------------------------------------------------------------------------
(* What the actions' updates do, field by field. *)

\* A step writes to no other socket.
OnlySock(h, f) ==
  \A g \in Host, e \in Fd : (g # h \/ e # f) => sock'[g][e] = sock[g][e]

\* Put stores one socket.
LEMMA PutEffect ==
  ASSUME TypeOK, NEW h \in Host, NEW f \in Fd, NEW s, Put(h, f, s)
  PROVE  sock'[h][f] = s /\ OnlySock(h, f)
  BY DEF TypeOK, Put, OnlySock

\* What an action leaves of a socket.
SameEnds(t, s) ==
  /\ t.role = s.role /\ t.tcbRole = s.tcbRole
  /\ t.local = s.local /\ t.remote = s.remote
SameState(t, s) == t.status = s.status /\ t.ready = s.ready
SameBuffer(t, s) == t.sizep = s.sizep /\ t.databuf = s.databuf
SameStream(t, s) ==
  /\ t.readp = s.readp /\ t.writep = s.writep
  /\ t.sizep = s.sizep /\ t.databuf = s.databuf

\* A write to tcb.status changes nothing else.
LEMMA StatusUpdate ==
  ASSUME NEW s \in SafeSocket, NEW st, NEW t, t = [s EXCEPT !.status = st]
  PROVE  /\ t.status = st /\ t.ready = s.ready
         /\ SameEnds(t, s) /\ SameStream(t, s)
  BY DEF SafeSocket, Socket, SameEnds, SameStream

\* A read moves readp alone.
LEMMA ReadUpdate ==
  ASSUME NEW s \in SafeSocket, NEW n, NEW t, t = [s EXCEPT !.readp = n]
  PROVE  /\ SameEnds(t, s) /\ SameState(t, s) /\ SameBuffer(t, s)
         /\ t.readp = n /\ t.writep = s.writep
  BY DEF SafeSocket, Socket, SameEnds, SameState, SameBuffer

\* A segment that leaves moves writep alone.
LEMMA SentUpdate ==
  ASSUME NEW s \in SafeSocket, NEW n, NEW t, t = [s EXCEPT !.writep = n]
  PROVE  /\ SameEnds(t, s) /\ SameState(t, s) /\ SameBuffer(t, s)
         /\ t.readp = s.readp /\ t.writep = n
  BY DEF SafeSocket, Socket, SameEnds, SameState, SameBuffer

\* The thread of h, and no other, moves.
AppTo(h, pc, cv, ip) ==
  /\ app'[h].pc = pc /\ app'[h].cv = cv /\ app'[h].ip = ip
  /\ app'[h].lfd = app[h].lfd /\ app'[h].cfd = app[h].cfd
  /\ \A g \in Host \ {h} : app'[g] = app[g]

\* The ways a program's thread moves.
LEMMA Moves ==
  ASSUME TypeOK, NEW h \in Host
  PROVE  /\ \A pc : Goto(h, pc) => AppTo(h, pc, app[h].cv, app[h].ip)
         /\ \A cv : AwaitFlag(h, cv) => AppTo(h, "test", cv, app[h].ip)
         /\ Return(h) => AppTo(h, "call", app[h].cv, app[h].ip + 1)
         /\ \A f, cvs : NotifyAll(h, f, cvs) =>
              \/ AppTo(h, app[h].pc, app[h].cv, app[h].ip)
              \/ app[h].pc = "wait" /\ AppTo(h, "test", app[h].cv, app[h].ip)
<1>1. app \in [Host -> AppThread] /\ app[h] \in AppThread
  BY DEF TypeOK
<1>2. ASSUME NEW pc, Goto(h, pc) PROVE AppTo(h, pc, app[h].cv, app[h].ip)
  BY <1>1, <1>2 DEF Goto, AppTo, AppThread
<1>3. ASSUME NEW cv, AwaitFlag(h, cv) PROVE AppTo(h, "test", cv, app[h].ip)
  BY <1>1, <1>3 DEF AwaitFlag, AppTo, AppThread
<1>4. ASSUME Return(h) PROVE AppTo(h, "call", app[h].cv, app[h].ip + 1)
  BY <1>1, <1>4 DEF Return, AppTo, AppThread
<1>5. ASSUME NEW f, NEW cvs, NotifyAll(h, f, cvs)
      PROVE  \/ AppTo(h, app[h].pc, app[h].cv, app[h].ip)
             \/ app[h].pc = "wait" /\ AppTo(h, "test", app[h].cv, app[h].ip)
  BY <1>1, <1>5 DEF NotifyAll, AppTo, AppThread
<1> QED
  BY <1>2, <1>3, <1>4, <1>5

-----------------------------------------------------------------------------
(* The invariant. *)

ServerStatus ==
  {"FREE", "NONE", "CLOSED", "LISTEN", "SYNRCVD", "ESTAB", "LASTACK"}
Waits == {"test", "block", "wait", "ready"}

ListenSock == sock[recver][FirstFd]

\* The client has sent its SYN; it has had the answer; the accepted socket has
\* a peer; the client is at close().
Connected == ClientSock.status \notin {"FREE", "NONE"}
Answered == Committed(sender, FirstFd) \notin {"FREE", "NONE", "SYNSENT"}
Taken == ServerSock.remote = cport
Closing == app[sender].ip >= Len(Script[sender])
\* accept() has not made its socket.
Accepts ==
  app[recver].ip <= 2 \/ (app[recver].ip = 3 /\ app[recver].pc = "call")

\* Where a thread can be in the call that it makes.
InCall(h) ==
  LET a == app[h]
  IN  /\ a.pc # "call" => a.ip <= Len(Script[h])
      /\ a.pc \in {"demote", "promote"} => Call(h).op = "accept"
      /\ a.pc \in Waits =>
           \/ a.cv = "conn" /\ Call(h).op = "connect"
           \/ a.cv \in {"syn", "ack"} /\ Call(h).op = "accept"
           \/ a.cv = "read" /\ Call(h).op = "read"
      /\ a.pc \in {"send", "spin"} => Call(h).op = "write"
      /\ a.pc \in {"finsent", "closing"} => Call(h).op = "close"
CallsInv == \A h \in Host : InCall(h)

\* The client has one socket, whose status goes with its place in the script.
ClientInv ==
  LET a == app[sender]
      s == ClientSock
  IN  /\ a.cfd = FirstFd /\ a.lfd = FirstFd
      /\ \A f \in Fd \ {FirstFd} : sock[sender][f].status = "FREE"
      /\ s.role = "none"
      /\ s.status = "FREE" <=> a.ip = 1
      /\ a.ip = 1 => s.sizep = 0
      /\ Connected <=> a.ip > 2 \/ (a.ip = 2 /\ a.pc # "call")
      /\ Connected =>
           s.local = cport /\ s.remote = sport /\ s.tcbRole = "client"
      /\ up[sender]
      /\ a.ip > 2 \/ a.pc = "ready" => "conn" \in s.ready
      /\ "conn" \in s.ready => Answered

\* A socket that bind() has made the server's, or its copy.
IsServer(s) ==
  /\ s.role = "server" /\ s.tcbRole = "server" /\ s.local = sport
  /\ s.remote \in {NoEndpoint, cport}
  /\ s.status \in ServerStatus \ {"FREE", "NONE"}

\* Flags of a socket that nothing has happened to.
Unready(s) == s.ready \subseteq {"ack"} /\ (Garbage = {FALSE} => s.ready = {})

\* What accept() finds at the listener and puts into its copy.
Fresh(s) == s.status = "CLOSED" /\ s.remote = NoEndpoint /\ Unready(s)

\* The server has its listener and, once accept() has made it, one more.
ServerInv ==
  LET a == app[recver]
  IN  /\ a.lfd = FirstFd /\ a.pc # "finsent"
      /\ a.cfd = IF Accepts THEN FirstFd ELSE ServerFd
      /\ \A f \in Fd \ {FirstFd, ServerFd} : sock[recver][f].status = "FREE"
      /\ Accepts => ServerSock.status = "FREE" /\ ServerSock.remote = NoEndpoint
      /\ ~Accepts => IsServer(ServerSock)
      /\ a.ip = 1 => ListenSock.status = "FREE"
      /\ a.ip = 2 => /\ ListenSock.status = "NONE" /\ ListenSock.role = "none"
                     /\ Unready(ListenSock)
      /\ a.ip >= 3 => IsServer(ListenSock)
      /\ a.ip = 3 => Fresh(ListenSock)
      /\ a.ip = 3 /\ a.pc \in {"demote", "promote"} => Fresh(ServerSock)

\* The packets to h: on a wire, in a queue, in the hands of processip.
OnWires(h) == UNION {{wire[g][h][i] : i \in DOMAIN wire[g][h]} : g \in Host}
InQueues(h) == UNION {{queue[h][f][i] : i \in DOMAIN queue[h][f]} : f \in Fd}
InHand(h) == IF rx[h].pc = "pop" THEN {} ELSE {rx[h].pkt}
Pending(h) == OnWires(h) \cup InQueues(h) \cup InHand(h)

\* What the client has sent: its data is a piece of its databuf.
FromClient(p) ==
  /\ p.src = cport /\ p.dst = sport /\ p.kind \in {"SYN", "ACK", "FIN", "DATA"}
  /\ Connected
  /\ p.kind # "SYN" => Answered
  /\ p.kind = "FIN" => Closing
  /\ p.kind = "DATA" =>
       /\ p.seq + Len(p.data) <= ClientSock.sizep
       /\ \A k \in 1 .. Len(p.data) :
            p.data[k] = ClientSock.databuf[p.seq + k - 1]

\* What the server has sent: it acknowledges nothing that was not written.
FromServer(p) ==
  /\ p.src = sport /\ p.dst = cport /\ p.kind \in {"SYNACK", "ACK", "FIN"}
  /\ Taken
  /\ p.kind # "SYNACK" => Answered
  /\ p.kind = "FIN" => Closing
  /\ p.kind = "ACK" /\ ~Closing => p.ack <= ClientSock.sizep

PacketsInv ==
  /\ \A p \in Pending(recver) : FromClient(p)
  /\ \A p \in Pending(sender) : FromServer(p)

\* The order of the handshake: the client connects, the server gets its peer,
\* the client is answered, accept() returns.
HandshakeInv ==
  LET a == app[recver]
      s == ServerSock
  IN  /\ Answered => Taken
      /\ Taken => Connected
      /\ rx[recver].pc # "pop" => Taken
      /\ \A f \in Fd : queue[recver][f] # <<>> => Taken
      /\ a.ip > 3 \/ (a.pc \in Waits /\ a.cv = "ack") \/ a.pc = "ready" =>
           "syn" \in s.ready
      /\ "syn" \in s.ready => Taken
      /\ a.ip > 3 \/ (a.pc = "ready" /\ a.cv = "ack") => "ack" \in s.ready
      /\ Garbage = {FALSE} /\ "ack" \in s.ready =>
           s.status \in {"ESTAB", "LASTACK", "CLOSED"} /\ Answered

\* Only processip changes the status of the accepted socket, so that what it
\* has read of it is still so.
RxInv ==
  LET r == rx[recver]
  IN  /\ r.pc = "react" => r.seen \in ServerStatus
      /\ r.pc = "store" => r.rule.at \in ServerStatus /\ r.rule.on = r.pkt.kind
      /\ r.pc = "react" /\ r.fd = ServerFd => r.seen = ServerSock.status
      /\ r.pc = "store" /\ r.fd = ServerFd => r.rule.at = ServerSock.status
      /\ app[recver].ip = 3 =>
           /\ queue[recver][FirstFd] = <<>>
           /\ r.pc # "pop" => r.fd = ServerFd

\* A byte of the buffer is the client's, at the same place, or was never written.
Copies(s) ==
  /\ s.sizep <= ClientSock.sizep
  /\ \A i \in 0 .. (BufSize - 1) :
       s.databuf[i] # Zero =>
         i < ClientSock.sizep /\ s.databuf[i] = ClientSock.databuf[i]

BytesInv ==
  /\ Copies(ListenSock) /\ Copies(ServerSock)
  /\ ~Closing => ClientSock.writep <= ClientSock.sizep
  /\ ListenSock.readp = 0
  /\ Accepts => ServerSock.readp = 0
  /\ Len(Received) = ServerSock.readp
  /\ \A k \in 1 .. Len(Received) :
       k <= ClientSock.sizep /\ Received[k] \in {Zero, ClientSock.databuf[k - 1]}

\* The process dies of a SYN that finds no listening socket.
DeathInv == ~up[recver] => \A f \in Fd : sock[recver][f].status # "LISTEN"

StreamInv ==
  /\ CallsInv /\ ClientInv /\ ServerInv /\ PacketsInv /\ HandshakeInv /\ RxInv
  /\ BytesInv /\ DeathInv

-----------------------------------------------------------------------------
(* The steps the client's thread can make, field by field. *)

ClientFrame ==
  /\ OnlySock(sender, FirstFd)
  /\ UNCHANGED <<queue, unsolved, rx, got, up, faults>>

ClientMoves(pc, ip) ==
  /\ AppTo(sender, pc, app[sender].cv, ip)
  /\ sock' = sock /\ wire' = wire

ClientSocket ==
  /\ app[sender].ip = 1 /\ app[sender].pc = "call"
  /\ AppTo(sender, "call", app[sender].cv, 2)
  /\ ClientSock'.status = "NONE" /\ ClientSock'.role = "none"
  /\ "conn" \notin ClientSock'.ready
  /\ ClientSock'.sizep = 0 /\ ClientSock'.writep = 0
  /\ wire' = wire

ClientConnects ==
  /\ app[sender].ip = 2 /\ app[sender].pc = "call"
  /\ AppTo(sender, "test", "conn", 2)
  /\ "start" \in Races \/ Listening(sport)
  /\ ClientSock'.status = "SYNSENT" /\ ClientSock'.ready = ClientSock.ready
  /\ ClientSock'.role = ClientSock.role /\ ClientSock'.tcbRole = "client"
  /\ ClientSock'.local = cport /\ ClientSock'.remote = sport
  /\ SameStream(ClientSock', ClientSock)
  /\ SendTCPPackets(sender, sport, <<Segment("SYN", cport, sport, 0, 0, <<>>)>>)

ClientWaits ==
  /\ app[sender].ip = 2 /\ app[sender].cv = "conn" /\ app[sender].pc \in Waits
  /\ \E pc \in Waits : /\ ClientMoves(pc, 2)
                       /\ pc = "ready" => "conn" \in ClientSock.ready

ClientConnected ==
  /\ app[sender].ip = 2 /\ app[sender].pc = "ready"
  /\ ClientMoves("call", 3)

ClientAppends ==
  /\ app[sender].ip \in 3 .. (Len(Script[sender]) - 1) /\ app[sender].pc = "call"
  /\ AppTo(sender, "send", app[sender].cv, app[sender].ip)
  /\ SameEnds(ClientSock', ClientSock) /\ SameState(ClientSock', ClientSock)
  /\ ClientSock'.readp = ClientSock.readp
  /\ ClientSock'.writep = ClientSock.writep
  /\ \E d \in Seq(Byte) :
       /\ Call(sender).op = "write" /\ d = Call(sender).data
       /\ ClientSock'.sizep = ClientSock.sizep + Len(d)
       /\ ClientSock'.databuf = CopyIn(ClientSock.databuf, ClientSock.sizep, d)
  /\ wire' = wire

Unsent(s) == IF s.writep + MSS > s.sizep THEN s.sizep - s.writep ELSE MSS

ClientSends ==
  /\ app[sender].ip \in 3 .. (Len(Script[sender]) - 1) /\ app[sender].pc = "send"
  /\ AppTo(sender, "spin", app[sender].cv, app[sender].ip)
  /\ LET s == ClientSock
         n == Unsent(s)
     IN  /\ SameEnds(ClientSock', s) /\ SameState(ClientSock', s)
         /\ SameBuffer(ClientSock', s)
         /\ ClientSock'.readp = s.readp /\ ClientSock'.writep = s.writep + n
         /\ SendTCPPackets(sender, sport,
              <<Segment("DATA", cport, sport, s.writep, 0,
                        Slice(s.databuf, s.writep, n))>>)

ClientWritten ==
  /\ app[sender].ip \in 3 .. (Len(Script[sender]) - 1) /\ app[sender].pc = "spin"
  /\ ClientSock.writep = ClientSock.sizep
  /\ ClientMoves("call", app[sender].ip + 1)

ClientCloses ==
  /\ app[sender].ip = Len(Script[sender]) /\ app[sender].pc = "call"
  /\ \/ /\ "close" \in Races
        /\ AppTo(sender, "finsent", app[sender].cv, app[sender].ip)
        /\ ClientSock' = ClientSock
     \/ /\ AppTo(sender, "closing", app[sender].cv, app[sender].ip)
        /\ ClientSock'.status = "FINWAIT1" /\ ClientSock'.ready = ClientSock.ready
        /\ SameEnds(ClientSock', ClientSock) /\ SameStream(ClientSock', ClientSock)
  /\ SendTCPPackets(sender, sport, <<Segment("FIN", cport, sport, 0, 0, <<>>)>>)

ClientStoresClose ==
  /\ app[sender].ip = Len(Script[sender]) /\ app[sender].pc = "finsent"
  /\ AppTo(sender, "closing", app[sender].cv, app[sender].ip)
  /\ ClientSock'.status = "FINWAIT1" /\ ClientSock'.ready = ClientSock.ready
  /\ SameEnds(ClientSock', ClientSock) /\ SameStream(ClientSock', ClientSock)
  /\ wire' = wire

ClientClosed ==
  /\ app[sender].ip = Len(Script[sender]) /\ app[sender].pc = "closing"
  /\ ClientMoves("call", app[sender].ip + 1)

ClientStep ==
  /\ ClientFrame
  /\ \/ ClientSocket \/ ClientConnects \/ ClientWaits \/ ClientConnected
     \/ ClientAppends \/ ClientSends \/ ClientWritten
     \/ ClientCloses \/ ClientStoresClose \/ ClientClosed

\* Where in its script a thread of the client is.
LEMMA ClientCalls ==
  ASSUME TypeOK, OneWay, CallsInv
  PROVE  LET a == app[sender]
             n == Len(Script[sender])
             op == Call(sender).op
         IN  /\ n \in Nat /\ n >= 3 /\ a.ip \in Nat \ {0}
             /\ a.pc # "call" => a.ip <= n
             /\ a.ip <= n => /\ op = "socket" <=> a.ip = 1
                             /\ op = "connect" <=> a.ip = 2
                             /\ op = "write" <=> a.ip \in 3 .. (n - 1)
                             /\ op = "close" <=> a.ip = n
                             /\ op \in {"socket", "connect", "write", "close"}
             /\ a.pc \notin {"demote", "promote"}
             /\ a.pc \in Waits => a.ip = 2 /\ a.cv = "conn"
             /\ a.pc \in {"send", "spin"} => a.ip \in 3 .. (n - 1)
             /\ a.pc \in {"finsent", "closing"} => a.ip = n
<1> DEFINE a == app[sender]
           n == Len(Script[sender])
           op == Call(sender).op
<1>1. n \in Nat /\ n >= 3 /\ a.ip \in Nat \ {0} /\ sender \in Host
  BY Hypothesis DEF OneWay, ClientScript, TypeOK, AppThread
<1>2. a.ip <= n => /\ op = "socket" <=> a.ip = 1
                   /\ op = "connect" <=> a.ip = 2
                   /\ op = "write" <=> a.ip \in 3 .. (n - 1)
                   /\ op = "close" <=> a.ip = n
                   /\ op \in {"socket", "connect", "write", "close"}
  BY <1>1, SMTT(40) DEF Call, OneWay, ClientScript
<1>3. InCall(sender)
  BY <1>1 DEF CallsInv
<1> QED
  BY <1>1, <1>2, <1>3 DEF InCall, Waits

\* A table without sockets hands out its first descriptor, one with a socket at
\* the first hands out the next.
LEMMA FreshFds ==
  ASSUME NEW h
  PROVE  /\ Opened(h) = {} => FreshFd(h) = FirstFd
         /\ Opened(h) = {FirstFd} => FreshFd(h) = ServerFd
<1> DEFINE free == {f \in FirstFd .. LastFd : f \notin Opened(h)}
<1>1. FirstFd \in Nat /\ LastFd \in Nat /\ FirstFd <= LastFd
  BY TcpAssumption DEF TcpAssumption
<1>2. free \in SUBSET (0 .. LastFd)
  BY <1>1
<1>3. free # {} => Min(free) \in free /\ \A y \in free : Min(free) <= y
  BY <1>1, <1>2, MinOfBoundedSet, Zenon
<1>4. FreshFd(h) = IF free = {} THEN LastFd + 1 ELSE Min(free)
  BY DEF FreshFd
<1>5. ASSUME Opened(h) = {} PROVE FreshFd(h) = FirstFd
  <2>1. FirstFd \in free
    BY <1>1, <1>5
  <2> QED
    BY <1>1, <1>3, <1>4, <2>1
<1>6. ASSUME Opened(h) = {FirstFd} PROVE FreshFd(h) = ServerFd
  <2>1. FirstFd \notin free /\ \A f \in (FirstFd + 1) .. LastFd : f \in free
    BY <1>1, <1>6
  <2>2. CASE FirstFd = LastFd
    <3>1. free = {}
      BY <1>1, <1>6, <2>2
    <3> QED
      BY <1>4, <2>2, <3>1 DEF ServerFd
  <2>3. CASE FirstFd # LastFd
    <3>1. FirstFd + 1 \in free
      BY <1>1, <2>1, <2>3
    <3>2. Min(free) \in free /\ Min(free) <= FirstFd + 1
      BY <1>3, <3>1
    <3> HIDE DEF free
    <3>3. \A f \in free : f \in Nat /\ f >= FirstFd
      BY <1>1 DEF free
    <3> QED
      BY <1>1, <1>4, <2>1, <3>1, <3>2, <3>3 DEF ServerFd
  <2> QED
    BY <2>2, <2>3
<1> QED
  BY <1>5, <1>6

\* What the client's thread does is one of those steps.
LEMMA ClientSteps ==
  ASSUME TypeOK, OneWay, CallsInv, ClientInv,
         ~Closing => ClientSock.writep <= ClientSock.sizep,
         AppStep(sender) \/ SpuriousWakeup(sender)
  PROVE  ClientStep
<1> DEFINE a == app[sender]
           s == ClientSock
           n == Len(Script[sender])
<1> USE DEF ClientFd
<1>1. /\ sender \in Host /\ FirstFd \in Fd /\ a \in AppThread
      /\ s \in SafeSocket /\ sport \in Endpoint
  BY Hypothesis DEF TypeOK, ClientSock
<1>2. /\ n \in Nat /\ n >= 3 /\ a.ip \in Nat \ {0}
      /\ a.pc # "call" => a.ip <= n
      /\ a.ip <= n => /\ Call(sender).op = "socket" <=> a.ip = 1
                      /\ Call(sender).op = "connect" <=> a.ip = 2
                      /\ Call(sender).op = "write" <=> a.ip \in 3 .. (n - 1)
                      /\ Call(sender).op = "close" <=> a.ip = n
                      /\ Call(sender).op \in {"socket", "connect", "write", "close"}
      /\ a.pc \notin {"demote", "promote"}
      /\ a.pc \in Waits => a.ip = 2 /\ a.cv = "conn"
      /\ a.pc \in {"send", "spin"} => a.ip \in 3 .. (n - 1)
      /\ a.pc \in {"finsent", "closing"} => a.ip = n
  BY ClientCalls
<1>3. /\ a.cfd = FirstFd /\ a.lfd = FirstFd /\ Conn(sender) = s /\ Listener(sender) = s
      /\ Connfd(sender) = FirstFd
  BY DEF ClientInv, Conn, Listener, Connfd, ClientSock
<1>4. a.ip >= 2 => s.status # "FREE"
  BY <1>2 DEF ClientInv
<1>5. /\ a.ip = 1 => Opened(sender) = {}
      /\ a.ip > 2 => s.local = cport /\ s.remote = sport /\ s.tcbRole = "client"
  BY <1>1, <1>2, <1>3 DEF ClientInv, Opened, ClientSock
<1> HIDE DEF a, s, n
<1>10. ASSUME NEW st, Put(sender, FirstFd, st)
       PROVE  ClientSock' = st /\ OnlySock(sender, FirstFd)
  BY <1>1, <1>10, PutEffect DEF ClientSock
<1>11. ASSUME UNCHANGED sock PROVE OnlySock(sender, FirstFd) /\ ClientSock' = ClientSock
  BY <1>11 DEF OnlySock, ClientSock
<1>12. CASE SocketCreate(sender)
  <2>1. a.ip = 1 /\ a.pc = "call"
    BY <1>2, <1>12 DEF SocketCreate, AtCall, a, n
  <2>2. FreshFd(sender) = FirstFd
    BY <1>5, <2>1, FreshFds
  <2>3. PICK g \in Garbage : Put(sender, FirstFd, NewSocket(g))
    BY <1>12, <2>2, TcpAssumption DEF SocketCreate, TcpAssumption
  <2>4. ClientSock' = NewSocket(g) /\ OnlySock(sender, FirstFd)
    BY <1>10, <2>3
  <2>5. /\ NewSocket(g).status = "NONE" /\ NewSocket(g).role = "none"
        /\ "conn" \notin NewSocket(g).ready
        /\ NewSocket(g).sizep = 0 /\ NewSocket(g).writep = 0
    BY DEF NewSocket, NoSocket
  <2>6. AppTo(sender, "call", a.cv, 2)
    BY <1>1, <1>3, <1>12, <2>1, <2>2 DEF SocketCreate, AppTo, AppThread, a, TypeOK
  <2>7. ClientFrame
    BY <1>12, <2>4 DEF ClientFrame, SocketCreate
  <2> QED
    BY <1>12, <2>1, <2>4, <2>5, <2>6, <2>7 DEF ClientStep, ClientSocket, SocketCreate, a
<1>13. CASE Connect(sender)
  <2>1. a.ip = 2 /\ a.pc = "call" /\ Call(sender).from = cport /\ Call(sender).to = sport
    BY <1>2, <1>13 DEF Connect, AtCall, a, n, Call, OneWay, ClientScript
  <2>2. Put(sender, FirstFd, [s EXCEPT !.tcbRole = "client", !.status = "SYNSENT",
                                       !.local = cport, !.remote = sport])
    BY <1>3, <1>13, <2>1 DEF Connect
  <2>3. /\ ClientSock' = [s EXCEPT !.tcbRole = "client", !.status = "SYNSENT",
                                   !.local = cport, !.remote = sport]
        /\ OnlySock(sender, FirstFd)
    BY <1>10, <2>2
  <2>4. AppTo(sender, "test", "conn", 2)
    BY <1>1, <1>13, <2>1, Moves DEF Connect, a
  <2>5. ClientFrame
    BY <1>13, <2>3 DEF ClientFrame, Connect
  <2>6. ClientConnects
    <3>1. /\ ClientSock'.status = "SYNSENT" /\ ClientSock'.ready = s.ready
          /\ ClientSock'.role = s.role /\ ClientSock'.tcbRole = "client"
          /\ ClientSock'.local = cport /\ ClientSock'.remote = sport
          /\ SameStream(ClientSock', s)
      BY <1>1, <2>3 DEF SafeSocket, Socket, SameStream
    <3> QED
      BY <1>13, <2>1, <2>4, <3>1 DEF ClientConnects, Connect, a, s
  <2> QED
    BY <2>5, <2>6, SMTT(40) DEF ClientStep
<1>14. CASE ConnectReturn(sender)
  BY <1>1, <1>2, <1>11, <1>14, Moves
  DEF ConnectReturn, At, a, ClientConnected, ClientMoves, ClientStep, ClientFrame, Waits
<1>15. CASE TestCondition(sender) \/ Block(sender) \/ SpuriousWakeup(sender)
  <2>1. a.ip = 2 /\ a.cv = "conn" /\ a.pc \in Waits
    BY <1>2, <1>15 DEF TestCondition, Block, SpuriousWakeup, At, a, Waits
  <2>2. \E pc \in Waits : Goto(sender, pc) /\ (pc = "ready" => "conn" \in s.ready)
    BY <1>3, <1>15, <2>1 DEF TestCondition, Block, SpuriousWakeup, Waits, Awaited, a
  <2>3. sock' = sock /\ wire' = wire /\ ClientFrame
    BY <1>11, <1>15 DEF TestCondition, Block, SpuriousWakeup, ClientFrame
  <2> QED
    BY <1>1, <2>1, <2>2, <2>3, Moves DEF ClientStep, ClientWaits, ClientMoves, a, s
<1>16. CASE WriteAppend(sender)
  <2>1. a.ip \in 3 .. (n - 1) /\ a.pc = "call" /\ a.ip <= n /\ Call(sender).op = "write"
    BY <1>2, <1>16 DEF WriteAppend, AtCall, a, n
  <2>2. Call(sender).data \in Seq(Byte)
    BY <1>1, <2>1, CallType DEF a, n
  <2> DEFINE d == Call(sender).data
  <2>3. Put(sender, FirstFd, [s EXCEPT !.databuf = CopyIn(s.databuf, s.sizep, d),
                                       !.sizep = s.sizep + Len(d)])
    BY <1>3, <1>16 DEF WriteAppend
  <2> HIDE DEF d
  <2>4. /\ ClientSock' = [s EXCEPT !.databuf = CopyIn(s.databuf, s.sizep, d),
                                   !.sizep = s.sizep + Len(d)]
        /\ OnlySock(sender, FirstFd)
    BY <1>10, <2>3
  <2>5. AppTo(sender, "send", a.cv, a.ip)
    BY <1>1, <1>16, Moves DEF WriteAppend, a
  <2>6. ClientFrame /\ wire' = wire
    BY <1>16, <2>4 DEF ClientFrame, WriteAppend
  <2>7. ClientAppends
    <3>1. /\ SameEnds(ClientSock', s) /\ SameState(ClientSock', s)
          /\ ClientSock'.readp = s.readp /\ ClientSock'.writep = s.writep
          /\ ClientSock'.sizep = s.sizep + Len(d)
          /\ ClientSock'.databuf = CopyIn(s.databuf, s.sizep, d)
      BY <1>1, <2>4 DEF SafeSocket, Socket, SameEnds, SameState
    <3>2. d \in Seq(Byte) /\ d = Call(sender).data
      BY <2>2 DEF d
    <3> QED
      BY <2>1, <2>5, <2>6, <3>1, <3>2 DEF ClientAppends, a, s, n
  <2> QED
    BY <2>6, <2>7 DEF ClientStep
<1>17. CASE WriteSend(sender)
  <2> DEFINE m == Unsent(s)
  <2>1. a.ip \in 3 .. (n - 1) /\ a.pc = "send"
    BY <1>2, <1>17 DEF WriteSend, At, a
  <2>2. m >= 0
    <3>1. s.writep <= s.sizep
      BY <1>2, <2>1 DEF Closing, a, n, s
    <3>2. s.writep \in Nat /\ s.sizep \in Nat /\ MSS \in Nat
      BY <1>1, TcpAssumption DEF SafeSocket, Socket, TcpAssumption
    <3> QED
      BY <3>1, <3>2 DEF Unsent
  <2>3. /\ SendTCPPackets(sender, sport,
             <<Segment("DATA", cport, sport, s.writep, 0, Slice(s.databuf, s.writep, m))>>)
        /\ Put(sender, FirstFd, [s EXCEPT !.writep = s.writep + m])
        /\ UNCHANGED up
    BY <1>2, <1>3, <1>5, <1>17, <2>1, <2>2 DEF WriteSend, Unsent
  <2>4. ClientSock' = [s EXCEPT !.writep = s.writep + m] /\ OnlySock(sender, FirstFd)
    BY <1>10, <2>3
  <2>5. AppTo(sender, "spin", a.cv, a.ip)
    BY <1>1, <1>17, Moves DEF WriteSend, a
  <2>6. ClientFrame
    BY <1>17, <2>3, <2>4 DEF ClientFrame, WriteSend
  <2> HIDE DEF m
  <2>7. /\ SameEnds(ClientSock', s) /\ SameState(ClientSock', s)
        /\ SameBuffer(ClientSock', s)
        /\ ClientSock'.readp = s.readp /\ ClientSock'.writep = s.writep + m
    BY <1>1, <2>4, SentUpdate
  <2>8. ClientSends
    BY <2>1, <2>3, <2>5, <2>7 DEF ClientSends, a, n, s, m
  <2> QED
    BY <2>6, <2>8 DEF ClientStep
<1>18. CASE WriteReturn(sender)
  BY <1>1, <1>2, <1>3, <1>11, <1>18, Moves
  DEF WriteReturn, At, a, s, n, ClientWritten, ClientMoves, ClientStep, ClientFrame
<1>19. CASE CloseSendFin(sender)
  <2>1. a.ip = n /\ a.pc = "call" /\ a.ip > 2
    BY <1>2, <1>19 DEF CloseSendFin, AtCall, a, n
  <2>2. SendTCPPackets(sender, sport, <<Segment("FIN", cport, sport, 0, 0, <<>>)>>)
    BY <1>3, <1>5, <1>19, <2>1 DEF CloseSendFin
  <2>3. CASE "close" \in Races
    <3>1. Goto(sender, "finsent") /\ UNCHANGED sock
      BY <1>19, <2>3 DEF CloseSendFin
    <3> QED
      BY <1>1, <1>11, <1>19, <2>1, <2>2, <2>3, <3>1, Moves
      DEF CloseSendFin, ClientStep, ClientFrame, ClientCloses, a, n
  <2>4. CASE "close" \notin Races
    <3>1. Goto(sender, "closing") /\ Put(sender, FirstFd, [s EXCEPT !.status = "FINWAIT1"])
      BY <1>3, <1>19, <2>4 DEF CloseSendFin
    <3>2. ClientSock' = [s EXCEPT !.status = "FINWAIT1"] /\ OnlySock(sender, FirstFd)
      BY <1>10, <3>1
    <3>3. /\ ClientSock'.status = "FINWAIT1" /\ ClientSock'.ready = s.ready
          /\ SameEnds(ClientSock', s) /\ SameStream(ClientSock', s)
      BY <1>1, <3>2, StatusUpdate
    <3> QED
      BY <1>1, <1>19, <2>1, <2>2, <3>1, <3>2, <3>3, Moves
      DEF CloseSendFin, ClientStep, ClientFrame, ClientCloses, a, n, s
  <2> QED
    BY <2>3, <2>4
<1>20. CASE CloseStore(sender)
  <2>1. a.ip = n /\ a.pc = "finsent"
    BY <1>2, <1>20 DEF CloseStore, At, a
  <2>2. Put(sender, FirstFd, [s EXCEPT !.status = "FINWAIT1"])
    BY <1>3, <1>20 DEF CloseStore
  <2>3. ClientSock' = [s EXCEPT !.status = "FINWAIT1"] /\ OnlySock(sender, FirstFd)
    BY <1>10, <2>2
  <2>4. /\ ClientSock'.status = "FINWAIT1" /\ ClientSock'.ready = s.ready
        /\ SameEnds(ClientSock', s) /\ SameStream(ClientSock', s)
    BY <1>1, <2>3, StatusUpdate
  <2> QED
    BY <1>1, <1>20, <2>1, <2>3, <2>4, Moves
    DEF CloseStore, ClientStep, ClientFrame, ClientStoresClose, a, n, s
<1>21. CASE CloseReturn(sender)
  BY <1>1, <1>2, <1>3, <1>11, <1>21, Moves
  DEF CloseReturn, At, a, s, n, ClientClosed, ClientMoves, ClientStep, ClientFrame
<1>22. ~CallOnMissingSocket(sender)
  BY <1>2, <1>3, <1>4 DEF CallOnMissingSocket, AtCall, a, n
<1>23. ~ \/ SocketBind(sender) \/ SocketListen(sender) \/ AcceptCreate(sender)
         \/ Read(sender)
  BY <1>2 DEF SocketBind, SocketListen, AcceptCreate, Read, AtCall, a, n
<1>24. ~ \/ AcceptDemote(sender) \/ AcceptPromote(sender) \/ AcceptAwaitAck(sender)
         \/ AcceptReturn(sender) \/ ReadReturn(sender)
  BY <1>2, Zenon DEF AcceptDemote, AcceptPromote, AcceptAwaitAck, AcceptReturn, ReadReturn,
              At, Waits, a
<1>25. ~CloseServer(sender)
  <2>1. CloseServer(sender) => a.ip = n /\ a.ip > 2
    BY <1>2 DEF CloseServer, AtCall, a, n
  <2> QED
    BY <1>3, <1>5, <2>1 DEF CloseServer
<1> QED
  BY <1>12, <1>13, <1>14, <1>15, <1>16, <1>17, <1>18, <1>19, <1>20, <1>21, <1>22,
     <1>23, <1>24, <1>25 DEF AppStep

-----------------------------------------------------------------------------
(* The steps the server's thread can make, field by field. *)

ServerFrame == UNCHANGED <<queue, unsolved, wire, rx, up, faults>>

ServerMoves(pc, cv, ip) ==
  AppTo(recver, pc, cv, ip) /\ sock' = sock /\ got' = got

ServerSocket ==
  /\ app[recver].ip = 1 /\ app[recver].pc = "call"
  /\ AppTo(recver, "call", app[recver].cv, 2)
  /\ OnlySock(recver, FirstFd) /\ got' = got
  /\ ListenSock'.status = "NONE" /\ ListenSock'.role = "none"
  /\ Unready(ListenSock')
  /\ ListenSock'.sizep = 0 /\ ListenSock'.readp = 0
  /\ ListenSock'.databuf = [i \in 0 .. (BufSize - 1) |-> Zero]

ServerBinds ==
  /\ app[recver].ip = 2 /\ app[recver].pc = "call"
  /\ AppTo(recver, "call", app[recver].cv, 3)
  /\ OnlySock(recver, FirstFd) /\ got' = got
  /\ ListenSock'.status = "CLOSED" /\ ListenSock'.ready = ListenSock.ready
  /\ ListenSock'.role = "server" /\ ListenSock'.tcbRole = "server"
  /\ ListenSock'.local = sport /\ ListenSock'.remote = NoEndpoint
  /\ SameStream(ListenSock', ListenSock)

ServerAccepts ==
  /\ app[recver].ip = 3 /\ app[recver].pc = "call"
  /\ app'[recver].ip = 3 /\ app'[recver].pc = "demote"
  /\ app'[recver].lfd = app[recver].lfd /\ app'[recver].cfd = ServerFd
  /\ \A g \in Host \ {recver} : app'[g] = app[g]
  /\ OnlySock(recver, ServerFd) /\ got' = got
  /\ ServerSock' = ListenSock

ServerDemotes ==
  /\ app[recver].ip = 3 /\ app[recver].pc = "demote"
  /\ AppTo(recver, "promote", app[recver].cv, 3)
  /\ OnlySock(recver, FirstFd) /\ got' = got
  /\ ListenSock'.status = "CLOSED" /\ ListenSock'.ready = ListenSock.ready
  /\ SameEnds(ListenSock', ListenSock) /\ SameStream(ListenSock', ListenSock)

ServerPromotes ==
  /\ app[recver].ip = 3 /\ app[recver].pc = "promote"
  /\ AppTo(recver, "test", "syn", 3)
  /\ OnlySock(recver, ServerFd) /\ got' = got
  /\ ServerSock'.status = "LISTEN" /\ ServerSock'.ready = ServerSock.ready
  /\ SameEnds(ServerSock', ServerSock) /\ SameStream(ServerSock', ServerSock)

ServerWaits ==
  /\ app[recver].ip >= 3 /\ app[recver].pc \in Waits
  /\ \E pc \in Waits :
       /\ ServerMoves(pc, app[recver].cv, app[recver].ip)
       /\ pc = "ready" /\ app[recver].cv # "read" =>
            app[recver].cv \in ServerSock.ready

ServerAwaitsAck ==
  /\ app[recver].ip = 3 /\ app[recver].pc = "ready" /\ app[recver].cv = "syn"
  /\ ServerMoves("test", "ack", 3)

ServerAccepted ==
  /\ app[recver].ip = 3 /\ app[recver].pc = "ready" /\ app[recver].cv = "ack"
  /\ AppTo(recver, "call", "ack", 4)
  /\ OnlySock(recver, FirstFd) /\ got' = got
  /\ ListenSock'.status = "LISTEN" /\ ListenSock'.ready = ListenSock.ready
  /\ SameEnds(ListenSock', ListenSock) /\ SameStream(ListenSock', ListenSock)

ServerReads ==
  /\ app[recver].ip \in 4 .. (Len(Script[recver]) - 1) /\ app[recver].pc = "call"
  /\ ServerMoves("test", "read", app[recver].ip)

ServerHasRead ==
  /\ app[recver].ip \in 4 .. (Len(Script[recver]) - 1)
  /\ app[recver].pc = "ready" /\ app[recver].cv = "read"
  /\ AppTo(recver, "call", "read", app[recver].ip + 1)
  /\ OnlySock(recver, ServerFd)
  /\ SameEnds(ServerSock', ServerSock) /\ SameState(ServerSock', ServerSock)
  /\ SameBuffer(ServerSock', ServerSock)
  /\ \E n \in Nat :
       /\ ServerSock.readp + n <= ServerSock.sizep
       /\ ServerSock'.readp = ServerSock.readp + n
       /\ Received' = Received \o Slice(ServerSock.databuf, ServerSock.readp, n)

ServerCloses ==
  /\ app[recver].ip = Len(Script[recver]) /\ app[recver].pc = "call"
  /\ ServerMoves("closing", app[recver].cv, app[recver].ip)

ServerClosed ==
  /\ app[recver].ip = Len(Script[recver]) /\ app[recver].pc = "closing"
  /\ ServerMoves("call", app[recver].cv, app[recver].ip + 1)

ServerStep ==
  /\ ServerFrame
  /\ \/ ServerSocket \/ ServerBinds \/ ServerAccepts \/ ServerDemotes
     \/ ServerPromotes \/ ServerWaits \/ ServerAwaitsAck \/ ServerAccepted
     \/ ServerReads \/ ServerHasRead \/ ServerCloses \/ ServerClosed

\* Where in its script a thread of the server is.
LEMMA ServerCalls ==
  ASSUME TypeOK, OneWay, CallsInv
  PROVE  LET a == app[recver]
             n == Len(Script[recver])
             op == Call(recver).op
         IN  /\ n \in Nat /\ n >= 4 /\ a.ip \in Nat \ {0}
             /\ a.pc # "call" => a.ip <= n
             /\ a.ip <= n => /\ op = "socket" <=> a.ip = 1
                             /\ op = "bind" <=> a.ip = 2
                             /\ op = "accept" <=> a.ip = 3
                             /\ op = "read" <=> a.ip \in 4 .. (n - 1)
                             /\ op = "close" <=> a.ip = n
                             /\ op \in {"socket", "bind", "accept", "read", "close"}
             /\ a.pc \in {"demote", "promote"} => a.ip = 3
             /\ a.pc \in Waits => \/ a.ip = 3 /\ a.cv \in {"syn", "ack"}
                                  \/ a.ip \in 4 .. (n - 1) /\ a.cv = "read"
             /\ a.pc \notin {"send", "spin"}
             /\ a.pc = "closing" => a.ip = n
<1> DEFINE a == app[recver]
           n == Len(Script[recver])
           op == Call(recver).op
<1>1. n \in Nat /\ n >= 4 /\ a.ip \in Nat \ {0} /\ recver \in Host
  BY Hypothesis DEF OneWay, ServerScript, TypeOK, AppThread
<1>2. a.ip <= n => /\ op = "socket" <=> a.ip = 1
                   /\ op = "bind" <=> a.ip = 2
                   /\ op = "accept" <=> a.ip = 3
                   /\ op = "read" <=> a.ip \in 4 .. (n - 1)
                   /\ op = "close" <=> a.ip = n
                   /\ op \in {"socket", "bind", "accept", "read", "close"}
  BY <1>1, SMTT(40) DEF Call, OneWay, ServerScript
<1>3. InCall(recver)
  BY <1>1 DEF CallsInv
<1> QED
  BY <1>1, <1>2, <1>3 DEF InCall, Waits

\* What the server's thread does is one of those steps.
LEMMA ServerSteps ==
  ASSUME TypeOK, ReadWithinArrived, OneWay, CallsInv, ServerInv,
         AppStep(recver) \/ SpuriousWakeup(recver)
  PROVE  ServerStep
<1> DEFINE a == app[recver]
           l == ListenSock
           s == ServerSock
           n == Len(Script[recver])
<1>1. /\ recver \in Host /\ FirstFd \in Fd /\ ServerFd \in Fd /\ a \in AppThread
      /\ l \in SafeSocket /\ s \in SafeSocket
  BY Hypothesis DEF TypeOK, ServerSock, ListenSock
<1>2. /\ n \in Nat /\ n >= 4 /\ a.ip \in Nat \ {0}
      /\ a.pc # "call" => a.ip <= n
      /\ a.ip <= n => /\ Call(recver).op = "socket" <=> a.ip = 1
                      /\ Call(recver).op = "bind" <=> a.ip = 2
                      /\ Call(recver).op = "accept" <=> a.ip = 3
                      /\ Call(recver).op = "read" <=> a.ip \in 4 .. (n - 1)
                      /\ Call(recver).op = "close" <=> a.ip = n
                      /\ Call(recver).op \in {"socket", "bind", "accept", "read", "close"}
      /\ a.pc \in {"demote", "promote"} => a.ip = 3
      /\ a.pc \in Waits => \/ a.ip = 3 /\ a.cv \in {"syn", "ack"}
                           \/ a.ip \in 4 .. (n - 1) /\ a.cv = "read"
      /\ a.pc \notin {"send", "spin"}
      /\ a.pc = "closing" => a.ip = n
  BY ServerCalls
<1>3. /\ a.lfd = FirstFd /\ Listener(recver) = l /\ a.pc # "finsent"
      /\ Accepts => a.cfd = FirstFd
      /\ ~Accepts => a.cfd = ServerFd /\ Conn(recver) = s /\ Connfd(recver) = ServerFd
      /\ Accepts <=> a.ip <= 2 \/ (a.ip = 3 /\ a.pc = "call")
  BY DEF ServerInv, Conn, Listener, Connfd, ListenSock, ServerSock, Accepts
<1>4. /\ a.ip = 1 => Opened(recver) = {}
      /\ a.ip = 3 /\ a.pc = "call" => Opened(recver) = {FirstFd}
  <2>1. \A f \in Fd \ {FirstFd, ServerFd} : sock[recver][f].status = "FREE"
    BY DEF ServerInv
  <2>2. Accepts => s.status = "FREE"
    BY DEF ServerInv
  <2>3. a.ip = 1 => l.status = "FREE"
    BY DEF ServerInv
  <2>4. a.ip >= 3 => l.status # "FREE"
    BY DEF ServerInv, IsServer
  <2> QED
    BY <1>1, <1>2, <1>3, <2>1, <2>2, <2>3, <2>4 DEF Opened, ListenSock, ServerSock
<1>5. /\ a.ip >= 2 => l.status # "FREE"
      /\ a.ip >= 4 => s.status # "FREE" /\ s.tcbRole = "server"
      /\ a.ip = 2 => l.role = "none"
      /\ ~Accepts => s.status # "FREE"
  BY <1>2, <1>3 DEF ServerInv, IsServer, Accepts
<1> HIDE DEF a, s, l, n
<1>10. /\ \A st : Put(recver, FirstFd, st) => ListenSock' = st /\ OnlySock(recver, FirstFd)
       /\ \A st : Put(recver, ServerFd, st) => ServerSock' = st /\ OnlySock(recver, ServerFd)
  BY <1>1, PutEffect DEF ListenSock, ServerSock
<1>12. CASE SocketCreate(recver)
  <2>1. a.ip = 1 /\ a.pc = "call"
    BY <1>2, <1>12 DEF SocketCreate, AtCall, a, n
  <2>2. FreshFd(recver) = FirstFd
    BY <1>4, <2>1, FreshFds
  <2>3. PICK g \in Garbage : Put(recver, FirstFd, NewSocket(g))
    BY <1>12, <2>2, TcpAssumption DEF SocketCreate, TcpAssumption
  <2>4. ListenSock' = NewSocket(g) /\ OnlySock(recver, FirstFd)
    BY <1>10, <2>3
  <2>5. /\ NewSocket(g).status = "NONE" /\ NewSocket(g).role = "none"
        /\ NewSocket(g).sizep = 0 /\ NewSocket(g).readp = 0
        /\ NewSocket(g).ready = IF g THEN {"ack"} ELSE {}
        /\ NewSocket(g).databuf = [i \in 0 .. (BufSize - 1) |-> Zero]
    BY DEF NewSocket, NoSocket
  <2>6. AppTo(recver, "call", a.cv, 2)
    BY <1>1, <1>3, <1>12, <2>1, <2>2 DEF SocketCreate, AppTo, AppThread, a, TypeOK, Accepts
  <2>7. ServerFrame /\ got' = got
    BY <1>12 DEF ServerFrame, SocketCreate
  <2> QED
    BY <2>1, <2>4, <2>5, <2>6, <2>7, Zenon DEF ServerStep, ServerSocket, Unready, a
<1>13. CASE SocketBind(recver)
  <2>1. a.ip = 2 /\ a.pc = "call" /\ Call(recver).at = sport
    BY <1>2, <1>13 DEF SocketBind, AtCall, a, n, Call, OneWay, ServerScript
  <2>2. Put(recver, FirstFd, [l EXCEPT !.role = "server", !.tcbRole = "server",
                                       !.status = "CLOSED", !.local = sport,
                                       !.remote = NoEndpoint])
    BY <1>3, <1>5, <1>13, <2>1 DEF SocketBind, a
  <2>3. /\ ListenSock' = [l EXCEPT !.role = "server", !.tcbRole = "server",
                                   !.status = "CLOSED", !.local = sport,
                                   !.remote = NoEndpoint]
        /\ OnlySock(recver, FirstFd)
    BY <1>10, <2>2
  <2>4. /\ ListenSock'.status = "CLOSED" /\ ListenSock'.ready = l.ready
        /\ ListenSock'.role = "server" /\ ListenSock'.tcbRole = "server"
        /\ ListenSock'.local = sport /\ ListenSock'.remote = NoEndpoint
        /\ SameStream(ListenSock', l)
    BY <1>1, <2>3 DEF SafeSocket, Socket, SameStream
  <2>5. AppTo(recver, "call", a.cv, 3)
    BY <1>1, <1>13, <2>1, Moves DEF SocketBind, a
  <2>6. ServerFrame /\ got' = got
    BY <1>13 DEF ServerFrame, SocketBind
  <2> QED
    BY <2>1, <2>3, <2>4, <2>5, <2>6 DEF ServerStep, ServerBinds, a, l
<1>14. CASE AcceptCreate(recver)
  <2>1. a.ip = 3 /\ a.pc = "call"
    BY <1>2, <1>14 DEF AcceptCreate, AtCall, a, n
  <2>2. FreshFd(recver) = ServerFd /\ ServerFd \notin Opened(recver)
    BY <1>4, <2>1, FreshFds, Hypothesis
  <2>3. Put(recver, ServerFd, l)
    BY <1>3, <1>14, <2>2 DEF AcceptCreate
  <2>4. ServerSock' = l /\ OnlySock(recver, ServerFd)
    BY <1>10, <2>3
  <2>5. /\ app'[recver].ip = 3 /\ app'[recver].pc = "demote"
        /\ app'[recver].lfd = a.lfd /\ app'[recver].cfd = ServerFd
        /\ \A g \in Host \ {recver} : app'[g] = app[g]
    BY <1>1, <1>14, <2>1, <2>2 DEF AcceptCreate, AppThread, a, TypeOK
  <2>6. ServerFrame /\ got' = got
    BY <1>14 DEF ServerFrame, AcceptCreate
  <2> QED
    BY <2>1, <2>4, <2>5, <2>6 DEF ServerStep, ServerAccepts, a, l
<1>15. CASE AcceptDemote(recver)
  <2>1. a.ip = 3 /\ a.pc = "demote"
    BY <1>2, <1>15 DEF AcceptDemote, At, a
  <2>2. /\ ListenSock' = [l EXCEPT !.status = "CLOSED"] /\ OnlySock(recver, FirstFd)
    BY <1>3, <1>10, <1>15 DEF AcceptDemote, a
  <2>3. AppTo(recver, "promote", a.cv, 3)
    BY <1>1, <1>15, <2>1, Moves DEF AcceptDemote, a
  <2>4. ServerFrame /\ got' = got
    BY <1>15 DEF ServerFrame, AcceptDemote
  <2>5. /\ ListenSock'.status = "CLOSED" /\ ListenSock'.ready = l.ready
        /\ SameEnds(ListenSock', l) /\ SameStream(ListenSock', l)
    BY <1>1, <2>2, StatusUpdate
  <2> QED
    BY <2>1, <2>2, <2>3, <2>4, <2>5 DEF ServerStep, ServerDemotes, a, l
<1>16. CASE AcceptPromote(recver)
  <2>1. a.ip = 3 /\ a.pc = "promote" /\ ~Accepts
    BY <1>2, <1>3, <1>16 DEF AcceptPromote, At, a
  <2>2. /\ ServerSock' = [s EXCEPT !.status = "LISTEN"] /\ OnlySock(recver, ServerFd)
    BY <1>3, <1>10, <1>16, <2>1 DEF AcceptPromote, a
  <2>3. AppTo(recver, "test", "syn", 3)
    BY <1>1, <1>16, <2>1, Moves DEF AcceptPromote, a
  <2>4. ServerFrame /\ got' = got
    BY <1>16 DEF ServerFrame, AcceptPromote
  <2>5. /\ ServerSock'.status = "LISTEN" /\ ServerSock'.ready = s.ready
        /\ SameEnds(ServerSock', s) /\ SameStream(ServerSock', s)
    BY <1>1, <2>2, StatusUpdate
  <2> QED
    BY <2>1, <2>2, <2>3, <2>4, <2>5 DEF ServerStep, ServerPromotes, a, s
<1>17. CASE TestCondition(recver) \/ Block(recver) \/ SpuriousWakeup(recver)
  <2>1. a.ip >= 3 /\ a.pc \in Waits /\ ~Accepts
    BY <1>2, <1>3, <1>17 DEF TestCondition, Block, SpuriousWakeup, At, a, Waits
  <2>2. \E pc \in Waits : Goto(recver, pc) /\ (pc = "ready" /\ a.cv # "read" => a.cv \in s.ready)
    BY <1>3, <1>17, <2>1 DEF TestCondition, Block, SpuriousWakeup, Waits, Awaited, a
  <2>3. sock' = sock /\ got' = got /\ ServerFrame
    BY <1>17 DEF TestCondition, Block, SpuriousWakeup, ServerFrame
  <2> QED
    BY <1>1, <2>1, <2>2, <2>3, Moves DEF ServerStep, ServerWaits, ServerMoves, a, s
<1>18. CASE AcceptAwaitAck(recver)
  <2>1. a.ip = 3 /\ a.pc = "ready" /\ a.cv = "syn"
    BY <1>2, <1>18 DEF AcceptAwaitAck, At, a, Waits
  <2> QED
    BY <1>1, <1>18, <2>1, Moves
    DEF AcceptAwaitAck, a, ServerStep, ServerAwaitsAck, ServerMoves, ServerFrame
<1>19. CASE AcceptReturn(recver)
  <2>1. a.ip = 3 /\ a.pc = "ready" /\ a.cv = "ack"
    BY <1>2, <1>19 DEF AcceptReturn, At, a, Waits
  <2>2. /\ ListenSock' = [l EXCEPT !.status = "LISTEN"] /\ OnlySock(recver, FirstFd)
    BY <1>3, <1>10, <1>19 DEF AcceptReturn, a
  <2>3. AppTo(recver, "call", "ack", 4)
    BY <1>1, <1>19, <2>1, Moves DEF AcceptReturn, a
  <2>4. ServerFrame /\ got' = got
    BY <1>19 DEF ServerFrame, AcceptReturn
  <2>5. /\ ListenSock'.status = "LISTEN" /\ ListenSock'.ready = l.ready
        /\ SameEnds(ListenSock', l) /\ SameStream(ListenSock', l)
    BY <1>1, <2>2, StatusUpdate
  <2> QED
    BY <2>1, <2>2, <2>3, <2>4, <2>5 DEF ServerStep, ServerAccepted, a, l
<1>20. CASE Read(recver)
  BY <1>1, <1>2, <1>20, Moves
  DEF Read, AtCall, a, n, ServerStep, ServerReads, ServerMoves, ServerFrame
<1>21. CASE ReadReturn(recver)
  <2>1. /\ a.ip \in 4 .. (n - 1) /\ a.ip <= n /\ a.pc = "ready" /\ a.cv = "read"
        /\ ~Accepts /\ Call(recver).op = "read"
    BY <1>2, <1>3, <1>21 DEF ReadReturn, At, a, Waits
  <2> DEFINE m == Call(recver).n
  <2>2. m \in Nat /\ s.readp + m <= s.sizep
    <3>1. m \in Nat
      BY <1>1, <2>1, CallType DEF a, n
    <3>2. WithinArrived(recver)
      BY <1>1 DEF ReadWithinArrived
    <3> QED
      BY <1>3, <2>1, <3>1, <3>2 DEF WithinArrived, ReadWaits, a
  <2>3. ServerSock' = [s EXCEPT !.readp = s.readp + m] /\ OnlySock(recver, ServerFd)
    BY <1>3, <1>10, <1>21, <2>1 DEF ReadReturn, a
  <2>4. AppTo(recver, "call", "read", a.ip + 1)
    BY <1>1, <1>21, <2>1, Moves DEF ReadReturn, a
  <2>5. ServerFrame
    BY <1>21 DEF ServerFrame, ReadReturn
  <2>6. Received' = Received \o Slice(s.databuf, s.readp, m)
    <3>1. got' = [got EXCEPT ![recver][ServerFd] =
                    got[recver][ServerFd] \o Slice(s.databuf, s.readp, m)]
      BY <1>3, <1>21, <2>1 DEF ReadReturn, a
    <3> HIDE DEF m
    <3> QED
      BY <1>1, <3>1, Zenon DEF Received, TypeOK
  <2> HIDE DEF m
  <2>7. /\ SameEnds(ServerSock', s) /\ SameState(ServerSock', s)
        /\ SameBuffer(ServerSock', s) /\ ServerSock'.readp = s.readp + m
    BY <1>1, <2>3, ReadUpdate
  <2> QED
    BY <2>1, <2>2, <2>3, <2>4, <2>5, <2>6, <2>7, Zenon DEF ServerStep, ServerHasRead, a, s, n
<1>22. CASE CloseServer(recver)
  BY <1>1, <1>2, <1>22, Moves
  DEF CloseServer, AtCall, a, n, ServerStep, ServerCloses, ServerMoves, ServerFrame
<1>23. CASE CloseReturn(recver)
  BY <1>1, <1>2, <1>23, Moves
  DEF CloseReturn, At, a, n, ServerStep, ServerClosed, ServerMoves, ServerFrame
<1>24. ~CallOnMissingSocket(recver)
  BY <1>2, <1>3, <1>5 DEF CallOnMissingSocket, AtCall, a, n
<1>25. ~ \/ SocketListen(recver) \/ Connect(recver) \/ WriteAppend(recver)
         \/ ConnectReturn(recver)
  BY <1>2 DEF SocketListen, Connect, WriteAppend, ConnectReturn, AtCall, At, Waits, a, n
<1>26. ~ \/ WriteSend(recver) \/ WriteReturn(recver) \/ CloseStore(recver)
  BY <1>2, <1>3 DEF WriteSend, WriteReturn, CloseStore, At, a
<1>27. ~CloseSendFin(recver)
  <2>1. CloseSendFin(recver) => a.ip = n
    BY <1>2, SMTT(40) DEF CloseSendFin, AtCall, a, n
  <2> QED
    BY <1>2, <1>3, <1>5, <2>1 DEF CloseSendFin
<1> QED
  BY <1>12, <1>13, <1>14, <1>15, <1>16, <1>17, <1>18, <1>19, <1>20, <1>21, <1>22,
     <1>23, <1>24, <1>25, <1>26, <1>27 DEF AppStep

-----------------------------------------------------------------------------
(* The steps of processip, of the main threads and of the network. *)

RxFrame(h) ==
  /\ \A g \in Host \ {h} : rx'[g] = rx[g]
  /\ UNCHANGED <<unsolved, got, up, faults>>

\* The application thread of h is notified or not.
Notified(h) ==
  \/ AppTo(h, app[h].pc, app[h].cv, app[h].ip)
  \/ app[h].pc = "wait" /\ AppTo(h, "test", app[h].cv, app[h].ip)

Pops(h) ==
  /\ rx[h].pc = "pop" /\ rx'[h].pc = "react"
  /\ LET f == rx'[h].fd
     IN  /\ f \in Fd
         /\ queue[h][f] # <<>> /\ rx'[h].pkt = Head(queue[h][f])
         /\ queue'[h][f] = Tail(queue[h][f])
         /\ \A g \in Host, e \in Fd : (g # h \/ e # f) => queue'[g][e] = queue[g][e]
         /\ rx'[h].seen = sock[h][f].status
  /\ \A g \in Host \ {h} : rx'[g] = rx[g]
  /\ UNCHANGED <<sock, wire, app, got, up, faults>>

\* The effect of Pop.
LEMMA PopEffect ==
  ASSUME TypeOK, NEW h \in Host, Pop(h)
  PROVE  Pops(h)
<1> DEFINE f == Head(unsolved[h])
<1>1. f \in Fd /\ rx \in [Host -> RxThread]
  BY DEF Pop, TypeOK
<1>2. /\ rx' = [rx EXCEPT ![h].pc = "react", ![h].fd = f,
                          ![h].pkt = Head(queue[h][f]),
                          ![h].seen = sock[h][f].status]
      /\ queue' = [queue EXCEPT ![h][f] = Tail(queue[h][f])]
      /\ queue[h][f] # <<>> /\ rx[h].pc = "pop"
      /\ UNCHANGED <<sock, wire, app, got, up, faults>>
  BY DEF Pop, RxAt
<1> HIDE DEF f
<1>3. /\ rx'[h].pc = "react" /\ rx'[h].fd = f
      /\ rx'[h].pkt = Head(queue[h][f]) /\ rx'[h].seen = sock[h][f].status
      /\ \A g \in Host \ {h} : rx'[g] = rx[g]
  BY <1>1, <1>2 DEF RxThread
<1>4. /\ queue'[h][f] = Tail(queue[h][f])
      /\ \A g \in Host, e \in Fd : (g # h \/ e # f) => queue'[g][e] = queue[g][e]
  BY <1>1, <1>2 DEF TypeOK
<1> QED
  BY <1>1, <1>2, <1>3, <1>4 DEF Pops

Reacts(h) ==
  LET p == rx[h].pkt
      r == rx'[h].rule
  IN  /\ rx[h].pc = "react" /\ rx'[h].pc = "store"
      /\ rx'[h].pkt = p /\ rx'[h].fd = rx[h].fd
      /\ r \in Rules /\ r.on = p.kind
      /\ r.at \in {rx[h].seen, RxSock(h).status}
      /\ SendTCPPackets(h, p.src, [i \in DOMAIN r.send |-> Reply(p, r.send[i])])
      /\ RxFrame(h)
      /\ UNCHANGED <<sock, queue, app>>

\* The effect of React.
LEMMA ReactEffect ==
  ASSUME TypeOK, NEW h \in Host, React(h)
  PROVE  Reacts(h)
<1>1. PICK r \in Applicable(h, rx[h].seen) \cup Applicable(h, RxSock(h).status) :
        /\ SendTCPPackets(h, rx[h].pkt.src,
             [i \in DOMAIN r.send |-> Reply(rx[h].pkt, r.send[i])])
        /\ rx' = [rx EXCEPT ![h].pc = "store", ![h].rule = r]
  BY Zenon DEF React
<1>2. rx[h].pc = "react" /\ UNCHANGED <<sock, queue, unsolved, app, got, up, faults>>
  BY DEF React, RxAt
<1>3. r \in Rules /\ r.on = rx[h].pkt.kind /\ r.at \in {rx[h].seen, RxSock(h).status}
  BY <1>1 DEF Applicable
<1>4. /\ rx'[h].pc = "store" /\ rx'[h].pkt = rx[h].pkt /\ rx'[h].fd = rx[h].fd
      /\ rx'[h].rule = r /\ \A g \in Host \ {h} : rx'[g] = rx[g]
  BY <1>1 DEF TypeOK, RxThread
<1> QED
  BY <1>1, <1>2, <1>3, <1>4, Zenon DEF Reacts, RxFrame

Idles(h) ==
  /\ rx'[h].pc = "pop" /\ rx'[h].fd = rx[h].fd
  /\ RxFrame(h)
  /\ queue' = queue

Stores(h) ==
  LET f == rx[h].fd
      s == sock[h][f]
      t == sock'[h][f]
  IN  /\ rx[h].pc = "store"
      /\ t.status = rx[h].rule.to /\ t.ready = s.ready \cup rx[h].rule.wake
      /\ SameEnds(t, s) /\ SameStream(t, s)
      /\ OnlySock(h, f)
      /\ Notified(h)
      /\ Idles(h)
      /\ wire' = wire

\* processip goes back for the next packet.
LEMMA IdleEffect ==
  ASSUME TypeOK, NEW h \in Host, Idle(h)
  PROVE  /\ rx'[h].pc = "pop" /\ rx'[h].fd = rx[h].fd
         /\ \A g \in Host \ {h} : rx'[g] = rx[g]
  BY ZenonT(40) DEF Idle, TypeOK, RxThread

\* The effect of Store.
LEMMA StoreEffect ==
  ASSUME TypeOK, NEW h \in Host, Store(h)
  PROVE  Stores(h)
<1> DEFINE f == rx[h].fd
           s == sock[h][f]
<1>1. s \in SafeSocket /\ f \in Fd
  BY OwnSockets DEF RxSock
<1>2. /\ rx[h].pc = "store" /\ NotifyAll(h, f, rx[h].rule.wake) /\ Idle(h)
      /\ Put(h, f, [s EXCEPT !.status = rx[h].rule.to,
                             !.ready = s.ready \cup rx[h].rule.wake])
      /\ UNCHANGED <<queue, unsolved, wire, got, up, faults>>
  BY DEF Store, RxAt, RxSock
<1>3. /\ sock'[h][f] = [s EXCEPT !.status = rx[h].rule.to,
                                 !.ready = s.ready \cup rx[h].rule.wake]
      /\ OnlySock(h, f)
  BY <1>1, <1>2, PutEffect
<1>4. /\ sock'[h][f].status = rx[h].rule.to
      /\ sock'[h][f].ready = s.ready \cup rx[h].rule.wake
      /\ SameEnds(sock'[h][f], s) /\ SameStream(sock'[h][f], s)
  BY <1>1, <1>3 DEF SafeSocket, Socket, SameEnds, SameStream
<1>5. Notified(h)
  BY <1>2, Moves DEF Notified
<1> QED
  BY <1>2, <1>3, <1>4, <1>5, IdleEffect DEF Stores, Idles, RxFrame

\* An ACK at the client's socket.
Acks(h) ==
  LET f == rx[h].fd
      p == rx[h].pkt
      s == sock[h][f]
      t == sock'[h][f]
      n == Lesser(MSS, s.sizep - p.ack)
  IN  /\ rx[h].pc = "react" /\ p.kind = "ACK"
      /\ "ESTAB" \in {rx[h].seen, s.status}
      /\ SameEnds(t, s) /\ SameState(t, s) /\ SameBuffer(t, s)
      /\ t.readp = s.readp /\ t.writep = p.ack
      /\ OnlySock(h, f)
      /\ \/ ~(p.ack < s.sizep) /\ wire' = wire
         \/ /\ p.ack < s.sizep
            /\ SendTCPPackets(h, p.src,
                 <<Segment("DATA", p.dst, p.src, p.ack, 0, Slice(s.databuf, p.ack, n))>>)
      /\ Idles(h)
      /\ app' = app

Ignores(h) ==
  /\ rx[h].pc = "react" /\ rx[h].pkt.kind # "DATA"
  /\ \/ Applicable(h, rx[h].seen) = {}
     \/ rx[h].pkt.kind = "ACK" /\ "ESTAB" \in {rx[h].seen, RxSock(h).status}
  /\ Idles(h) /\ UNCHANGED <<sock, wire, app>>

\* The effect of RecvTCPAck, at a server and at a client.
LEMMA AckEffect ==
  ASSUME TypeOK, NEW h \in Host, RecvTCPAck(h)
  PROVE  IF RxSock(h).role = "server" THEN Ignores(h) ELSE Acks(h)
<1> DEFINE f == rx[h].fd
           p == rx[h].pkt
           s == sock[h][f]
           n == Lesser(MSS, s.sizep - p.ack)
<1>1. s \in SafeSocket /\ f \in Fd /\ s.sizep \in Nat /\ p.ack \in Nat /\ RxSock(h) = s
  <2>1. s \in SafeSocket /\ f \in Fd /\ RxSock(h) = s
    BY OwnSockets DEF RxSock
  <2>2. p \in Packet
    BY DEF TypeOK, RxThread, SafePacket
  <2> HIDE DEF s, p
  <2> QED
    BY <2>1, <2>2 DEF SafeSocket, Socket, Packet
<1>2. /\ rx[h].pc = "react" /\ Idle(h) /\ UNCHANGED <<queue, unsolved, app, got, up, faults>>
      /\ p.kind = "ACK" /\ "ESTAB" \in {rx[h].seen, s.status}
  BY <1>1 DEF RecvTCPAck, RxAt
<1>3. Idles(h)
  BY <1>2, IdleEffect DEF Idles, RxFrame
<1>4. CASE s.role = "server"
  BY <1>1, <1>2, <1>3, <1>4, SMTT(40) DEF RecvTCPAck, Ignores
<1>5. CASE s.role # "server"
  <2>1. /\ Put(h, f, [s EXCEPT !.writep = p.ack])
        /\ IF p.ack >= s.sizep THEN UNCHANGED wire
           ELSE SendTCPPackets(h, p.src,
                  <<Segment("DATA", p.dst, p.src, p.ack, 0, Slice(s.databuf, p.ack, n))>>)
    BY <1>1, <1>5 DEF RecvTCPAck
  <2>2. sock'[h][f] = [s EXCEPT !.writep = p.ack] /\ OnlySock(h, f)
    BY <1>1, <2>1, PutEffect
  <2>3. /\ SameEnds(sock'[h][f], s) /\ SameState(sock'[h][f], s)
        /\ SameBuffer(sock'[h][f], s)
        /\ sock'[h][f].readp = s.readp /\ sock'[h][f].writep = p.ack
    BY <1>1, <2>2, SentUpdate
  <2>4. \/ ~(p.ack < s.sizep) /\ wire' = wire
        \/ /\ p.ack < s.sizep
           /\ SendTCPPackets(h, p.src,
                <<Segment("DATA", p.dst, p.src, p.ack, 0, Slice(s.databuf, p.ack, n))>>)
    BY <1>1, <2>1, SMTT(40)
  <2> QED
    BY <1>1, <1>2, <1>3, <1>5, <2>2, <2>3, <2>4, SMTT(40) DEF Acks
<1> QED
  BY <1>1, <1>4, <1>5

StoresData(h) ==
  LET f == rx[h].fd
      p == rx[h].pkt
      s == sock[h][f]
      t == sock'[h][f]
      end == p.seq + Len(p.data)
  IN  /\ rx[h].pc = "react" /\ p.kind = "DATA"
      /\ SameEnds(t, s) /\ SameState(t, s)
      /\ t.readp = s.readp /\ t.writep = s.writep
      /\ t.sizep = (IF end > s.sizep THEN end ELSE s.sizep)
      /\ t.databuf = CopyIn(s.databuf, p.seq, p.data)
      /\ OnlySock(h, f)
      /\ Notified(h)
      /\ SendTCPPackets(h, p.src, <<Segment("ACK", p.dst, p.src, 0, end, <<>>)>>)
      /\ Idles(h)

\* The effect of RecvTCPData.
LEMMA DataEffect ==
  ASSUME TypeOK, NEW h \in Host, RecvTCPData(h)
  PROVE  StoresData(h)
<1> DEFINE f == rx[h].fd
           p == rx[h].pkt
           s == sock[h][f]
           end == p.seq + Len(p.data)
           size == IF end > s.sizep THEN end ELSE s.sizep
           buf == CopyIn(s.databuf, p.seq, p.data)
<1>1. s \in SafeSocket /\ f \in Fd /\ RxSock(h) = s
  BY OwnSockets DEF RxSock
<1>2. /\ rx[h].pc = "react" /\ Idle(h) /\ UNCHANGED <<queue, unsolved, got, up, faults>>
      /\ p.kind = "DATA"
      /\ Put(h, f, [s EXCEPT !.databuf = buf, !.sizep = size])
      /\ NotifyAll(h, f, {"read"}) \/ UNCHANGED app
      /\ SendTCPPackets(h, p.src, <<Segment("ACK", p.dst, p.src, 0, end, <<>>)>>)
  BY <1>1 DEF RecvTCPData, RxAt
<1>3. Idles(h)
  BY <1>2, IdleEffect, ZenonT(40) DEF Idles, RxFrame
<1>4. Notified(h)
  BY <1>2, Moves DEF Notified, AppTo
<1> HIDE DEF size, buf
<1>5. sock'[h][f] = [s EXCEPT !.databuf = buf, !.sizep = size] /\ OnlySock(h, f)
  BY <1>1, <1>2, PutEffect
<1>6. /\ SameEnds(sock'[h][f], s) /\ SameState(sock'[h][f], s)
      /\ sock'[h][f].readp = s.readp /\ sock'[h][f].writep = s.writep
      /\ sock'[h][f].sizep = size /\ sock'[h][f].databuf = buf
  BY <1>1, <1>5 DEF SafeSocket, Socket, SameEnds, SameState
<1> QED
  BY <1>2, <1>3, <1>4, <1>5, <1>6, ZenonT(40) DEF StoresData, size, buf

\* What processip does is one of those steps.
LEMMA RxSteps ==
  ASSUME TypeOK, NEW h \in Host, RxStep(h)
  PROVE  /\ \/ Pops(h) \/ Reacts(h) \/ Stores(h) \/ Ignores(h) \/ StoresData(h)
            \/ Acks(h) /\ RxSock(h).role # "server"
         /\ up[h]
<1>1. Ignore(h) => Ignores(h)
  BY IdleEffect, ZenonT(40) DEF Ignore, Ignores, Idles, RxFrame, RxAt
<1>2. up[h]
  BY SMTT(40) DEF RxStep, Pop, React, Store, RecvTCPAck, RecvTCPData, Ignore, RxAt
<1> QED
  BY <1>1, <1>2, PopEffect, ReactEffect, StoreEffect, AckEffect, DataEffect DEF RxStep

Arrival(g, h) ==
  LET p == Head(wire[g][h])
      f == Destination(h, p)
      s == sock[h][f]
      t == sock'[h][f]
  IN  /\ up[h] /\ wire[g][h] # <<>> /\ f \in Fd
      /\ IF p.kind = "SYN"
         THEN /\ t.local = p.dst /\ t.remote = p.src
              /\ t.role = s.role /\ t.tcbRole = s.tcbRole
              /\ SameState(t, s) /\ SameStream(t, s)
              /\ OnlySock(h, f)
         ELSE sock' = sock
      /\ queue'[h][f] = Append(queue[h][f], p)
      /\ \A k \in Host, e \in Fd : (k # h \/ e # f) => queue'[k][e] = queue[k][e]
      /\ Arrives(g, h)
      /\ UNCHANGED <<app, rx, got, up, faults>>

\* The effect of RecvIPPacket.
LEMMA ArrivalEffect ==
  ASSUME TypeOK, NEW g \in Host, NEW h \in Host, RecvIPPacket(g, h)
  PROVE  Arrival(g, h)
<1> DEFINE p == Head(wire[g][h])
           f == Destination(h, p)
           s == sock[h][f]
<1>1. /\ f \in Fd /\ up[h] /\ wire[g][h] # <<>> /\ Arrives(g, h)
      /\ IF p.kind = "SYN" THEN Put(h, f, [s EXCEPT !.local = p.dst, !.remote = p.src])
         ELSE UNCHANGED sock
      /\ queue' = [queue EXCEPT ![h][f] = Append(queue[h][f], p)]
      /\ UNCHANGED <<app, rx, got, up, faults>>
  BY DEF RecvIPPacket, TypeOK
<1>2. s \in SafeSocket
  BY <1>1 DEF TypeOK
<1> HIDE DEF p, f
<1>3. /\ queue'[h][f] = Append(queue[h][f], p)
      /\ \A k \in Host, e \in Fd : (k # h \/ e # f) => queue'[k][e] = queue[k][e]
  BY <1>1, Zenon DEF TypeOK
<1>4. ASSUME p.kind = "SYN"
      PROVE  LET t == sock'[h][f]
             IN  /\ t.local = p.dst /\ t.remote = p.src
                 /\ t.role = s.role /\ t.tcbRole = s.tcbRole
                 /\ SameState(t, s) /\ SameStream(t, s)
                 /\ OnlySock(h, f)
  <2>1. sock'[h][f] = [s EXCEPT !.local = p.dst, !.remote = p.src] /\ OnlySock(h, f)
    BY <1>1, <1>4, PutEffect
  <2> QED
    BY <1>2, <2>1 DEF SafeSocket, Socket, SameState, SameStream
<1> QED
  BY <1>1, <1>3, <1>4, Zenon DEF Arrival, p, f

-----------------------------------------------------------------------------
(* Packets under way. *)

\* What is on a wire are packets.
LEMMA WireType ==
  ASSUME TypeOK, NEW g \in Host, NEW h \in Host
  PROVE  wire[g][h] \in Seq(SafePacket)
  BY DEF TypeOK

\* The places where a packet can be.
LEMMA PendingIs ==
  ASSUME NEW h, NEW p
  PROVE  p \in Pending(h) <=>
           \/ \E g \in Host : \E i \in DOMAIN wire[g][h] : p = wire[g][h][i]
           \/ \E f \in Fd : \E i \in DOMAIN queue[h][f] : p = queue[h][f][i]
           \/ rx[h].pc # "pop" /\ p = rx[h].pkt
<1>1. p \in OnWires(h) <=>
        \E g \in Host : \E i \in DOMAIN wire[g][h] : p = wire[g][h][i]
  BY DEF OnWires
<1>2. p \in InQueues(h) <=>
        \E f \in Fd : \E i \in DOMAIN queue[h][f] : p = queue[h][f][i]
  BY DEF InQueues
<1>3. p \in InHand(h) <=> rx[h].pc # "pop" /\ p = rx[h].pkt
  BY DEF InHand
<1> QED
  BY <1>1, <1>2, <1>3 DEF Pending

\* The same in the next state.
LEMMA PendingNext ==
  ASSUME NEW h, NEW p
  PROVE  p \in Pending(h)' <=>
           \/ \E g \in Host : \E i \in DOMAIN wire'[g][h] : p = wire'[g][h][i]
           \/ \E f \in Fd : \E i \in DOMAIN queue'[h][f] : p = queue'[h][f][i]
           \/ rx'[h].pc # "pop" /\ p = rx'[h].pkt
<1>1. p \in OnWires(h)' <=>
        \E g \in Host : \E i \in DOMAIN wire'[g][h] : p = wire'[g][h][i]
  BY DEF OnWires
<1>2. p \in InQueues(h)' <=>
        \E f \in Fd : \E i \in DOMAIN queue'[h][f] : p = queue'[h][f][i]
  BY DEF InQueues
<1>3. p \in InHand(h)' <=> rx'[h].pc # "pop" /\ p = rx'[h].pkt
  BY DEF InHand
<1> QED
  BY <1>1, <1>2, <1>3 DEF Pending

\* processip takes nothing new into its hands.
KeepsPacket == \A h \in Host :
  rx'[h].pc # "pop" => rx[h].pc # "pop" /\ rx'[h].pkt = rx[h].pkt

\* A step that sends adds what it sends to the wire to the host of the endpoint
\* it sends to.
LEMMA SendWire ==
  ASSUME TypeOK, NEW h \in Host, NEW dst \in Endpoint, NEW T, NEW ps \in Seq(T),
         SendTCPPackets(h, dst, ps),
         NEW g \in Host, NEW k \in Host, NEW i \in DOMAIN wire'[g][k]
  PROVE  \/ \E j \in DOMAIN wire[g][k] : wire'[g][k][i] = wire[g][k][j]
         \/ /\ g = h /\ k = HostOf[dst]
            /\ \E j \in DOMAIN ps : wire'[g][k][i] = ps[j]
<1> DEFINE d == HostOf[dst]
<1>1. /\ wire' = [wire EXCEPT ![h][d] = wire[h][d] \o ps] /\ d \in Host
      /\ wire[h][d] \in Seq(SafePacket)
  BY TcpAssumption DEF SendTCPPackets, TcpAssumption, TypeOK
<1> HIDE DEF d
<1>2. CASE g = h /\ k = d
  <2>1. PICK w \in Seq(SafePacket) : w = wire[h][d]
    BY <1>1
  <2>2. wire'[g][k] = w \o ps
    BY <1>1, <1>2, <2>1, Zenon DEF TypeOK
  <2>3. i \in 1 .. (Len(w) + Len(ps)) /\ Len(w) \in Nat /\ Len(ps) \in Nat
    BY <2>2
  <2>4. CASE i <= Len(w)
    <3>1. wire'[g][k][i] = w[i] /\ i \in DOMAIN w
      BY <2>2, <2>3, <2>4
    <3> QED
      BY <1>2, <2>1, <3>1
  <2>5. CASE i > Len(w)
    <3>1. wire'[g][k][i] = ps[i - Len(w)] /\ i - Len(w) \in DOMAIN ps
      BY <2>2, <2>3, <2>5
    <3> QED
      BY <1>2, <3>1 DEF d
  <2> QED
    BY <2>3, <2>4, <2>5
<1>3. CASE ~(g = h /\ k = d)
  <2>1. wire'[g][k] = wire[g][k]
    BY <1>1, <1>3 DEF TypeOK
  <2> QED
    BY <2>1
<1> QED
  BY <1>2, <1>3

\* It adds them to what is under way there.
LEMMA SendPending ==
  ASSUME TypeOK, NEW h \in Host, NEW dst \in Endpoint, NEW ps \in Seq(SafePacket),
         SendTCPPackets(h, dst, ps), queue' = queue, KeepsPacket,
         NEW k \in Host, NEW p \in Pending(k)'
  PROVE  \/ p \in Pending(k)
         \/ k = HostOf[dst] /\ \E i \in DOMAIN ps : p = ps[i]
<1>1. \/ \E g \in Host : \E i \in DOMAIN wire'[g][k] : p = wire'[g][k][i]
      \/ \E f \in Fd : \E i \in DOMAIN queue'[k][f] : p = queue'[k][f][i]
      \/ rx'[k].pc # "pop" /\ p = rx'[k].pkt
  BY PendingNext
<1>2. ASSUME NEW g \in Host, NEW i \in DOMAIN wire'[g][k], p = wire'[g][k][i]
      PROVE  \/ \E j \in DOMAIN wire[g][k] : p = wire[g][k][j]
             \/ k = HostOf[dst] /\ \E j \in DOMAIN ps : p = ps[j]
  BY <1>2, SendWire
<1> QED
  BY <1>1, <1>2, PendingIs DEF KeepsPacket

\* A step that sends nothing adds nothing to what is under way.
LEMMA SamePending ==
  ASSUME wire' = wire, queue' = queue, KeepsPacket, NEW k \in Host
  PROVE  Pending(k)' \subseteq Pending(k)
<1> SUFFICES ASSUME NEW p \in Pending(k)' PROVE p \in Pending(k)
  OBVIOUS
<1>1. \/ \E g \in Host : \E i \in DOMAIN wire'[g][k] : p = wire'[g][k][i]
      \/ \E f \in Fd : \E i \in DOMAIN queue'[k][f] : p = queue'[k][f][i]
      \/ rx'[k].pc # "pop" /\ p = rx'[k].pkt
  BY PendingNext
<1> QED
  BY <1>1, PendingIs DEF KeepsPacket

\* What leads to a packet that was under way.
LEMMA PopPending ==
  ASSUME TypeOK, NEW h \in Host, Pops(h), NEW k \in Host
  PROVE  Pending(k)' \subseteq Pending(k)
<1> SUFFICES ASSUME NEW p \in Pending(k)' PROVE p \in Pending(k)
  OBVIOUS
<1> DEFINE f == rx'[h].fd
<1>1. \/ \E g \in Host : \E i \in DOMAIN wire'[g][k] : p = wire'[g][k][i]
      \/ \E e \in Fd : \E i \in DOMAIN queue'[k][e] : p = queue'[k][e][i]
      \/ rx'[k].pc # "pop" /\ p = rx'[k].pkt
  BY PendingNext
<1>2. wire' = wire /\ f \in Fd /\ queue[h][f] # <<>> /\ queue[h][f] \in Seq(SafePacket)
  BY DEF Pops, TypeOK
<1>3. ASSUME NEW e \in Fd, NEW i \in DOMAIN queue'[k][e], p = queue'[k][e][i]
      PROVE  \E j \in DOMAIN queue[k][e] : p = queue[k][e][j]
  <2>1. CASE k = h /\ e = f
    <3>1. queue'[k][e] = Tail(queue[h][f])
      BY <2>1 DEF Pops
    <3>2. p = queue[h][f][i + 1] /\ i + 1 \in DOMAIN queue[h][f]
      BY <1>2, <1>3, <3>1
    <3> QED
      BY <2>1, <3>2
  <2>2. CASE ~(k = h /\ e = f)
    BY <1>3, <2>2 DEF Pops
  <2> QED
    BY <2>1, <2>2
<1>4. ASSUME rx'[k].pc # "pop", p = rx'[k].pkt PROVE p \in Pending(k)
  <2>1. CASE k = h
    <3>1. p = queue[h][f][1] /\ 1 \in DOMAIN queue[h][f]
      BY <1>2, <1>4, <2>1 DEF Pops
    <3> QED
      BY <1>2, <2>1, <3>1, PendingIs
  <2>2. CASE k # h
    <3>1. rx'[k] = rx[k]
      BY <2>2 DEF Pops
    <3> QED
      BY <1>4, <3>1, PendingIs
  <2> QED
    BY <2>1, <2>2
<1> QED
  BY <1>1, <1>2, <1>3, <1>4, PendingIs

\* The packet that arrives was under way, and the wires hold what is left.
LEMMA ArrivesPending ==
  ASSUME TypeOK, NEW g \in Host, NEW h \in Host, Arrives(g, h), wire[g][h] # <<>>
  PROVE  /\ Head(wire[g][h]) \in Pending(h)
         /\ \A e, k \in Host : \A i \in DOMAIN wire'[e][k] :
              \E j \in DOMAIN wire[e][k] : wire'[e][k][i] = wire[e][k][j]
<1>1. wire[g][h] \in Seq(SafePacket) /\ wire' = [wire EXCEPT ![g][h] = Tail(wire[g][h])]
  BY DEF TypeOK, Arrives
<1>2. Head(wire[g][h]) = wire[g][h][1] /\ 1 \in DOMAIN wire[g][h]
  BY <1>1
<1>3. ASSUME NEW e \in Host, NEW k \in Host, NEW i \in DOMAIN wire'[e][k]
      PROVE  \E j \in DOMAIN wire[e][k] : wire'[e][k][i] = wire[e][k][j]
  <2>1. CASE e = g /\ k = h
    <3>1. wire'[e][k] = Tail(wire[g][h])
      BY <1>1, <2>1 DEF TypeOK
    <3> DEFINE w == wire[g][h]
    <3> HIDE DEF w
    <3>2. w \in Seq(SafePacket) /\ w # <<>> /\ i \in DOMAIN Tail(w)
      BY <1>1, <1>3, <3>1, Zenon DEF w
    <3>3. Tail(w)[i] = w[i + 1] /\ i + 1 \in DOMAIN w
      BY <3>2
    <3> QED
      BY <2>1, <3>1, <3>3 DEF w
  <2>2. CASE ~(e = g /\ k = h)
    <3>1. wire'[e][k] = wire[e][k]
      BY <1>1, <2>2, SMTT(40) DEF TypeOK
    <3> QED
      BY <3>1
  <2> QED
    BY <2>1, <2>2
<1> QED
  BY <1>2, <1>3, PendingIs

\* A packet that arrives stays under way.
LEMMA ArrivalPending ==
  ASSUME TypeOK, NEW g \in Host, NEW h \in Host, Arrival(g, h), NEW k \in Host
  PROVE  Pending(k)' \subseteq Pending(k)
<1> SUFFICES ASSUME NEW p \in Pending(k)' PROVE p \in Pending(k)
  OBVIOUS
<1> DEFINE q == Head(wire[g][h])
           f == Destination(h, q)
<1>1. \/ \E e \in Host : \E i \in DOMAIN wire'[e][k] : p = wire'[e][k][i]
      \/ \E e \in Fd : \E i \in DOMAIN queue'[k][e] : p = queue'[k][e][i]
      \/ rx'[k].pc # "pop" /\ p = rx'[k].pkt
  BY PendingNext, ZenonT(40)
<1>2. /\ rx' = rx /\ f \in Fd /\ queue'[h][f] = Append(queue[h][f], q)
      /\ queue[h][f] \in Seq(SafePacket) /\ wire[g][h] # <<>> /\ Arrives(g, h)
  BY ZenonT(40) DEF Arrival, TypeOK
<1>3. q \in Pending(h)
  BY <1>2, ArrivesPending, Zenon
<1>4. ASSUME NEW e \in Fd, NEW i \in DOMAIN queue'[k][e], p = queue'[k][e][i]
      PROVE  p \in Pending(k)
  <2>1. CASE k = h /\ e = f
    <3> HIDE DEF q, f
    <3>1. p = q \/ (i \in DOMAIN queue[h][f] /\ p = queue[h][f][i])
      <4>1. q \in SafePacket
        <5>1. wire[g][h] \in Seq(SafePacket)
          BY DEF TypeOK
        <5> QED
          BY <1>2, <5>1 DEF q
      <4>2. /\ i \in 1 .. (Len(queue[h][f]) + 1)
            /\ p = Append(queue[h][f], q)[i]
        BY <1>2, <1>4, <2>1, <4>1, SMTT(40)
      <4> QED
        BY <1>2, <4>1, <4>2
    <3> QED
      BY <1>2, <1>3, <2>1, <3>1, PendingIs
  <2>2. CASE ~(k = h /\ e = f)
    <3>1. queue'[k][e] = queue[k][e]
      BY <2>2, Zenon DEF Arrival
    <3> QED
      BY <1>4, <3>1, PendingIs
  <2> QED
    BY <2>1, <2>2
<1>5. ASSUME NEW e \in Host, NEW i \in DOMAIN wire'[e][k], p = wire'[e][k][i]
      PROVE  p \in Pending(k)
  <2>1. \E j \in DOMAIN wire[e][k] : p = wire[e][k][j]
    BY <1>2, <1>5, ArrivesPending, Zenon
  <2> QED
    BY <2>1, PendingIs, SMTT(40)
<1> QED
  BY <1>1, <1>2, <1>4, <1>5, PendingIs, Zenon

\* A sequence without one of its elements.
LEMMA Removed ==
  ASSUME NEW S, NEW w \in Seq(S), NEW m \in 1 .. Len(w)
  PROVE  /\ RemoveAt(w, m) \in Seq(S) /\ Len(RemoveAt(w, m)) = Len(w) - 1
         /\ \A i \in 1 .. (Len(w) - 1) :
              RemoveAt(w, m)[i] = IF i < m THEN w[i] ELSE w[i + 1]
<1>1. PICK v : v = SubSeq(w, 1, m - 1)
  BY Zenon
<1>2. PICK u : u = SubSeq(w, m + 1, Len(w))
  BY Zenon
<1>3. RemoveAt(w, m) = v \o u
  BY <1>1, <1>2 DEF RemoveAt
<1>4. /\ v \in Seq(S) /\ Len(v) = m - 1 /\ Len(w) \in Nat
      /\ \A i \in 1 .. (m - 1) : v[i] = w[i]
  BY <1>1
<1>5. u \in Seq(S) /\ Len(u) = Len(w) - m
  BY <1>2
<1>6. \A j \in 1 .. (Len(w) - m) : u[j] = w[j + m]
  <2>1. /\ m + 1 \in Int /\ Len(w) \in Int /\ m \in Nat
        /\ \A j \in (m + 1) .. Len(w) : w[j] \in S
    OBVIOUS
  <2>2. \A j \in 1 .. (Len(w) - (m + 1) + 1) : u[j] = w[(m + 1) + j - 1]
    BY <1>2, <2>1, SubSeqProperties, SMT
  <2>3. ASSUME NEW j \in 1 .. (Len(w) - m) PROVE u[j] = w[j + m]
    <3>1. j \in 1 .. (Len(w) - (m + 1) + 1) /\ (m + 1) + j - 1 = j + m
      BY <2>1
    <3> QED
      BY <2>2, <3>1
  <2> QED
    BY <2>3, Zenon
<1>7. v \o u \in Seq(S) /\ Len(v \o u) = Len(w) - 1
  BY <1>4, <1>5
<1>8. ASSUME NEW i \in 1 .. (Len(w) - 1)
      PROVE  (v \o u)[i] = IF i < m THEN w[i] ELSE w[i + 1]
  <2>1. CASE i < m
    BY <1>4, <1>5, <2>1
  <2>2. CASE ~(i < m)
    <3>1. i >= m
      BY <1>4, <2>2
    <3>2. (v \o u)[i] = u[i - (m - 1)] /\ i - (m - 1) \in 1 .. (Len(w) - m)
      BY <1>4, <1>5, <3>1
    <3>3. (i - (m - 1)) + m = i + 1
      BY <1>4
    <3> QED
      BY <1>6, <2>2, <3>2, <3>3, Zenon
  <2> QED
    BY <2>1, <2>2, Zenon
<1> QED
  BY <1>3, <1>7, <1>8

\* A packet that kills its host, or a fault, adds nothing to a wire.
LEMMA FaultWire ==
  ASSUME TypeOK, NEW g \in Host, NEW h \in Host,
         \/ RecvUnmatchedPacket(g, h)
         \/ Lose(g, h) \/ Duplicate(g, h) \/ Reorder(g, h),
         NEW e \in Host, NEW k \in Host, NEW i \in DOMAIN wire'[e][k],
         NEW p, p = wire'[e][k][i]
  PROVE  \E j \in DOMAIN wire[e][k] : p = wire[e][k][j]
<1> DEFINE w == wire[g][h]
<1>1. w \in Seq(SafePacket)
  BY DEF TypeOK
<1>2. CASE ~(e = g /\ k = h)
  <2>1. wire'[e][k] = wire[e][k]
    <3>1. \E v : wire' = [wire EXCEPT ![g][h] = v]
      <4>1. CASE RecvUnmatchedPacket(g, h)
        BY <4>1, Zenon DEF RecvUnmatchedPacket, Arrives
      <4>2. CASE Lose(g, h)
        BY <4>2, Zenon DEF Lose
      <4>3. CASE Duplicate(g, h)
        BY <4>3, Zenon DEF Duplicate
      <4>4. CASE Reorder(g, h)
        <5>1. PICK m \in DOMAIN w :
                wire' = [wire EXCEPT ![g][h][m] = w[m + 1], ![g][h][m + 1] = w[m]]
          BY <4>4, Zenon DEF Reorder
        <5>2. wire' = [wire EXCEPT ![g][h] =
                         [w EXCEPT ![m] = w[m + 1], ![m + 1] = w[m]]]
          BY <5>1, Zenon DEF TypeOK
        <5> QED
          BY <5>2, Zenon
      <4> QED
        BY <4>1, <4>2, <4>3, <4>4
    <3> QED
      BY <1>2, <3>1 DEF TypeOK
  <2> QED
    BY <2>1
<1>3. CASE e = g /\ k = h
  <2>1. CASE RecvUnmatchedPacket(g, h)
    BY <2>1, ArrivesPending DEF RecvUnmatchedPacket
  <2>2. CASE Lose(g, h)
    <3>1. PICK m \in DOMAIN w : wire' = [wire EXCEPT ![g][h] = RemoveAt(w, m)]
      BY <2>2, Zenon DEF Lose
    <3>2. wire'[e][k] = RemoveAt(w, m)
      BY <1>3, <3>1 DEF TypeOK
    <3> HIDE DEF w
    <3>3. /\ i \in 1 .. (Len(w) - 1) /\ m \in 1 .. Len(w) /\ Len(w) \in Nat
          /\ RemoveAt(w, m)[i] = IF i < m THEN w[i] ELSE w[i + 1]
      <4>1. m \in 1 .. Len(w) /\ Len(RemoveAt(w, m)) = Len(w) - 1
            /\ RemoveAt(w, m) \in Seq(SafePacket)
        BY <1>1, <3>1, Removed
      <4>2. i \in 1 .. (Len(w) - 1)
        BY <3>2, <4>1
      <4>3. \A n \in 1 .. (Len(w) - 1) :
              RemoveAt(w, m)[n] = IF n < m THEN w[n] ELSE w[n + 1]
        BY <1>1, <4>1, Removed, Zenon
      <4>4. Len(w) \in Nat
        BY <1>1
      <4> QED
        BY <4>1, <4>2, <4>3, <4>4
    <3>4. i \in DOMAIN w /\ i + 1 \in DOMAIN w
      BY <1>1, <3>3
    <3> QED
      BY <1>3, <3>2, <3>3, <3>4 DEF w
  <2>3. CASE Duplicate(g, h)
    <3>1. PICK m \in DOMAIN w : wire' = [wire EXCEPT ![g][h] = Append(w, w[m])]
      BY <2>3, Zenon DEF Duplicate
    <3>2. wire'[e][k] = Append(w, w[m])
      BY <1>3, <3>1 DEF TypeOK
    <3> HIDE DEF w
    <3>3. \E j \in DOMAIN w : Append(w, w[m])[i] = w[j]
      <4>1. w[m] \in SafePacket /\ i \in 1 .. (Len(w) + 1)
        BY <1>1, <3>1, <3>2
      <4> QED
        BY <1>1, <3>1, <4>1
    <3> QED
      BY <1>3, <3>2, <3>3 DEF w
  <2>4. CASE Reorder(g, h)
    <3>1. PICK m \in DOMAIN w :
            /\ m + 1 \in DOMAIN w
            /\ wire' = [wire EXCEPT ![g][h][m] = w[m + 1], ![g][h][m + 1] = w[m]]
      BY <2>4, Zenon DEF Reorder
    <3>2. wire'[e][k] = [w EXCEPT ![m] = w[m + 1], ![m + 1] = w[m]]
      BY <1>3, <3>1, Zenon DEF TypeOK
    <3> HIDE DEF w
    <3>3. \E j \in DOMAIN w : [w EXCEPT ![m] = w[m + 1], ![m + 1] = w[m]][i] = w[j]
      BY <1>1, <3>1, <3>2, Zenon
    <3> QED
      BY <1>3, <3>2, <3>3 DEF w
  <2> QED
    BY <2>1, <2>2, <2>3, <2>4
<1> QED
  BY <1>2, <1>3

\* A packet that kills its host, or a fault, adds nothing to what is under way.
LEMMA FaultPending ==
  ASSUME TypeOK, NEW g \in Host, NEW h \in Host,
         \/ RecvUnmatchedPacket(g, h)
         \/ Lose(g, h) \/ Duplicate(g, h) \/ Reorder(g, h),
         NEW k \in Host
  PROVE  Pending(k)' \subseteq Pending(k)
<1> SUFFICES ASSUME NEW p \in Pending(k)' PROVE p \in Pending(k)
  OBVIOUS
<1>1. UNCHANGED <<queue, rx>>
  BY DEF RecvUnmatchedPacket, Lose, Duplicate, Reorder, Fault
<1>2. \/ \E e \in Host : \E i \in DOMAIN wire'[e][k] : p = wire'[e][k][i]
      \/ p \in Pending(k)
  <2>1. \/ \E e \in Host : \E i \in DOMAIN wire'[e][k] : p = wire'[e][k][i]
        \/ \E f \in Fd : \E i \in DOMAIN queue'[k][f] : p = queue'[k][f][i]
        \/ rx'[k].pc # "pop" /\ p = rx'[k].pkt
    BY PendingNext
  <2> QED
    BY <1>1, <2>1, PendingIs
<1>3. ASSUME NEW e \in Host, NEW i \in DOMAIN wire'[e][k], p = wire'[e][k][i]
      PROVE  \E j \in DOMAIN wire[e][k] : p = wire[e][k][j]
  BY <1>3, FaultWire
<1> QED
  BY <1>2, <1>3, PendingIs
-----------------------------------------------------------------------------
(* Rules and destinations. *)

\* What the rules of the state machine in recvTCPPacket have in common.
LEMMA RuleFacts ==
  ASSUME NEW r \in Rules
  PROVE  /\ r.to \notin {"FREE", "NONE", "SYNSENT", "LISTEN"}
         /\ r.at \in ServerStatus => r.to \in {"SYNRCVD", "ESTAB", "LASTACK", "CLOSED"}
         /\ r.at \in {"ESTAB", "LASTACK", "CLOSED"} => r.to \in {"LASTACK", "CLOSED"}
         /\ "ack" \in r.wake => r.on = "ACK" /\ r.to = "ESTAB"
         /\ \A i \in DOMAIN r.send :
              /\ r.send[i] \in {"SYNACK", "ACK", "FIN"}
              /\ r.send[i] = "SYNACK" <=> r.on = "SYN" /\ r.at = "LISTEN"
              /\ r.send[i] = "FIN" => r.on = "FIN"
              /\ r.send[i] = "ACK" /\ r.at \in ServerStatus => r.on = "FIN"
  BY DEF Rules, Rule, ServerStatus

\* A packet of the server finds the client's socket.
LEMMA ClientDestination ==
  ASSUME TypeOK, OneWay, ClientInv, HandshakeInv, NEW p, FromServer(p)
  PROVE  Destination(sender, p) = FirstFd
<1>1. Connected /\ p.kind # "SYN"
  BY DEF FromServer, HandshakeInv
<1>2. Opened(sender) = {FirstFd}
  BY <1>1, Hypothesis DEF ClientInv, Opened, Connected, ClientSock, ClientFd
<1>3. Matching(sender, p) \subseteq {FirstFd}
  BY <1>2 DEF Matching
<1>4. Matching(sender, p) # {} => Min(Matching(sender, p)) = FirstFd
  <2>1. FirstFd \in Nat
    BY Hypothesis
  <2> QED
    BY <1>3, <2>1 DEF Min
<1> QED
  BY <1>1, <1>2, <1>4 DEF Destination

\* The sockets of the server.
LEMMA ServerSockets ==
  ASSUME TypeOK, OneWay, ServerInv
  PROVE  /\ Opened(recver) \subseteq {FirstFd, ServerFd}
         /\ app[recver].ip \in Nat \ {0}
         /\ Accepts => FirstFd \notin Opened(recver) \/ Opened(recver) = {FirstFd}
         /\ ~Accepts => app[recver].ip >= 3 /\ Opened(recver) = {FirstFd, ServerFd}
         /\ app[recver].ip >= 3 => FirstFd \in Opened(recver)
         /\ \A f \in Fd : sock[recver][f].status \in ServerStatus
<1>1. app[recver].ip \in Nat \ {0}
  BY Hypothesis DEF TypeOK, AppThread
<1>2. \A f \in Fd \ {FirstFd, ServerFd} : sock[recver][f].status = "FREE"
  BY DEF ServerInv
<1>3. ServerSock.status \in ServerStatus /\ (Accepts <=> ServerSock.status = "FREE")
  BY DEF ServerInv, IsServer, ServerStatus
<1>4. /\ ListenSock.status \in ServerStatus
      /\ app[recver].ip >= 3 => ListenSock.status # "FREE"
  BY <1>1 DEF ServerInv, IsServer, ServerStatus
<1>5. ~Accepts => app[recver].ip >= 3
  BY <1>1 DEF Accepts
<1> QED
  BY <1>1, <1>2, <1>3, <1>4, <1>5, Hypothesis
  DEF Opened, ServerSock, ListenSock, ServerStatus

\* A packet of the client finds a socket of the server that has its addresses;
\* only a SYN may find none, when no socket listens.
LEMMA ServerDestination ==
  ASSUME TypeOK, OneWay, ServerInv, HandshakeInv, NEW p, FromClient(p)
  PROVE  LET f == Destination(recver, p)
         IN  /\ f \in Fd => /\ f \in {FirstFd, ServerFd} /\ app[recver].ip >= 3
                            /\ app[recver].ip = 3 => f = ServerFd
                            /\ f = ServerFd => ~Accepts
                            /\ p.kind = "SYN" => sock[recver][f].status = "LISTEN"
             /\ f \notin Fd => /\ \A e \in Fd : sock[recver][e].status # "LISTEN"
                               /\ p.kind = "SYN"
<1> DEFINE f == Destination(recver, p)
           M == Matching(recver, p)
           a == app[recver]
<1>1. /\ Opened(recver) \subseteq {FirstFd, ServerFd} /\ a.ip \in Nat \ {0}
      /\ ~Accepts => a.ip >= 3
      /\ a.ip >= 3 => FirstFd \in Opened(recver)
      /\ \A e \in Fd : e \in Opened(recver) <=> sock[recver][e].status # "FREE"
  BY ServerSockets DEF Opened
<1>2. FirstFd \in Nat /\ ServerFd = FirstFd + 1 /\ FirstFd \in Fd /\ ServerFd \in Fd
  BY Hypothesis
<1>3. M # {} => Min(M) \in M
  <2>1. M \subseteq {FirstFd, FirstFd + 1}
    BY <1>1, <1>2 DEF Matching
  <2> HIDE DEF M
  <2>2. M = {} \/ M = {FirstFd} \/ M = {FirstFd + 1} \/ M = {FirstFd, FirstFd + 1}
    BY <2>1
  <2> QED
    BY <1>2, <2>2 DEF Min
<1>4. LastFd + 2 \notin Fd
  BY TcpAssumption DEF Fd, TcpAssumption
<1>5. p.dst = sport /\ p.src = cport
  BY DEF FromClient
<1>6. ServerSock.status = "FREE" <=> Accepts
  BY DEF ServerInv, IsServer, ServerStatus
<1>7. CASE p.kind = "SYN"
  <2>1. M = {e \in Opened(recver) : /\ sock[recver][e].status = "LISTEN"
                                    /\ sock[recver][e].local = sport}
    BY <1>5, <1>7 DEF Matching
  <2>2. f = IF M # {} THEN Min(M) ELSE LastFd + 2
    BY <1>7 DEF Destination
  <2> HIDE DEF f, M
  <2>3. \A e \in Fd : sock[recver][e].status = "LISTEN" => e \in M
    <3>1. \A e \in Fd : sock[recver][e].status = "LISTEN" => e \in {FirstFd, ServerFd}
      BY <1>1
    <3>2. ListenSock.status = "LISTEN" => ListenSock.local = sport
      BY <1>1 DEF ServerInv, IsServer
    <3>3. ServerSock.status = "LISTEN" => ServerSock.local = sport
      BY DEF ServerInv, IsServer
    <3> QED
      BY <1>1, <2>1, <3>1, <3>2, <3>3 DEF ListenSock, ServerSock
  <2>4. CASE M = {}
    BY <1>4, <1>7, <2>2, <2>3, <2>4 DEF f
  <2>5. CASE M # {}
    <3>1. /\ f \in M /\ f \in Fd /\ f \in {FirstFd, ServerFd}
          /\ sock[recver][f].status = "LISTEN"
      BY <1>1, <1>2, <1>3, <2>1, <2>2, <2>5
    <3>2. f = FirstFd => a.ip > 3
      <4>1. ListenSock.status = "LISTEN" => a.ip > 3
        BY <1>1 DEF ServerInv, Fresh
      <4> QED
        BY <3>1, <4>1 DEF ListenSock
    <3>3. f = ServerFd => ~Accepts
      BY <1>6, <3>1 DEF ServerSock
    <3> QED
      BY <1>1, <1>2, <3>1, <3>2, <3>3 DEF f
  <2> QED
    BY <2>4, <2>5
<1>8. CASE p.kind # "SYN"
  <2>1. Taken /\ ServerSock.remote = cport
    BY <1>8 DEF FromClient, HandshakeInv, Taken
  <2>2. ~Accepts /\ a.ip >= 3 /\ FirstFd \in Opened(recver)
    BY <1>1, <2>1, Hypothesis DEF ServerInv
  <2>3. ServerFd \in M
    <3>1. ServerFd \in Opened(recver) /\ ServerSock.local = sport
      BY <1>1, <1>2, <1>6, <2>2 DEF ServerInv, IsServer, ServerSock
    <3> QED
      BY <1>5, <1>8, <2>1, <3>1 DEF Matching, ServerSock
  <2>4. a.ip = 3 => FirstFd \notin M
    <3>1. a.ip = 3 => ListenSock.remote # cport
      BY Hypothesis DEF ServerInv, Fresh
    <3> QED
      BY <1>5, <1>8, <3>1 DEF Matching, ListenSock
  <2>5. f = Min(M) /\ M \subseteq {FirstFd, ServerFd}
    BY <1>1, <2>3 DEF Destination, Matching
  <2> HIDE DEF f, M
  <2> QED
    BY <1>2, <1>3, <1>8, <2>2, <2>3, <2>4, <2>5 DEF f
<1> QED
  BY <1>7, <1>8

-----------------------------------------------------------------------------
(* The steps of the system, host by host. *)

\* What a step at the client's host leaves alone, and one at the server's.
KeepsServer ==
  /\ sock'[recver] = sock[recver] /\ app'[recver] = app[recver]
  /\ rx'[recver] = rx[recver] /\ got'[recver] = got[recver]
  /\ queue'[recver] = queue[recver]
  /\ up' = up

KeepsClient ==
  /\ sock'[sender] = sock[sender] /\ app'[sender] = app[sender]
  /\ rx'[sender] = rx[sender] /\ up'[sender] = up[sender]

\* What processip does at a host.
RxMoves(h) ==
  \/ Pops(h) \/ Reacts(h) \/ Stores(h) \/ Ignores(h) \/ StoresData(h)
  \/ Acks(h) /\ RxSock(h).role # "server"

StreamIInv == IInv /\ StreamInv

ClientActs == ClientStep /\ KeepsServer
ServerActs == ServerStep /\ KeepsClient /\ up[recver]
ClientReceives ==
  RxMoves(sender) /\ KeepsServer /\ rx'[sender].fd = FirstFd
ServerReceives ==
  RxMoves(recver) /\ KeepsClient /\ up[recver] /\ rx'[recver].fd \in {FirstFd, ServerFd}
ClientArrival == \E g \in Host : Arrival(g, sender) /\ KeepsServer
ServerArrival == \E g \in Host : Arrival(g, recver) /\ KeepsClient
ServerDies == \E g \in Host : RecvUnmatchedPacket(g, recver)
Faulty == \E g, h \in Host : Lose(g, h) \/ Duplicate(g, h) \/ Reorder(g, h)

\* The socket that processip works on is open.
LEMMA RxFd ==
  ASSUME IInv, IInv', NEW h \in Host, RxMoves(h)
  PROVE  /\ rx'[h].fd \in Opened(h)
         /\ ~Pops(h) => rx'[h].fd = rx[h].fd /\ rx[h].pc # "pop"
<1>1. CASE Pops(h)
  <2>1. rx'[h].fd \in Opened(h)'
    BY <1>1 DEF Pops, IInv, PendingSocketsExist, PendingExist
  <2> QED
    BY <1>1, <2>1 DEF Pops, Opened
<1>2. CASE ~Pops(h)
  <2>1. rx'[h].fd = rx[h].fd /\ rx[h].pc # "pop"
    BY <1>2, Zenon DEF RxMoves, Reacts, Stores, Ignores, StoresData, Acks, Idles
  <2> QED
    BY <2>1, SMTT(40) DEF IInv, PendingSocketsExist, PendingExist
<1> QED
  BY <1>1, <1>2

\* A step at one socket of a host leaves the other hosts alone.
LEMMA OtherSock ==
  ASSUME TypeOK, TypeOK', NEW h \in Host, NEW f, OnlySock(h, f), NEW g \in Host \ {h}
  PROVE  sock'[g] = sock[g]
  BY DEF TypeOK, OnlySock

\* Every step of the system is one of these.
LEMMA Steps ==
  ASSUME OneWay, StreamIInv, IInv', [Next]_vars
  PROVE  \/ ClientActs \/ ServerActs \/ ClientReceives \/ ServerReceives
         \/ ClientArrival \/ ServerArrival \/ ServerDies \/ Faulty
         \/ UNCHANGED vars
<1> USE DEF StreamIInv, StreamInv, IInv
<1>1. /\ Host = {sender, recver} /\ sender \in Host /\ recver \in Host
      /\ sender # recver /\ FirstFd \in Fd /\ ServerFd \in Fd
  BY Hypothesis
<1>2. ASSUME AppStep(sender) \/ SpuriousWakeup(sender) PROVE ClientActs
  <2>1. ClientStep
    BY <1>2, ClientSteps DEF BytesInv
  <2>2. sock'[recver] = sock[recver] /\ app'[recver] = app[recver]
    BY <1>1, <1>2, OthersUnchanged
  <2> QED
    BY <2>1, <2>2 DEF ClientActs, KeepsServer, ClientStep, ClientFrame
<1>3. ASSUME AppStep(recver) \/ SpuriousWakeup(recver) PROVE ServerActs
  <2>1. ServerStep
    BY <1>3, ServerSteps
  <2>2. /\ sock'[sender] = sock[sender] /\ app'[sender] = app[sender]
        /\ rx'[sender] = rx[sender]
    BY <1>1, <1>3, OthersUnchanged, SMTT(40)
  <2>3. up[recver]
    BY <1>3, Zenon DEF AppStep, SpuriousWakeup, At, AtCall, SocketCreate, SocketBind,
                SocketListen, Connect, ConnectReturn, AcceptCreate, AcceptDemote,
                AcceptPromote, AcceptAwaitAck, AcceptReturn, TestCondition, Block,
                Read, ReadReturn, WriteAppend, WriteSend, WriteReturn, CloseServer,
                CloseSendFin, CloseStore, CloseReturn, CallOnMissingSocket
  <2> QED
    BY <2>1, <2>2, <2>3 DEF ServerActs, KeepsClient, ServerStep, ServerFrame
<1>4. ASSUME RxStep(sender) PROVE ClientReceives
  <2>1. RxMoves(sender)
    BY <1>1, <1>4, RxSteps DEF RxMoves
  <2>2. /\ sock'[recver] = sock[recver] /\ app'[recver] = app[recver]
        /\ rx'[recver] = rx[recver]
    BY <1>1, <1>4, OthersUnchanged
  <2>3. got'[recver] = got[recver] /\ up' = up /\ queue'[recver] = queue[recver]
    <3>1. got' = got /\ up' = up
      BY <1>4 DEF RxStep, Pop, React, Store, RecvTCPAck, RecvTCPData, Ignore
    <3>2. queue'[recver] = queue[recver]
      BY <1>1, <1>4, Zenon DEF RxStep, Pop, React, Store, RecvTCPAck, RecvTCPData, Ignore, TypeOK
    <3> QED
      BY <3>1, <3>2, ZenonT(40)
  <2>4. rx'[sender].fd = FirstFd
    BY <1>1, <2>1, RxFd DEF ClientInv, Opened
  <2> QED
    BY <2>1, <2>2, <2>3, <2>4 DEF ClientReceives, KeepsServer
<1>5. ASSUME RxStep(recver) PROVE ServerReceives
  <2>1. RxMoves(recver)
    BY <1>1, <1>5, RxSteps DEF RxMoves
  <2>2. /\ sock'[sender] = sock[sender] /\ app'[sender] = app[sender]
        /\ rx'[sender] = rx[sender]
    BY <1>1, <1>5, OthersUnchanged, SMTT(40)
  <2>3. up[recver] /\ up' = up
    BY <1>1, <1>5, RxSteps, Zenon
    DEF RxStep, Pop, React, Store, RecvTCPAck, RecvTCPData, Ignore
  <2>4. rx'[recver].fd \in {FirstFd, ServerFd}
    BY <1>1, <2>1, RxFd, ServerSockets, SMTT(40)
  <2> QED
    BY <2>1, <2>2, <2>3, <2>4 DEF ServerReceives, KeepsClient
<1>6. ASSUME NEW g \in Host, RecvIPPacket(g, sender) PROVE ClientArrival
  <2>1. Arrival(g, sender)
    BY <1>1, <1>6, ArrivalEffect, SMTT(40)
  <2>2. sock'[recver] = sock[recver]
    <3>1. CASE Head(wire[g][sender]).kind = "SYN"
      <4>1. OnlySock(sender, Destination(sender, Head(wire[g][sender])))
        BY <2>1, <3>1, Zenon DEF Arrival
      <4> QED
        BY <1>1, <4>1, OtherSock
    <3>2. CASE Head(wire[g][sender]).kind # "SYN"
      BY <2>1, <3>2, ZenonT(40) DEF Arrival
    <3> QED
      BY <3>1, <3>2, Zenon
  <2>3. queue'[recver] = queue[recver]
    BY <1>1, <1>6, SMTT(40) DEF RecvIPPacket, TypeOK
  <2> QED
    BY <2>1, <2>2, <2>3, Zenon DEF ClientArrival, Arrival, KeepsServer
<1>7. ASSUME NEW g \in Host, RecvIPPacket(g, recver) PROVE ServerArrival
  <2>1. Arrival(g, recver)
    BY <1>1, <1>7, ArrivalEffect, SMTT(40)
  <2>2. sock'[sender] = sock[sender]
    BY <1>1, <2>1, OtherSock, Zenon DEF Arrival
  <2> QED
    BY <2>1, <2>2, Zenon DEF ServerArrival, Arrival, KeepsClient
<1>8. ASSUME NEW g \in Host, RecvUnmatchedPacket(g, sender) PROVE FALSE
  <2> DEFINE p == Head(wire[g][sender])
  <2>1. wire[g][sender] # <<>> /\ wire[g][sender] \in Seq(SafePacket)
        /\ Destination(sender, p) \notin Fd
    <3>1. wire[g][sender] # <<>> /\ Destination(sender, p) \notin Fd
      BY <1>8 DEF RecvUnmatchedPacket
    <3>2. wire[g][sender] \in Seq(SafePacket)
      BY <1>1, WireType
    <3> QED
      BY <3>1, <3>2
  <2>2. p \in Pending(sender)
    <3>1. p = wire[g][sender][1] /\ 1 \in DOMAIN wire[g][sender]
      BY <2>1
    <3> QED
      BY <3>1, PendingIs
  <2>3. FromServer(p)
    BY <2>2 DEF PacketsInv
  <2> HIDE DEF p
  <2> QED
    BY <1>1, <2>1, <2>3, ClientDestination
<1> QED
  BY <1>1, <1>2, <1>3, <1>4, <1>5, <1>6, <1>7, <1>8
  DEF Next, Terminated, ServerDies, Faulty
-----------------------------------------------------------------------------
(* The calls. *)

\* A thread that does not move, or is woken, stays in its call.
LEMMA CallsKept ==
  ASSUME NEW h, InCall(h), app'[h] = app[h] \/ Notified(h)
  PROVE  InCall(h)'
<1>1. CASE app'[h] = app[h]
  BY <1>1 DEF InCall, Call
<1>2. CASE Notified(h)
  BY <1>2 DEF InCall, Call, Notified, AppTo, Waits
<1> QED
  BY <1>1, <1>2

\* A program's thread stays in the call that its script says.
LEMMA CallsStep ==
  ASSUME OneWay, StreamIInv, IInv', [Next]_vars
  PROVE  CallsInv'
<1> USE DEF StreamIInv, StreamInv, IInv
<1>1. /\ Host = {sender, recver} /\ sender # recver
      /\ InCall(sender) /\ InCall(recver)
  BY Hypothesis DEF CallsInv
<1>2. SUFFICES InCall(sender)' /\ InCall(recver)'
  BY <1>1 DEF CallsInv
<1>3. CASE ClientActs
  <2> DEFINE n == Len(Script[sender])
             b == app'[sender]
  <2>1. \A k \in 1 .. n :
          LET op == Script[sender][k].op
          IN  /\ k = 1 => op = "socket"
              /\ k = 2 => op = "connect"
              /\ k \in 3 .. (n - 1) => op = "write"
              /\ k = n => op = "close"
    BY Hypothesis DEF OneWay, ClientScript
  <2>2. /\ n \in Nat /\ n >= 3 /\ app[sender].ip \in Nat \ {0}
        /\ app[sender].pc # "call" => app[sender].ip <= n
    BY ClientCalls
  <2>3. InCall(sender)'
    <3> HIDE DEF n
    <3>1. \/ b.pc = "call"
          \/ b.pc \in Waits /\ b.cv = "conn" /\ b.ip = 2
          \/ b.pc \in {"send", "spin"} /\ b.ip \in 3 .. (n - 1)
          \/ b.pc \in {"finsent", "closing"} /\ b.ip = n
      BY <1>3, <2>2
      DEF ClientActs, ClientStep, ClientSocket, ClientConnects, ClientWaits,
          ClientConnected, ClientAppends, ClientSends, ClientWritten, ClientCloses,
          ClientStoresClose, ClientClosed, ClientMoves, AppTo, Waits, n
    <3>2. b.ip \in Nat \ {0}
      BY <1>1 DEF TypeOK, AppThread
    <3> QED
      BY <2>1, <2>2, <3>1, <3>2, SMTT(40) DEF InCall, Call, Waits, n
  <2> QED
    BY <1>1, <1>3, <2>3, CallsKept DEF ClientActs, KeepsServer
<1>4. CASE ServerActs
  <2> DEFINE n == Len(Script[recver])
             b == app'[recver]
  <2>1. /\ Script[recver][3].op = "accept" /\ Script[recver][n].op = "close"
        /\ \A k \in 4 .. (n - 1) : Script[recver][k].op = "read"
    BY Hypothesis DEF OneWay, ServerScript
  <2>2. n \in Nat /\ n >= 4 /\ app[recver].ip \in Nat \ {0}
    BY ServerCalls
  <2>3. InCall(recver)'
    <3> HIDE DEF n
    <3>0. app[recver].pc \in Waits =>
            /\ app[recver].ip <= n
            /\ \/ app[recver].cv \in {"syn", "ack"} /\ app[recver].ip = 3
               \/ app[recver].cv = "read" /\ app[recver].ip \in 4 .. (n - 1)
      BY ServerCalls, SMTT(40) DEF n
    <3>1. \/ b.pc = "call"
          \/ b.pc \in {"demote", "promote"} /\ b.ip = 3
          \/ b.pc \in Waits /\ b.cv \in {"syn", "ack"} /\ b.ip = 3
          \/ b.pc \in Waits /\ b.cv = "read" /\ b.ip \in 4 .. (n - 1)
          \/ b.pc = "closing" /\ b.ip = n
      BY <1>4, <2>2, <3>0
      DEF ServerActs, ServerStep, ServerSocket, ServerBinds, ServerAccepts,
          ServerDemotes, ServerPromotes, ServerWaits, ServerAwaitsAck, ServerAccepted,
          ServerReads, ServerHasRead, ServerCloses, ServerClosed, ServerMoves, AppTo,
          Waits, n
    <3>2. b.ip \in Nat \ {0}
      BY <1>1 DEF TypeOK, AppThread
    <3> QED
      BY <2>1, <2>2, <3>1, <3>2, SMTT(40) DEF InCall, Call, Waits, n
  <2> QED
    BY <1>1, <1>4, <2>3, CallsKept DEF ServerActs, KeepsClient
<1>5. CASE ClientReceives
  <2>1. app'[sender] = app[sender] \/ Notified(sender)
    BY <1>5, Zenon DEF ClientReceives, RxMoves, Pops, Reacts, Stores, Ignores, StoresData, Acks
  <2> QED
    BY <1>1, <1>5, <2>1, CallsKept, SMTT(40) DEF ClientReceives, KeepsServer
<1>6. CASE ServerReceives
  <2>1. app'[recver] = app[recver] \/ Notified(recver)
    BY <1>6, Zenon DEF ServerReceives, RxMoves, Pops, Reacts, Stores, Ignores, StoresData, Acks
  <2> QED
    BY <1>1, <1>6, <2>1, CallsKept, SMTT(40) DEF ServerReceives, KeepsClient
<1>7. CASE ClientArrival \/ ServerArrival \/ ServerDies \/ Faulty \/ UNCHANGED vars
  <2>1. app' = app
    BY <1>7, Zenon DEF ClientArrival, ServerArrival, Arrival, ServerDies, Faulty,
                RecvUnmatchedPacket, Lose, Duplicate, Reorder, Fault, vars
  <2> QED
    BY <1>1, <2>1, CallsKept, SMTT(40)
<1> QED
  BY <1>3, <1>4, <1>5, <1>6, <1>7, Steps
-----------------------------------------------------------------------------
(* What only grows: the phases of the connection and the client's stream. *)

\* The handshake goes forward, and what has been written stays.
Grows ==
  /\ Connected => Connected'
  /\ Answered => Answered'
  /\ Taken => Taken'
  /\ Closing => Closing'
  /\ ClientSock.sizep <= ClientSock'.sizep
  /\ \A i \in Nat :
       i < ClientSock.sizep => ClientSock'.databuf[i] = ClientSock.databuf[i]

\* What processip of the client works on came from the server.
LEMMA InClientsHand ==
  ASSUME OneWay, StreamIInv, rx[sender].pc # "pop"
  PROVE  FromServer(rx[sender].pkt) /\ Taken /\ Connected
<1>1. rx[sender].pkt \in Pending(sender)
  BY PendingIs
<1> QED
  BY <1>1 DEF StreamIInv, StreamInv, PacketsInv, FromServer, HandshakeInv

\* What processip of the server works on came from the client.
LEMMA InServersHand ==
  ASSUME OneWay, StreamIInv, rx[recver].pc # "pop"
  PROVE  FromClient(rx[recver].pkt) /\ Taken /\ Connected /\ ~Accepts
<1>1. rx[recver].pkt \in Pending(recver)
  BY PendingIs
<1>2. Taken
  BY DEF StreamIInv, StreamInv, HandshakeInv
<1>3. ~Accepts
  BY <1>2, Hypothesis DEF StreamIInv, StreamInv, ServerInv, Taken
<1> QED
  BY <1>1, <1>2, <1>3 DEF StreamIInv, StreamInv, PacketsInv, FromClient

\* A step that leaves the client alone does not undo the handshake.
LEMMA SameConnection ==
  ASSUME OneWay, TypeOK, KeepsClient, Taken => Taken'
  PROVE  Grows /\ (Answered' <=> Answered) /\ (Connected' <=> Connected)
         /\ (Closing' <=> Closing) /\ ClientSock' = ClientSock
<1>1. ClientSock.sizep \in Nat
  BY Hypothesis DEF TypeOK, SafeSocket, Socket, ClientSock, ClientFd
<1> QED
  BY <1>1 DEF KeepsClient, Grows, Connected, Answered, Committed, Closing,
              ClientSock, ClientFd

\* No step undoes the handshake or takes back a byte: first, the client's.
LEMMA ClientGrows ==
  ASSUME OneWay, StreamIInv, IInv', ClientActs
  PROVE  Grows
<1> USE DEF StreamIInv, StreamInv, IInv
<1> DEFINE a == app[sender]
           s == ClientSock
           t == ClientSock'
<1>1. /\ s.sizep \in Nat /\ t.sizep \in Nat /\ s.sizep <= BufSize
      /\ s.databuf \in [0 .. (BufSize - 1) -> Content] /\ BufSize \in Nat
      /\ a.ip \in Nat \ {0}
  <2>1. s \in SafeSocket /\ t \in SafeSocket /\ a \in AppThread
    BY Hypothesis DEF TypeOK, ClientSock, ClientFd
  <2> QED
    BY <2>1, TcpAssumption, Zenon DEF SafeSocket, Socket, AppThread, TcpAssumption
<1>2. ClientStep /\ KeepsServer /\ rx' = rx
  BY DEF ClientActs, ClientStep, ClientFrame
<1>3. Taken => Taken'
  BY <1>2 DEF KeepsServer, Taken, ServerSock
<1>4. Closing => Closing'
  BY <1>1, <1>2
  DEF Closing, ClientStep, ClientSocket, ClientConnects, ClientWaits, ClientConnected,
      ClientAppends, ClientSends, ClientWritten, ClientCloses, ClientStoresClose,
      ClientClosed, ClientMoves, AppTo
<1>5. \/ ClientSocket \/ ClientConnects
      \/ a.ip >= 3 /\ t.status = "FINWAIT1"
      \/ t.status = s.status
  BY <1>1, <1>2, Hypothesis, Zenon
  DEF ClientStep, ClientWaits, ClientConnected, ClientAppends, ClientSends,
      ClientWritten, ClientCloses, ClientStoresClose, ClientClosed, ClientMoves,
      ClientSock, SameState, OneWay, ClientScript
<1>6. Connected => Connected'
  <2>1. ClientSocket => ~Connected
    BY DEF ClientSocket, ClientInv
  <2>2. ClientConnects => Connected'
    BY DEF ClientConnects, Connected
  <2> QED
    BY <1>5, <2>1, <2>2 DEF Connected
<1>7. Answered => Answered'
  <2>1. ASSUME ClientSocket \/ ClientConnects PROVE ~Answered
    <3>1. ~Connected
      BY <2>1 DEF ClientSocket, ClientConnects, ClientInv
    <3>2. rx[sender].pc = "pop"
      BY <3>1, InClientsHand
    <3> QED
      BY <3>1, <3>2 DEF Answered, Committed, Connected, ClientSock, ClientFd
  <2> QED
    BY <1>2, <1>5, <2>1 DEF Answered, Committed, ClientSock, ClientFd
<1>8. CASE ClientSocket
  BY <1>1, <1>3, <1>4, <1>6, <1>7, <1>8 DEF Grows, ClientSocket, ClientInv
<1>9. CASE ClientAppends
  <2>1. PICK d \in Seq(Byte) :
          /\ t.sizep = s.sizep + Len(d)
          /\ t.databuf = CopyIn(s.databuf, s.sizep, d)
    BY <1>9 DEF ClientAppends
  <2>2. s.sizep <= t.sizep
    BY <1>1, <2>1
  <2>3. ASSUME NEW i \in Nat, i < s.sizep PROVE t.databuf[i] = s.databuf[i]
    <3>1. i \in DOMAIN s.databuf /\ ~(s.sizep <= i)
      BY <1>1, <2>3
    <3> QED
      BY <2>1, <3>1 DEF CopyIn
  <2> QED
    BY <1>3, <1>4, <1>6, <1>7, <2>2, <2>3 DEF Grows
<1>10. CASE ~ClientSocket /\ ~ClientAppends
  <2>1. t.sizep = s.sizep /\ t.databuf = s.databuf
    BY <1>2, <1>10
    DEF ClientStep, ClientConnects, ClientWaits, ClientConnected, ClientSends,
        ClientWritten, ClientCloses, ClientStoresClose, ClientClosed, ClientMoves,
        ClientSock, SameStream, SameBuffer
  <2> QED
    BY <1>1, <1>3, <1>4, <1>6, <1>7, <2>1 DEF Grows
<1> QED
  BY <1>8, <1>9, <1>10

\* The server's thread.
LEMMA ServerGrows ==
  ASSUME OneWay, StreamIInv, IInv', ServerActs
  PROVE  Taken <=> Taken'
<1> USE DEF StreamIInv, StreamInv, IInv
<1>1. CASE ServerAccepts
  <2>1. ~Taken
    BY <1>1, Hypothesis DEF ServerAccepts, ServerInv, Accepts, Taken
  <2>2. ~Taken'
    BY <1>1, Hypothesis DEF ServerAccepts, ServerInv, Fresh, Taken
  <2> QED
    BY <2>1, <2>2
<1>2. CASE ~ServerAccepts
  <2>1. ServerSock'.remote = ServerSock.remote
    BY <1>2, Hypothesis, ZenonT(40)
    DEF ServerActs, ServerStep, ServerSocket, ServerBinds, ServerDemotes,
        ServerPromotes, ServerWaits, ServerAwaitsAck, ServerAccepted, ServerReads,
        ServerHasRead, ServerCloses, ServerClosed, ServerMoves, OnlySock, ServerSock,
        SameEnds
  <2> QED
    BY <2>1, SMTT(40) DEF Taken
<1> QED
  BY <1>1, <1>2

\* processip of the client.
LEMMA ClientReceivesGrows ==
  ASSUME OneWay, StreamIInv, IInv', ClientReceives
  PROVE  /\ Grows
         /\ Stores(sender) => rx[sender].rule \in Rules /\ Answered
         /\ Reacts(sender) => Answered'
<1> USE DEF StreamIInv, StreamInv, IInv
<1> DEFINE s == ClientSock
           t == ClientSock'
<1>1. s.sizep \in Nat
  BY Hypothesis DEF TypeOK, SafeSocket, Socket, ClientSock, ClientFd
<1>2. /\ RxMoves(sender) /\ KeepsServer
      /\ rx'[sender].fd = FirstFd
      /\ ~Pops(sender) => rx[sender].fd = FirstFd /\ rx[sender].pc # "pop"
  BY RxFd, Hypothesis DEF ClientReceives
<1>3. Taken => Taken'
  BY <1>2, SMTT(40) DEF KeepsServer, Taken, ServerSock
<1>4. Closing => Closing'
  BY <1>2, Zenon DEF RxMoves, Pops, Reacts, Stores, Ignores, StoresData, Acks, Notified,
              AppTo, Closing
<1>5. ~StoresData(sender)
  BY InClientsHand, SMTT(40) DEF StoresData, FromServer
<1>6. SameBuffer(t, s)
  BY <1>2, <1>5, ZenonT(40)
  DEF RxMoves, Pops, Reacts, Stores, Ignores, Acks, ClientSock, ClientFd, SameBuffer,
      SameStream
<1>7. Stores(sender) => /\ rx[sender].rule \in Rules /\ rx[sender].rule.to = t.status
  <2>1. ASSUME Stores(sender) PROVE ~Pops(sender) /\ rx[sender].pc = "store"
    BY <2>1, ZenonT(40) DEF Stores, Pops
  <2> QED
    BY <1>2, <2>1, Hypothesis
    DEF Stores, PendingSocketsExist, PendingExist, ClientSock, ClientFd
<1>8. ~Stores(sender) => t.status = s.status
  BY <1>2, <1>5
  DEF RxMoves, Pops, Reacts, Ignores, Acks, ClientSock, ClientFd, SameState
<1>9. Connected => Connected'
  BY <1>7, <1>8, RuleFacts DEF Connected
<1>10. Reacts(sender) => Answered'
  BY <1>2, RuleFacts, ZenonT(40) DEF Reacts, Answered, Committed
<1>11. Stores(sender) => Answered /\ Answered'
  BY <1>2, <1>7, RuleFacts
  DEF Stores, Idles, Answered, Committed, ClientSock, ClientFd
<1>12. Answered => Answered'
  <2>1. ASSUME ~Reacts(sender), ~Stores(sender) PROVE Answered => Answered'
    <3>1. /\ rx[sender].pc # "store" \/ rx'[sender].pc = rx[sender].pc
          /\ rx'[sender].pc # "store"
      BY <1>2, <1>5, <2>1 DEF RxMoves, Pops, Ignores, Acks, Idles
    <3> QED
      BY <1>8, <2>1, <3>1, SMTT(40) DEF Answered, Committed, ClientSock, ClientFd
  <2> QED
    BY <1>10, <1>11, <2>1
<1> QED
  BY <1>1, <1>3, <1>4, <1>6, <1>7, <1>9, <1>10, <1>11, <1>12 DEF Grows, SameBuffer

\* processip of the server.
LEMMA ServerReceivesGrows ==
  ASSUME OneWay, StreamIInv, IInv', ServerReceives
  PROVE  Taken <=> Taken'
<1>1. /\ sock'[recver][ServerFd].remote = sock[recver][ServerFd].remote
  BY Hypothesis, ZenonT(40)
  DEF ServerReceives, RxMoves, Pops, Reacts, Stores, Ignores, StoresData, Acks,
      OnlySock, SameEnds
<1> QED
  BY <1>1, SMTT(40) DEF Taken, ServerSock

\* A packet that arrives at either host.
LEMMA ArrivalGrows ==
  ASSUME OneWay, StreamIInv, IInv', ClientArrival \/ ServerArrival
  PROVE  /\ Grows /\ KeepsClient
         /\ ClientArrival => sock' = sock
         /\ app' = app /\ rx' = rx /\ got' = got /\ up' = up
<1> USE DEF StreamIInv, StreamInv, IInv
<1>2. app' = app /\ rx' = rx /\ got' = got /\ up' = up
  BY Zenon DEF ClientArrival, ServerArrival, Arrival
<1>3. ASSUME NEW g \in Host, NEW h \in Host, Arrival(g, h)
      PROVE  Head(wire[g][h]) \in Pending(h)
  <2>1. wire[g][h] # <<>> /\ wire[g][h] \in Seq(SafePacket)
    BY <1>3, ZenonT(40) DEF Arrival, TypeOK
  <2>2. Head(wire[g][h]) = wire[g][h][1] /\ 1 \in DOMAIN wire[g][h]
    BY <2>1
  <2> QED
    BY <2>2, PendingIs, ZenonT(40)
<1>4. sender \in Host /\ recver \in Host /\ ServerFd \in Fd
  BY Hypothesis, SMTT(40)
<1>5. ASSUME ClientArrival PROVE sock' = sock
  <2>1. PICK g \in Host : Arrival(g, sender)
    BY <1>5, SMTT(40) DEF ClientArrival
  <2> QED
    BY <1>3, <1>4, <2>1, Zenon DEF Arrival, PacketsInv, FromServer
<1>6. ASSUME ServerArrival PROVE Taken => Taken'
  <2>1. PICK g \in Host : Arrival(g, recver)
    BY <1>6 DEF ServerArrival
  <2>2. FromClient(Head(wire[g][recver]))
    BY <1>3, <1>4, <2>1 DEF PacketsInv
  <2> QED
    BY <1>4, <2>1, <2>2, ZenonT(40) DEF Arrival, FromClient, Taken, ServerSock, OnlySock
<1>7. KeepsClient
  <2>1. ServerArrival => KeepsClient
    BY DEF ServerArrival
  <2> QED
    BY <1>2, <1>5, <2>1 DEF KeepsClient
<1>8. Taken => Taken'
  BY <1>5, <1>6 DEF Taken, ServerSock
<1> QED
  BY <1>2, <1>5, <1>7, <1>8, SameConnection

\* The steps that change no socket.
LEMMA QuietSteps ==
  ASSUME OneWay, StreamIInv, IInv', ServerDies \/ Faulty \/ UNCHANGED vars
  PROVE  /\ Grows /\ KeepsClient /\ UNCHANGED <<sock, queue, app, rx, got>>
         /\ ~ServerDies => up' = up
<1>1. UNCHANGED <<sock, queue, app, rx, got>> /\ up'[sender] = up[sender]
  BY Hypothesis, Zenon DEF ServerDies, Faulty, RecvUnmatchedPacket, Lose, Duplicate, Reorder,
     Fault, vars, StreamIInv, IInv, TypeOK
<1>2. ~ServerDies => up' = up
  BY DEF Faulty, Lose, Duplicate, Reorder, Fault, vars
<1>3. KeepsClient /\ (Taken => Taken')
  BY <1>1 DEF KeepsClient, Taken, ServerSock
<1> QED
  BY <1>1, <1>2, <1>3, SameConnection DEF StreamIInv, IInv

\* And so every step.
LEMMA GrowsStep ==
  ASSUME OneWay, StreamIInv, IInv', [Next]_vars
  PROVE  Grows
<1>1. CASE ServerActs
  BY <1>1, ServerGrows, SameConnection DEF ServerActs, StreamIInv, IInv
<1>2. CASE ServerReceives
  BY <1>2, ServerReceivesGrows, SameConnection DEF ServerReceives, StreamIInv, IInv
<1> QED
  BY <1>1, <1>2, ClientGrows, ClientReceivesGrows, ArrivalGrows, QuietSteps, Steps

-----------------------------------------------------------------------------
(* The packets. *)

\* What is true of a packet of the client stays true of it.
LEMMA FromClientStays ==
  ASSUME TypeOK, OneWay, Grows, TypeOK', NEW p \in SafePacket, FromClient(p)
  PROVE  FromClient(p)'
<1>1. /\ p.seq \in Nat /\ p.data \in Seq(Content) /\ Len(p.data) \in Nat
      /\ ClientSock.sizep \in Nat /\ ClientSock'.sizep \in Nat
  <2>1. p.seq \in Nat /\ p.data \in Seq(Content)
    BY DEF SafePacket, Packet
  <2>2. ClientSock \in SafeSocket /\ ClientSock' \in SafeSocket
    BY Hypothesis DEF TypeOK, ClientSock, ClientFd
  <2> QED
    BY <2>1, <2>2 DEF SafeSocket, Socket
<1>2. ASSUME p.kind = "DATA"
      PROVE  /\ p.seq + Len(p.data) <= ClientSock'.sizep
             /\ \A k \in 1 .. Len(p.data) :
                  p.data[k] = ClientSock'.databuf[p.seq + k - 1]
  <2>1. p.seq + Len(p.data) <= ClientSock.sizep
    BY <1>2 DEF FromClient
  <2>2. ASSUME NEW k \in 1 .. Len(p.data)
        PROVE  p.data[k] = ClientSock'.databuf[p.seq + k - 1]
    <3>1. p.seq + k - 1 \in Nat /\ p.seq + k - 1 < ClientSock.sizep
      BY <1>1, <2>1
    <3>2. p.data[k] = ClientSock.databuf[p.seq + k - 1]
      BY <1>2 DEF FromClient
    <3> QED
      BY <3>1, <3>2 DEF Grows
  <2>3. p.seq + Len(p.data) <= ClientSock'.sizep
    BY <1>1, <2>1 DEF Grows
  <2> QED
    BY <2>2, <2>3
<1> QED
  BY <1>2 DEF FromClient, Grows

\* What is true of a packet of the server stays true of it.
LEMMA FromServerStays ==
  ASSUME TypeOK, OneWay, Grows, TypeOK', NEW p \in SafePacket, FromServer(p)
  PROVE  FromServer(p)'
<1>1. p.ack \in Nat /\ ClientSock.sizep \in Nat /\ ClientSock'.sizep \in Nat
  <2>1. p.ack \in Nat
    BY DEF SafePacket, Packet
  <2>2. ClientSock \in SafeSocket /\ ClientSock' \in SafeSocket
    BY Hypothesis DEF TypeOK, ClientSock, ClientFd
  <2> QED
    BY <2>1, <2>2 DEF SafeSocket, Socket
<1> QED
  BY <1>1 DEF FromServer, Grows

\* What is under way is a packet.
LEMMA PendingSafe ==
  ASSUME TypeOK, NEW h \in Host
  PROVE  Pending(h) \subseteq SafePacket
<1> SUFFICES ASSUME NEW p \in Pending(h) PROVE p \in SafePacket
  OBVIOUS
<1>1. ASSUME NEW g \in Host, NEW i \in DOMAIN wire[g][h] PROVE wire[g][h][i] \in SafePacket
  BY DEF TypeOK
<1>2. ASSUME NEW f \in Fd, NEW i \in DOMAIN queue[h][f] PROVE queue[h][f][i] \in SafePacket
  BY DEF TypeOK
<1>3. rx[h].pkt \in SafePacket
  BY DEF TypeOK, RxThread
<1> QED
  BY <1>1, <1>2, <1>3, PendingIs

\* SendPending for one packet.
LEMMA SendOnePending ==
  ASSUME TypeOK, NEW h \in Host, NEW dst \in Endpoint, NEW q \in SafePacket,
         SendTCPPackets(h, dst, <<q>>), queue' = queue, KeepsPacket,
         NEW k \in Host, NEW p \in Pending(k)'
  PROVE  p \in Pending(k) \/ (k = HostOf[dst] /\ p = q)
<1>1. <<q>> \in Seq(SafePacket)
  OBVIOUS
<1>2. PICK ps \in Seq(SafePacket) : ps = <<q>>
  BY <1>1, Zenon
<1>3. SendTCPPackets(h, dst, ps) /\ \A i \in DOMAIN ps : ps[i] = q
  BY <1>2
<1> QED
  BY <1>3, SendPending

\* What the client's thread sends comes from the client.
LEMMA ClientActsPackets ==
  ASSUME OneWay, StreamIInv, IInv', ClientActs, NEW p \in Pending(recver)'
  PROVE  p \in Pending(recver) \/ FromClient(p)'
<1> USE DEF StreamIInv, StreamInv, IInv
<1> DEFINE a == app[sender]
           s == ClientSock
<1>1. /\ s \in SafeSocket /\ s.writep \in Nat /\ s.sizep \in Nat /\ s.sizep <= BufSize
      /\ s.databuf \in [0 .. (BufSize - 1) -> Content]
      /\ a.ip \in Nat \ {0} /\ MSS \in Nat \ {0} /\ BufSize \in Nat
      /\ sender \in Host /\ recver \in Host /\ sport \in Endpoint
  <2>1. s \in SafeSocket /\ a \in AppThread
    BY Hypothesis DEF TypeOK, ClientSock, ClientFd
  <2> QED
    BY <2>1, Hypothesis, TcpAssumption
    DEF SafeSocket, Socket, AppThread, TcpAssumption
<1>2. ClientStep /\ KeepsServer /\ rx' = rx /\ queue' = queue /\ Grows
  BY ClientGrows DEF ClientActs, ClientStep, ClientFrame
<1>3. KeepsPacket
  BY <1>2 DEF KeepsPacket
<1>4. ASSUME wire' = wire PROVE p \in Pending(recver)
  BY <1>1, <1>2, <1>3, <1>4, SamePending
<1>5. ASSUME NEW q \in SafePacket, SendTCPPackets(sender, sport, <<q>>)
      PROVE  p \in Pending(recver) \/ p = q
  BY <1>1, <1>2, <1>3, <1>5, SendOnePending
<1>6. a.ip > 2 => Connected /\ Answered
  BY <1>1 DEF ClientInv
<1>7. CASE ClientConnects
  <2> DEFINE q == Segment("SYN", cport, sport, 0, 0, <<>>)
  <2>1. q \in SafePacket
    BY Hypothesis DEF Segment, SafePacket, Packet, Kind, Address
  <2>2. FromClient(q)'
    BY <1>7 DEF FromClient, Segment, ClientConnects, Connected
  <2> HIDE DEF q
  <2> QED
    BY <1>5, <1>7, <2>1, <2>2 DEF ClientConnects, q
<1>8. CASE ClientSends
  <2> DEFINE n == Unsent(s)
  <2>1. ~Closing
    BY <1>1, <1>8 DEF ClientSends, Closing
  <2>2. n \in Nat /\ s.writep + n <= s.sizep
    BY <1>1, <2>1 DEF BytesInv, Unsent
  <2> HIDE DEF n
  <2>3. /\ Slice(s.databuf, s.writep, n) \in Seq(Content)
        /\ Len(Slice(s.databuf, s.writep, n)) = n
        /\ \A k \in 1 .. n :
             Slice(s.databuf, s.writep, n)[k] = s.databuf[s.writep + k - 1]
    BY <1>1, <2>2, SliceType DEF Slice
  <2> DEFINE d == Slice(s.databuf, s.writep, n)
  <2>8. Segment("DATA", cport, sport, s.writep, 0, d) \in SafePacket
    BY <1>1, <2>2, <2>3, Hypothesis, SMTT(40) DEF Segment, SafePacket, Packet, Kind, Address
  <2>4. PICK q \in SafePacket : q = Segment("DATA", cport, sport, s.writep, 0, d)
    BY <2>8
  <2>5. FromClient(q)
    BY <1>1, <1>6, <1>8, <2>2, <2>3, <2>4, SMTT(40) DEF FromClient, Segment, ClientSends
  <2>6. FromClient(q)'
    BY <1>2, <2>4, <2>5, FromClientStays
  <2>7. SendTCPPackets(sender, sport, <<q>>)
    BY <1>8, <2>4 DEF ClientSends, n
  <2> QED
    BY <1>5, <2>4, <2>6, <2>7
<1>9. CASE ClientCloses
  <2> DEFINE q == Segment("FIN", cport, sport, 0, 0, <<>>)
  <2>1. q \in SafePacket
    BY Hypothesis DEF Segment, SafePacket, Packet, Kind, Address
  <2>2. FromClient(q)
    <3>1. Closing /\ a.ip > 2
      BY <1>1, <1>9, ClientCalls DEF ClientCloses, Closing
    <3> QED
      BY <1>6, <3>1 DEF FromClient, Segment
  <2>3. FromClient(q)'
    BY <1>2, <2>1, <2>2, FromClientStays
  <2> HIDE DEF q
  <2> QED
    BY <1>5, <1>9, <2>1, <2>3 DEF ClientCloses, q
<1>10. CASE ~ClientConnects /\ ~ClientSends /\ ~ClientCloses
  <2>1. wire' = wire
    BY <1>2, <1>10
    DEF ClientStep, ClientSocket, ClientWaits, ClientConnected, ClientAppends,
        ClientWritten, ClientStoresClose, ClientClosed, ClientMoves
  <2> QED
    BY <1>4, <2>1
<1> QED
  BY <1>7, <1>8, <1>9, <1>10

\* The client sends nothing to itself.
LEMMA ClientActsOwnPackets ==
  ASSUME OneWay, StreamIInv, IInv', ClientActs
  PROVE  Pending(sender)' \subseteq Pending(sender)
<1> USE DEF StreamIInv, StreamInv, IInv
<1>1. rx' = rx /\ queue' = queue
  BY DEF ClientActs, ClientStep, ClientFrame
<1>2. \A g \in Host : wire'[g][sender] = wire[g][sender]
  <2>1. HostOf[sport] = recver /\ recver # sender /\ sport \in Endpoint
    BY Hypothesis
  <2>2. \/ wire' = wire
        \/ \E ps : SendTCPPackets(sender, sport, ps)
    BY DEF ClientActs, ClientStep, ClientSocket, ClientConnects, ClientWaits,
           ClientConnected, ClientAppends, ClientSends, ClientWritten, ClientCloses,
           ClientStoresClose, ClientClosed, ClientMoves
  <2>3. ASSUME NEW ps, SendTCPPackets(sender, sport, ps)
        PROVE  wire' = [wire EXCEPT ![sender][recver] = wire[sender][recver] \o ps]
    BY <2>1, <2>3, Hypothesis DEF SendTCPPackets, TypeOK
  <2>4. \/ wire' = wire
        \/ \E v : wire' = [wire EXCEPT ![sender][recver] = v]
    BY <2>2, <2>3
  <2>5. ASSUME NEW v, wire' = [wire EXCEPT ![sender][recver] = v], NEW g \in Host
        PROVE  wire'[g][sender] = wire[g][sender]
    BY <2>1, <2>5, Hypothesis DEF TypeOK
  <2> QED
    BY <2>4, <2>5
<1>3. ASSUME NEW p \in Pending(sender)' PROVE p \in Pending(sender)
  <2>1. \/ \E g \in Host : \E i \in DOMAIN wire'[g][sender] : p = wire'[g][sender][i]
        \/ \E f \in Fd : \E i \in DOMAIN queue'[sender][f] : p = queue'[sender][f][i]
        \/ rx'[sender].pc # "pop" /\ p = rx'[sender].pkt
    BY PendingNext
  <2> QED
    BY <1>1, <1>2, <2>1, PendingIs
<1> QED
  BY <1>3

\* The answers to a packet.
LEMMA AnswersPending ==
  ASSUME TypeOK, NEW h \in Host, Reacts(h), rx[h].pkt.src \in Endpoint,
         NEW k \in Host, NEW p \in Pending(k)'
  PROVE  \/ p \in Pending(k)
         \/ /\ k = HostOf[rx[h].pkt.src] /\ p \in SafePacket
            /\ \E i \in DOMAIN rx'[h].rule.send :
                 p = Reply(rx[h].pkt, rx'[h].rule.send[i])
<1>1. PICK q : q = rx[h].pkt
  OBVIOUS
<1>2. PICK r : r = rx'[h].rule
  OBVIOUS
<1>3. q \in SafePacket /\ r \in Rules /\ q.src \in Endpoint
  BY <1>1, <1>2 DEF Reacts, TypeOK, RxThread
<1>4. q.src \in Address /\ q.dst \in Address /\ q.seq + 1 \in Nat /\ q.ack \in Nat
  BY <1>3 DEF SafePacket, Packet
<1>5. r.send \in Seq(Kind \ {"DATA"})
  BY <1>3, RuleType
<1>6. \A i \in DOMAIN r.send : Reply(q, r.send[i]) \in SafePacket
  <2>1. ASSUME NEW i \in DOMAIN r.send PROVE Reply(q, r.send[i]) \in SafePacket
    <3>1. r.send[i] \in Kind \ {"DATA"}
      BY <1>5, <2>1
    <3> QED
      BY <1>4, <3>1, ControlType DEF Reply
  <2> QED
    BY <2>1
<1>7. [i \in DOMAIN r.send |-> Reply(q, r.send[i])] \in Seq(SafePacket)
  <2>1. DOMAIN r.send = 1 .. Len(r.send) /\ Len(r.send) \in Nat
    BY <1>5
  <2> QED
    BY <1>6, <2>1
<1>8. PICK ps \in Seq(SafePacket) : ps = [i \in DOMAIN r.send |-> Reply(q, r.send[i])]
  BY <1>7
<1>9. /\ SendTCPPackets(h, q.src, ps) /\ queue' = queue
      /\ DOMAIN ps = DOMAIN r.send
      /\ \A i \in DOMAIN r.send : ps[i] = Reply(q, r.send[i])
  BY <1>1, <1>2, <1>8 DEF Reacts
<1>10. KeepsPacket
  BY DEF Reacts, RxFrame, KeepsPacket
<1>11. \/ p \in Pending(k)
       \/ k = HostOf[q.src] /\ \E i \in DOMAIN ps : p = ps[i]
  BY <1>3, <1>9, <1>10, SendPending
<1> QED
  BY <1>1, <1>2, <1>6, <1>9, <1>11

\* The client's answers.
LEMMA ClientReceivesPackets ==
  ASSUME OneWay, StreamIInv, IInv', ClientReceives
  PROVE  /\ Pending(sender)' \subseteq Pending(sender)
         /\ \A p \in Pending(recver)' : p \in Pending(recver) \/ FromClient(p)'
<1> USE DEF StreamIInv, StreamInv, IInv
<1> DEFINE s == ClientSock
<1>1. /\ sender \in Host /\ recver \in Host /\ sender # recver
      /\ cport \in Endpoint /\ sport \in Endpoint
      /\ HostOf[cport] = sender /\ HostOf[sport] = recver /\ FirstFd \in Fd
  BY Hypothesis
<1>2. RxMoves(sender) /\ Grows
  BY ClientReceivesGrows DEF ClientReceives
<1>3. CASE Pops(sender)
  BY <1>1, <1>3, PopPending
<1>4. ASSUME Idles(sender) \/ Reacts(sender) PROVE KeepsPacket
  BY <1>4 DEF KeepsPacket, Idles, RxFrame, Reacts
<1>5. CASE Stores(sender) \/ Ignores(sender)
  <2>1. wire' = wire /\ queue' = queue /\ Idles(sender)
    BY <1>5 DEF Stores, Ignores, Idles
  <2> QED
    BY <1>1, <1>4, <2>1, SamePending
<1>6. ASSUME ~Pops(sender) PROVE FromServer(rx[sender].pkt)
  BY <1>2, <1>6, RxFd, <1>1, InClientsHand
<1>7. CASE Reacts(sender)
  <2>1. PICK q : q = rx[sender].pkt
    OBVIOUS
  <2>2. FromServer(q) /\ q.src = sport /\ q.dst = cport
    BY <1>6, <1>7, <2>1, SMTT(40) DEF Reacts, Pops, FromServer
  <2>3. ASSUME NEW k \in Host, NEW p \in Pending(k)', p \notin Pending(k)
        PROVE  k = recver /\ FromClient(p)'
    <3>1. /\ k = recver /\ p \in SafePacket
          /\ \E i \in DOMAIN rx'[sender].rule.send :
                 p = Reply(q, rx'[sender].rule.send[i])
      BY <1>1, <1>7, <2>1, <2>2, <2>3, AnswersPending
    <3>2. PICK i \in DOMAIN rx'[sender].rule.send : p = Reply(q, rx'[sender].rule.send[i])
      BY <3>1
    <3>3. p.kind \in {"ACK", "FIN"} /\ (p.kind = "FIN" => q.kind = "FIN")
      BY <1>7, <2>1, <2>2, <3>2, RuleFacts DEF Reacts, Reply, Segment, FromServer
    <3>4. p.src = cport /\ p.dst = sport
      BY <2>2, <3>2 DEF Reply, Segment
    <3>5. Answered' /\ Connected' /\ (p.kind = "FIN" => Closing')
      BY <1>2, <1>7, <2>1, <2>2, <3>3, ClientReceivesGrows, InClientsHand
      DEF Grows, FromServer, Reacts
    <3> QED
      BY <3>1, <3>3, <3>4, <3>5 DEF FromClient
  <2> QED
    BY <1>1, <2>3
<1>8. CASE Acks(sender)
  <2>1. PICK q : q = rx[sender].pkt
    OBVIOUS
  <2>2. /\ FromServer(q) /\ q.src = sport /\ q.dst = cport /\ q.kind = "ACK"
        /\ Answered /\ Connected /\ rx[sender].fd = FirstFd
    BY <1>1, <1>6, <1>8, <2>1, InClientsHand, ZenonT(40)
    DEF Acks, Pops, FromServer, ClientReceives, Idles
  <2>3. queue' = queue /\ KeepsPacket
    BY <1>4, <1>8 DEF Acks, Idles
  <2>4. CASE wire' = wire
    BY <1>1, <2>3, <2>4, SamePending
  <2>5. CASE wire' # wire
    <3> DEFINE n == Lesser(MSS, s.sizep - q.ack)
               d == Slice(s.databuf, q.ack, n)
    <3>1. /\ q.ack < s.sizep
          /\ SendTCPPackets(sender, sport,
                            <<Segment("DATA", cport, sport, q.ack, 0, d)>>)
      BY <1>8, <2>1, <2>2, <2>5 DEF Acks, ClientSock, ClientFd
    <3>2. /\ q.ack \in Nat /\ s.sizep \in Nat /\ s.sizep <= BufSize /\ BufSize \in Nat
          /\ s.databuf \in [0 .. (BufSize - 1) -> Content] /\ MSS \in Nat \ {0}
      <4>1. s \in SafeSocket /\ q \in SafePacket
        BY <1>1, <2>1 DEF TypeOK, ClientSock, ClientFd, RxThread
      <4> QED
        BY <4>1, TcpAssumption DEF SafeSocket, Socket, SafePacket, Packet, TcpAssumption
    <3>3. n \in Nat /\ q.ack + n <= s.sizep
      BY <3>1, <3>2 DEF Lesser
    <3> HIDE DEF n
    <3>4. /\ d \in Seq(Content) /\ Len(d) = n
          /\ \A k \in 1 .. n : d[k] = s.databuf[q.ack + k - 1]
      <4>1. q.ack + n <= BufSize
        BY <3>2, <3>3
      <4>2. d \in Seq(Content) /\ Len(d) = n
        BY <3>2, <3>3, <4>1, SliceType, Zenon
      <4> QED
        BY <4>2, Zenon DEF Slice
    <3>5. Segment("DATA", cport, sport, q.ack, 0, d) \in SafePacket
      BY <1>1, <3>2, <3>3, <3>4, DataType DEF Address
    <3>6. PICK u \in SafePacket : u = Segment("DATA", cport, sport, q.ack, 0, d)
      BY <3>5
    <3>7. FromClient(u)
      BY <2>2, <3>3, <3>4, <3>6 DEF FromClient, Segment
    <3>8. FromClient(u)'
      BY <1>2, <3>7, FromClientStays
    <3>9. SendTCPPackets(sender, sport, <<u>>)
      BY <3>1, <3>6
    <3>10. ASSUME NEW k \in Host, NEW p \in Pending(k)'
           PROVE  p \in Pending(k) \/ (k = recver /\ p = u)
      BY <1>1, <2>3, <3>9, SendOnePending
    <3> QED
      BY <1>1, <3>8, <3>10
  <2> QED
    BY <2>4, <2>5, SMTT(40)
<1>9. ~StoresData(sender)
  BY InClientsHand DEF StoresData, FromServer
<1> QED
  BY <1>2, <1>3, <1>5, <1>7, <1>8, <1>9 DEF RxMoves

\* The server's answers.
LEMMA ServerReceivesPackets ==
  ASSUME OneWay, StreamIInv, IInv', ServerReceives
  PROVE  /\ Pending(recver)' \subseteq Pending(recver)
         /\ \A p \in Pending(sender)' : p \in Pending(sender) \/ FromServer(p)'
<1> USE DEF StreamIInv, StreamInv, IInv
<1>1. /\ sender \in Host /\ recver \in Host /\ sender # recver
      /\ cport \in Endpoint /\ sport \in Endpoint
      /\ HostOf[cport] = sender /\ HostOf[sport] = recver
      /\ FirstFd \in Fd /\ ServerFd \in Fd
  BY Hypothesis
<1>2. /\ RxMoves(recver) /\ Grows /\ (Taken' <=> Taken)
      /\ Closing' <=> Closing
      /\ ClientSock' = ClientSock
  BY ServerReceivesGrows, SameConnection DEF ServerReceives
<1>3. CASE Pops(recver)
  BY <1>1, <1>3, PopPending
<1>4. ASSUME Idles(recver) \/ Reacts(recver) PROVE KeepsPacket
  BY <1>4 DEF KeepsPacket, Idles, RxFrame, Reacts
<1>5. CASE Stores(recver) \/ Ignores(recver)
  <2>1. wire' = wire /\ queue' = queue /\ Idles(recver)
    BY <1>5 DEF Stores, Ignores, Idles
  <2> QED
    BY <1>1, <1>4, <2>1, SamePending
<1>6. ASSUME ~Pops(recver) PROVE FromClient(rx[recver].pkt) /\ Taken
  BY <1>2, <1>6, RxFd, <1>1, InServersHand
<1>7. CASE Reacts(recver)
  <2>1. PICK q : q = rx[recver].pkt
    OBVIOUS
  <2>2. FromClient(q) /\ q.src = cport /\ q.dst = sport /\ Taken
    BY <1>6, <1>7, <2>1 DEF Reacts, Pops, FromClient
  <2>3. rx'[recver].rule \in Rules /\ rx'[recver].rule.at \in ServerStatus
        /\ rx'[recver].rule.on = q.kind
    <3>1. RxSock(recver).status \in ServerStatus
      BY <1>1, <1>7, RxFd, ServerSockets, ZenonT(40) DEF RxSock, Reacts, Pops, TypeOK, RxThread
    <3> QED
      BY <1>7, <2>1, <3>1 DEF Reacts, RxInv
  <2>4. ASSUME NEW k \in Host, NEW p \in Pending(k)', p \notin Pending(k)
        PROVE  k = sender /\ FromServer(p)'
    <3>1. /\ k = sender /\ p \in SafePacket
          /\ \E i \in DOMAIN rx'[recver].rule.send :
                 p = Reply(q, rx'[recver].rule.send[i])
      BY <1>1, <1>7, <2>1, <2>2, <2>4, AnswersPending
    <3>2. PICK i \in DOMAIN rx'[recver].rule.send : p = Reply(q, rx'[recver].rule.send[i])
      BY <3>1
    <3>3. p.kind \in {"SYNACK", "ACK", "FIN"} /\ (p.kind # "SYNACK" => q.kind = "FIN")
      BY <2>3, <3>2, RuleFacts DEF Reply, Segment
    <3>4. p.src = sport /\ p.dst = cport
      BY <2>2, <3>2 DEF Reply, Segment
    <3>5. Taken' /\ (p.kind # "SYNACK" => Answered' /\ Closing')
      BY <1>2, <2>2, <3>3 DEF Grows, FromClient
    <3> QED
      BY <3>1, <3>3, <3>4, <3>5 DEF FromServer
  <2> QED
    BY <1>1, <2>4, SMTT(40)
<1>8. CASE StoresData(recver)
  <2>1. PICK q : q = rx[recver].pkt
    OBVIOUS
  <2>2. /\ FromClient(q) /\ q.src = cport /\ q.dst = sport /\ q.kind = "DATA"
        /\ Taken
    BY <1>6, <1>8, <2>1, ZenonT(40) DEF StoresData, Pops, FromClient
  <2>3. queue' = queue /\ KeepsPacket
    BY <1>4, <1>8 DEF StoresData, Idles
  <2>4. q.seq + Len(q.data) \in Nat
    <3>1. q \in SafePacket
      BY <1>1, <2>1 DEF TypeOK, RxThread
    <3>2. q.seq \in Nat /\ q.data \in Seq(Content)
      BY <3>1 DEF SafePacket, Packet
    <3> QED
      BY <3>2
  <2>5. Segment("ACK", sport, cport, 0, q.seq + Len(q.data), <<>>) \in SafePacket
    BY <1>1, <2>4, ControlType DEF Address, Kind
  <2>6. PICK u \in SafePacket :
          u = Segment("ACK", sport, cport, 0, q.seq + Len(q.data), <<>>)
    BY <2>5
  <2>7. FromServer(u)'
    BY <1>2, <2>2, <2>6, SMTT(40) DEF FromServer, FromClient, Segment, Grows
  <2>8. SendTCPPackets(recver, cport, <<u>>)
    BY <1>8, <2>1, <2>2, <2>6 DEF StoresData
  <2>9. ASSUME NEW k \in Host, NEW p \in Pending(k)'
        PROVE  p \in Pending(k) \/ (k = sender /\ p = u)
    BY <1>1, <2>3, <2>8, SendOnePending
  <2> QED
    BY <1>1, <2>7, <2>9, SMTT(40)
<1>9. ~(Acks(recver) /\ RxSock(recver).role # "server")
  <2>1. ASSUME Acks(recver) PROVE RxSock(recver).role = "server"
    <3>1. ~Accepts /\ rx[recver].fd \in {FirstFd, ServerFd}
      BY <1>1, <1>2, <2>1, InServersHand, RxFd, ServerSockets, Zenon DEF Acks, Pops
    <3>2. app[recver].ip >= 3
      BY <3>1, ServerSockets
    <3> QED
      BY <3>1, <3>2, SMTT(40) DEF ServerInv, IsServer, RxSock, ListenSock, ServerSock
  <2> QED
    BY <2>1
<1> QED
  BY <1>2, <1>3, <1>5, <1>7, <1>8, <1>9 DEF RxMoves

\* Whatever is under way stays a packet of its sender.
LEMMA PacketsStep ==
  ASSUME OneWay, StreamIInv, IInv', [Next]_vars
  PROVE  PacketsInv'
<1>1. sender \in Host /\ recver \in Host /\ TypeOK /\ TypeOK' /\ Grows
  BY Hypothesis, GrowsStep DEF StreamIInv, IInv
<1>2. /\ \A p \in Pending(recver) : FromClient(p)'
      /\ \A p \in Pending(sender) : FromServer(p)'
  <2>1. \A p \in Pending(recver) : p \in SafePacket /\ FromClient(p)
    BY <1>1, PendingSafe DEF StreamIInv, StreamInv, PacketsInv
  <2>2. \A p \in Pending(sender) : p \in SafePacket /\ FromServer(p)
    BY <1>1, PendingSafe DEF StreamIInv, StreamInv, PacketsInv
  <2>3. ASSUME NEW p \in Pending(recver) PROVE FromClient(p)'
    BY <1>1, <2>1, FromClientStays
  <2>4. ASSUME NEW p \in Pending(sender) PROVE FromServer(p)'
    BY <1>1, <2>2, FromServerStays
  <2> QED
    BY <2>3, <2>4
<1>3. SUFFICES /\ \A p \in Pending(recver)' : p \in Pending(recver) \/ FromClient(p)'
               /\ \A p \in Pending(sender)' : p \in Pending(sender) \/ FromServer(p)'
  BY <1>2 DEF PacketsInv
<1>4. CASE ClientActs
  BY <1>4, ClientActsPackets, ClientActsOwnPackets
<1>5. CASE ServerActs
  <2>1. wire' = wire /\ queue' = queue /\ KeepsPacket
    BY <1>5 DEF ServerActs, ServerStep, ServerFrame, KeepsPacket
  <2> QED
    BY <1>1, <2>1, SamePending
<1>6. CASE ClientReceives
  BY <1>6, ClientReceivesPackets
<1>7. CASE ServerReceives
  BY <1>7, ServerReceivesPackets
<1>8. CASE ClientArrival \/ ServerArrival
  BY <1>1, <1>8, ArrivalPending DEF ClientArrival, ServerArrival
<1>9. CASE ServerDies \/ Faulty
  BY <1>1, <1>9, FaultPending DEF ServerDies, Faulty
<1>10. CASE UNCHANGED vars
  <2>1. wire' = wire /\ queue' = queue /\ KeepsPacket
    BY <1>10 DEF vars, KeepsPacket
  <2> QED
    BY <1>1, <2>1, SamePending
<1> QED
  BY <1>4, <1>5, <1>6, <1>7, <1>8, <1>9, <1>10, Steps

-----------------------------------------------------------------------------
(* The client. *)

\* A step that leaves the client's host alone keeps its part.
LEMMA ClientKept ==
  ASSUME OneWay, TypeOK, ClientInv, KeepsClient
  PROVE  ClientInv'
  BY DEF KeepsClient, ClientInv, Connected, Answered, Committed, ClientSock, ClientFd

\* The client's part.
LEMMA ClientInvStep ==
  ASSUME OneWay, StreamIInv, IInv', [Next]_vars
  PROVE  ClientInv'
<1> USE DEF StreamIInv, StreamInv, IInv
<1> DEFINE a == app[sender]
           b == app'[sender]
           s == ClientSock
           t == ClientSock'
<1>1. /\ sender \in Host /\ recver \in Host /\ sender # recver /\ FirstFd \in Fd
      /\ a.ip \in Nat \ {0} /\ Grows
  BY Hypothesis, GrowsStep, Zenon DEF TypeOK, AppThread
<1>2. CASE ClientActs
  <2>1. /\ ClientStep /\ rx' = rx /\ up' = up /\ OnlySock(sender, FirstFd)
        /\ Len(Script[sender]) \in Nat /\ Len(Script[sender]) >= 3
        /\ a.pc \in Waits => a.ip = 2 /\ a.cv = "conn"
    BY <1>2, ClientCalls DEF ClientActs, ClientStep, ClientFrame
  <2>2. \A f \in Fd \ {FirstFd} : sock'[sender][f].status = "FREE"
    BY <1>1, <2>1 DEF ClientInv, OnlySock
  <2>3. b.cfd = FirstFd /\ b.lfd = FirstFd
    BY <2>1
    DEF ClientInv, ClientStep, ClientSocket, ClientConnects, ClientWaits,
        ClientConnected, ClientAppends, ClientSends, ClientWritten, ClientCloses,
        ClientStoresClose, ClientClosed, ClientMoves, AppTo
  <2>4. CASE ClientSocket
    <3>1. /\ b.ip = 2 /\ b.pc = "call" /\ t.status = "NONE" /\ t.role = "none"
          /\ "conn" \notin t.ready
      BY <2>4 DEF ClientSocket, AppTo
    <3>2. ~Connected'
      BY <3>1 DEF Connected
    <3> QED
      BY <1>1, <2>1, <2>2, <2>3, <3>1, <3>2 DEF ClientInv
  <2>5. CASE ClientConnects
    <3>1. /\ b.ip = 2 /\ b.pc = "test" /\ t.status = "SYNSENT" /\ t.role = s.role
          /\ t.ready = s.ready /\ t.tcbRole = "client"
          /\ t.local = cport /\ t.remote = sport
          /\ a.ip = 2 /\ a.pc = "call"
      BY <2>5 DEF ClientConnects, AppTo
    <3>2. Connected'
      BY <3>1 DEF Connected
    <3>3. "conn" \in t.ready => Answered'
      BY <1>1, <3>1 DEF ClientInv, Grows
    <3> QED
      BY <1>1, <2>1, <2>2, <2>3, <3>1, <3>2, <3>3 DEF ClientInv
  <2>6. CASE ~ClientSocket /\ ~ClientConnects
    <3>1. /\ SameEnds(t, s) /\ t.ready = s.ready
          /\ t.status = s.status \/ (t.status = "FINWAIT1" /\ a.ip > 2)
      BY <1>1, <2>1, <2>6
      DEF ClientStep, ClientWaits, ClientConnected, ClientAppends, ClientSends,
          ClientWritten, ClientCloses, ClientStoresClose, ClientClosed, ClientMoves,
          ClientSock, SameState, SameEnds
    <3>2. \/ b.ip = 2 /\ a.ip = 2 /\ a.pc \in Waits /\ b.pc \in Waits
             /\ (b.pc = "ready" => "conn" \in s.ready)
          \/ b.ip \in Nat /\ b.ip > 2 /\ a.ip = 2 /\ a.pc = "ready" /\ b.pc = "call"
          \/ b.ip \in Nat /\ b.ip > 2 /\ a.ip > 2 /\ b.pc # "ready"
      BY <1>1, <2>1, <2>6, SMTT(40)
      DEF ClientStep, ClientWaits, ClientConnected, ClientAppends, ClientSends,
          ClientWritten, ClientCloses, ClientStoresClose, ClientClosed, ClientMoves,
          AppTo, Waits
    <3>3. "conn" \in t.ready => Answered'
      BY <1>1, <3>1 DEF ClientInv, Grows
    <3>4. Connected' /\ Connected
      BY <1>1, <3>2 DEF ClientInv, Grows, Waits
    <3> QED
      BY <1>1, <2>1, <2>2, <2>3, <3>1, <3>2, <3>3, <3>4, SMTT(40)
      DEF ClientInv, SameEnds, Waits, Connected
  <2> QED
    BY <2>4, <2>5, <2>6
<1>3. CASE ClientReceives
  <2>1. /\ RxMoves(sender) /\ up' = up /\ ~StoresData(sender)
        /\ rx[sender].pc # "pop" => Connected
        /\ ~Pops(sender) => rx[sender].fd = FirstFd
        /\ Stores(sender) => rx[sender].rule \in Rules /\ Answered
    BY <1>1, <1>3, InClientsHand, ClientReceivesGrows, RxFd, SMTT(40)
    DEF ClientReceives, KeepsServer, StoresData, FromServer
  <2>2. /\ \/ AppTo(sender, a.pc, a.cv, a.ip) \/ b = a
           \/ a.pc = "wait" /\ AppTo(sender, "test", a.cv, a.ip)
    BY <2>1, Zenon DEF RxMoves, Pops, Reacts, Stores, Ignores, StoresData, Acks, Notified
  <2>3. /\ \A f \in Fd \ {FirstFd} : sock'[sender][f].status = "FREE"
        /\ SameEnds(t, s) /\ t.sizep = s.sizep
    <3>1. \/ sock' = sock
          \/ /\ OnlySock(sender, FirstFd)
             /\ SameEnds(t, s) /\ t.sizep = s.sizep
      BY <2>1, Zenon DEF RxMoves, Pops, Reacts, Stores, Ignores, Acks, SameStream, SameBuffer,
                  ClientSock, ClientFd
    <3> QED
      BY <1>1, <3>1, SMTT(40) DEF ClientInv, OnlySock, SameEnds, ClientSock
  <2>4. /\ "conn" \in s.ready => "conn" \in t.ready
        /\ "conn" \in t.ready => Answered'
        /\ Connected' <=> Connected
        /\ t.status = "FREE" <=> s.status = "FREE"
    <3>1. CASE Stores(sender)
      <4>1. t.status = rx[sender].rule.to /\ t.ready = s.ready \cup rx[sender].rule.wake
        BY <2>1, <3>1, SMTT(40) DEF Stores, Pops, ClientSock, ClientFd
      <4>2. Connected /\ Answered'
        BY <1>1, <2>1, <3>1 DEF Stores, Grows
      <4> QED
        BY <2>1, <3>1, <4>1, <4>2, RuleFacts, SMTT(40) DEF Connected
    <3>2. CASE ~Stores(sender)
      <4>1. t.status = s.status /\ t.ready = s.ready
        BY <2>1, <3>2 DEF RxMoves, Pops, Reacts, Ignores, Acks, SameState, ClientSock, ClientFd
      <4> QED
        BY <1>1, <4>1, ZenonT(40) DEF ClientInv, Grows, Connected
    <3> QED
      BY <3>1, <3>2
  <2> QED
    BY <1>1, <2>1, <2>2, <2>3, <2>4 DEF ClientInv, AppTo, SameEnds
<1>4. CASE ServerActs \/ ServerReceives \/ ServerDies \/ Faulty \/ UNCHANGED vars
  BY <1>4, ClientKept, QuietSteps DEF ServerActs, ServerReceives
<1>5. CASE ClientArrival \/ ServerArrival
  BY <1>5, ArrivalGrows, ClientKept
<1> QED
  BY <1>2, <1>3, <1>4, <1>5, Steps
-----------------------------------------------------------------------------
(* The server. *)

\* A step that leaves the server's program and sockets alone keeps its part.
LEMMA ServerKept ==
  ASSUME ServerInv, sock'[recver] = sock[recver], app'[recver] = app[recver]
  PROVE  ServerInv'
  BY ZenonT(40) DEF ServerInv, Accepts, IsServer, Fresh, Unready, ServerSock, ListenSock

\* A socket that nothing has happened to stays so.
LEMMA FreshStays ==
  ASSUME Fresh(ListenSock), ListenSock' = ListenSock
  PROVE  Fresh(ListenSock)'
  BY Zenon DEF Fresh, Unready

\* The server's part: its thread.
LEMMA ServerActsInv ==
  ASSUME OneWay, StreamIInv, IInv', ServerActs
  PROVE  ServerInv'
<1> USE DEF StreamIInv, StreamInv, IInv
<1> DEFINE a == app[recver]
           b == app'[recver]
           s == ServerSock
           t == ServerSock'
           k == ListenSock
           l == ListenSock'
<1>1. /\ FirstFd \in Fd /\ ServerFd \in Fd /\ ServerFd # FirstFd /\ recver \in Host
      /\ a.ip \in Nat \ {0} /\ b.ip \in Nat \ {0}
      /\ Len(Script[recver]) \in Nat /\ Len(Script[recver]) >= 4
  BY Hypothesis, ServerCalls, Zenon DEF TypeOK, AppThread
<1>2. ServerStep
  BY DEF ServerActs
<1>3. \A f \in Fd \ {FirstFd, ServerFd} : sock'[recver][f].status = "FREE"
  BY <1>1, <1>2
  DEF ServerInv, ServerStep, ServerSocket, ServerBinds, ServerAccepts, ServerDemotes,
      ServerPromotes, ServerWaits, ServerAwaitsAck, ServerAccepted, ServerReads,
      ServerHasRead, ServerCloses, ServerClosed, ServerMoves, OnlySock
<1>4. ASSUME OnlySock(recver, FirstFd) PROVE t = s
  BY <1>1, <1>4 DEF OnlySock, ServerSock
<1>5. ASSUME OnlySock(recver, ServerFd) PROVE l = k
  BY <1>1, <1>5 DEF OnlySock, ListenSock
<1>6. CASE ServerSocket
  <2>1. /\ a.ip = 1 /\ a.pc = "call" /\ AppTo(recver, "call", a.cv, 2) /\ t = s
        /\ l.status = "NONE" /\ l.role = "none" /\ Unready(l)
    BY <1>4, <1>6 DEF ServerSocket
  <2>2. Accepts /\ Accepts' /\ b.ip = 2 /\ b.pc = "call" /\ b.lfd = a.lfd /\ b.cfd = a.cfd
    BY <2>1 DEF AppTo, Accepts
  <2>3. s.status = "FREE" /\ s.remote = NoEndpoint /\ a.lfd = FirstFd /\ a.cfd = FirstFd
    BY <2>2 DEF ServerInv
  <2> QED
    BY <1>3, <2>1, <2>2, <2>3 DEF ServerInv
<1>7. CASE ServerBinds
  <2>1. /\ a.ip = 2 /\ a.pc = "call" /\ AppTo(recver, "call", a.cv, 3) /\ t = s
        /\ l.status = "CLOSED" /\ l.ready = k.ready
        /\ l.role = "server" /\ l.tcbRole = "server"
        /\ l.local = sport /\ l.remote = NoEndpoint
    BY <1>4, <1>7 DEF ServerBinds
  <2>2. IsServer(l) /\ Fresh(l)
    BY <2>1, Zenon DEF ServerInv, IsServer, Fresh, Unready, ServerStatus
  <2>3. Accepts /\ Accepts' /\ b.ip = 3 /\ b.pc = "call" /\ b.lfd = a.lfd /\ b.cfd = a.cfd
    BY <2>1 DEF AppTo, Accepts
  <2>4. s.status = "FREE" /\ s.remote = NoEndpoint /\ a.lfd = FirstFd /\ a.cfd = FirstFd
    BY <2>3 DEF ServerInv
  <2>5. /\ b.lfd = FirstFd /\ b.pc # "finsent"
        /\ b.cfd = IF Accepts' THEN FirstFd ELSE ServerFd
    BY <2>3, <2>4
  <2>6. /\ Accepts' => t.status = "FREE" /\ t.remote = NoEndpoint
        /\ b.ip # 1 /\ b.ip # 2 /\ b.pc \notin {"demote", "promote"}
    BY <2>1, <2>3, <2>4
  <2>7. IsServer(ListenSock)'
    BY <2>2 DEF IsServer
  <2>8. Fresh(ListenSock)'
    BY <2>2, Zenon DEF Fresh, Unready
  <2> QED
    BY <1>3, <2>3, <2>5, <2>6, <2>7, <2>8 DEF ServerInv
<1>8. CASE ServerAccepts
  <2>1. /\ a.ip = 3 /\ a.pc = "call" /\ b.ip = 3 /\ b.pc = "demote"
        /\ b.lfd = a.lfd /\ b.cfd = ServerFd /\ t = k /\ l = k
    BY <1>5, <1>8 DEF ServerAccepts
  <2>2. IsServer(k) /\ Fresh(k) /\ ~Accepts'
    BY <2>1 DEF ServerInv, Accepts
  <2> QED
    BY <1>3, <2>1, <2>2, Zenon DEF ServerInv, IsServer, Fresh, Unready
<1>9. CASE ServerDemotes
  <2>1. /\ a.ip = 3 /\ a.pc = "demote" /\ AppTo(recver, "promote", a.cv, 3) /\ t = s
        /\ l.status = "CLOSED" /\ l.ready = k.ready /\ SameEnds(l, k)
    BY <1>4, <1>9 DEF ServerDemotes
  <2>2. IsServer(k) /\ Fresh(k) /\ ~Accepts /\ ~Accepts' /\ IsServer(s) /\ Fresh(s)
    BY <2>1 DEF ServerInv, Accepts, AppTo
  <2>3. IsServer(l) /\ Fresh(l)
    BY <2>1, <2>2, Zenon DEF IsServer, Fresh, Unready, SameEnds
  <2> QED
    BY <1>3, <2>1, <2>2, <2>3, ZenonT(40) DEF ServerInv, AppTo, IsServer, Fresh, Unready
<1>10. CASE ServerPromotes
  <2>1. /\ a.ip = 3 /\ a.pc = "promote" /\ AppTo(recver, "test", "syn", 3) /\ l = k
        /\ t.status = "LISTEN" /\ t.ready = s.ready /\ SameEnds(t, s)
    BY <1>5, <1>10 DEF ServerPromotes
  <2>2. IsServer(k) /\ Fresh(k) /\ ~Accepts /\ ~Accepts' /\ IsServer(s)
    BY <2>1 DEF ServerInv, Accepts, AppTo
  <2>3. IsServer(t)
    BY <2>1, <2>2 DEF IsServer, SameEnds, ServerStatus
  <2> QED
    BY <1>3, <2>1, <2>2, <2>3, ZenonT(40) DEF ServerInv, AppTo, IsServer, Fresh, Unready
<1>11. CASE ServerAccepted
  <2>1. /\ a.ip = 3 /\ a.pc = "ready" /\ AppTo(recver, "call", "ack", 4) /\ t = s
        /\ l.status = "LISTEN" /\ l.ready = k.ready /\ SameEnds(l, k)
    BY <1>4, <1>11 DEF ServerAccepted
  <2>2. IsServer(k) /\ ~Accepts /\ ~Accepts' /\ IsServer(s)
    BY <2>1 DEF ServerInv, Accepts, AppTo
  <2>3. IsServer(l)
    BY <2>1, <2>2 DEF IsServer, SameEnds, ServerStatus
  <2> QED
    BY <1>3, <2>1, <2>2, <2>3 DEF ServerInv, AppTo, IsServer
<1>12. CASE ServerWaits \/ ServerAwaitsAck \/ ServerReads \/ ServerHasRead
            \/ ServerCloses \/ ServerClosed
  <2>1. /\ \/ a.ip = 3 /\ b.ip = 3 /\ a.pc \in Waits /\ b.pc \in Waits
           \/ a.ip > 3 /\ b.ip > 3
        /\ b.lfd = a.lfd /\ b.cfd = a.cfd
        /\ l = k /\ SameEnds(t, s) /\ t.status = s.status
        /\ b.pc # "finsent"
    BY <1>1, <1>5, <1>12, SMTT(40)
    DEF ServerWaits, ServerAwaitsAck, ServerReads, ServerHasRead, ServerCloses,
        ServerClosed, ServerMoves, AppTo, SameEnds, SameState, ListenSock, ServerSock,
        Waits
  <2>2. ~Accepts /\ ~Accepts'
    BY <1>1, <2>1 DEF Accepts, Waits
  <2>3. IsServer(t)
    BY <2>1, <2>2 DEF ServerInv, IsServer, SameEnds
  <2>4. IsServer(k) /\ (a.ip = 3 => Fresh(k)) /\ a.lfd = FirstFd /\ a.cfd = ServerFd
    BY <1>1, <2>1, <2>2 DEF ServerInv
  <2>5. b.ip \in Nat /\ b.ip >= 3 /\ (b.ip > 3 \/ b.pc \notin {"demote", "promote"})
    BY <1>1, <2>1 DEF Waits
  <2>6. b.ip = 3 => a.ip = 3
    BY <1>1, <2>1
  <2>7. /\ b.lfd = FirstFd /\ b.pc # "finsent" /\ b.cfd = ServerFd
        /\ b.ip # 1 /\ b.ip # 2
    BY <2>1, <2>4, <2>5
  <2>8. IsServer(ListenSock)' /\ IsServer(ServerSock)'
    BY <2>1, <2>3, <2>4 DEF IsServer
  <2>9. b.ip = 3 => Fresh(ListenSock)' /\ b.pc \notin {"demote", "promote"}
    <3>1. b.ip = 3 => b.pc \notin {"demote", "promote"}
      BY <2>5
    <3>2. ASSUME b.ip = 3 PROVE Fresh(ListenSock)'
      <4>1. Fresh(k) /\ l = k
        BY <2>1, <2>4, <2>6, <3>2
      <4> QED
        BY <4>1, FreshStays
    <3> QED
      BY <3>1, <3>2
  <2> QED
    BY <1>3, <2>2, <2>7, <2>8, <2>9, SMTT(40) DEF ServerInv
<1> QED
  BY <1>2, <1>6, <1>7, <1>8, <1>9, <1>10, <1>11, <1>12 DEF ServerStep

\* Its processip.
LEMMA ServerReceivesInv ==
  ASSUME OneWay, StreamIInv, IInv', ServerReceives
  PROVE  ServerInv'
<1> USE DEF StreamIInv, StreamInv, IInv
<1> DEFINE a == app[recver]
           b == app'[recver]
           f == rx[recver].fd
<1>1. /\ FirstFd \in Fd /\ ServerFd \in Fd /\ ServerFd # FirstFd /\ recver \in Host
      /\ RxMoves(recver)
  BY Hypothesis DEF ServerReceives
<1>2. CASE Pops(recver) \/ Reacts(recver) \/ Ignores(recver)
  BY <1>2, ServerKept DEF Pops, Reacts, Ignores
<1>3. CASE ~(Pops(recver) \/ Reacts(recver) \/ Ignores(recver))
  <2>1. /\ f \in {FirstFd, ServerFd} /\ rx[recver].pc # "pop" /\ OnlySock(recver, f)
        /\ Taken /\ ~Accepts /\ a.ip >= 3 /\ a.ip \in Nat
    BY <1>1, <1>3, RxFd, ServerSockets, InServersHand, Zenon
    DEF RxMoves, Stores, StoresData, Acks
  <2>2. /\ SameEnds(ListenSock', ListenSock) /\ SameEnds(ServerSock', ServerSock)
    BY <1>1, <1>3, <2>1, Zenon
    DEF RxMoves, Stores, StoresData, Acks, SameEnds, OnlySock, ListenSock, ServerSock
  <2>3. \A e \in Fd \ {FirstFd, ServerFd} : sock'[recver][e].status = "FREE"
    BY <1>1, <2>1 DEF ServerInv, OnlySock
  <2>4. ASSUME NEW e \in {FirstFd, ServerFd}
        PROVE  sock'[recver][e].status \in ServerStatus \ {"FREE", "NONE"}
    <3>1. sock[recver][e].status \in ServerStatus \ {"FREE", "NONE"}
      BY <2>1, <2>4 DEF ServerInv, IsServer, ListenSock, ServerSock
    <3>2. CASE Stores(recver)
      <4>1. rx[recver].rule \in Rules /\ rx[recver].rule.at \in ServerStatus
        BY <1>1, <3>2 DEF Stores, PendingSocketsExist, PendingExist, RxInv
      <4>2. sock'[recver][f].status \in {"SYNRCVD", "ESTAB", "LASTACK", "CLOSED"}
        BY <3>2, <4>1, RuleFacts, SMTT(40) DEF Stores
      <4> QED
        BY <1>1, <2>1, <2>4, <3>1, <4>2, SMTT(40) DEF OnlySock, ServerStatus
    <3>3. CASE ~Stores(recver)
      BY <1>1, <1>3, <2>1, <2>4, <3>1, <3>3, ZenonT(40)
      DEF RxMoves, StoresData, Acks, SameState, OnlySock
    <3> QED
      BY <3>2, <3>3
  <2>5. IsServer(ListenSock') /\ IsServer(ServerSock')
    <3>1. IsServer(ListenSock) /\ IsServer(ServerSock)
      BY <2>1 DEF ServerInv
    <3> QED
      BY <2>2, <2>4, <3>1 DEF IsServer, SameEnds, ListenSock, ServerSock
  <2>6. a.ip = 3 => ListenSock' = ListenSock
    BY <1>1, <2>1 DEF RxInv, OnlySock, ListenSock
  <2>7. ~(a.ip = 3 /\ a.pc \in {"demote", "promote"})
    BY <2>1, Hypothesis, SMTT(40) DEF ServerInv, Fresh, Taken
  <2>8. /\ b.ip = a.ip /\ b.lfd = a.lfd /\ b.cfd = a.cfd
        /\ b.pc = a.pc \/ (a.pc = "wait" /\ b.pc = "test")
    BY <1>1, <1>3, Zenon DEF RxMoves, Stores, StoresData, Acks, Notified, AppTo
  <2>9. ~Accepts'
    BY <2>1, <2>8, SMTT(40) DEF Accepts
  <2> QED
    BY <2>1, <2>3, <2>5, <2>6, <2>7, <2>8, <2>9, ZenonT(40)
    DEF ServerInv, IsServer, Fresh, Unready
<1> QED
  BY <1>2, <1>3

\* A packet that reaches the server's host.
LEMMA ServerArrives ==
  ASSUME OneWay, StreamIInv, IInv', ServerArrival
  PROVE  \E f \in {FirstFd, ServerFd}, p \in SafePacket :
           /\ FromClient(p) /\ app[recver].ip \in Nat /\ app[recver].ip >= 3
           /\ app[recver].ip = 3 => f = ServerFd
           /\ f = ServerFd => ~Accepts
           /\ IF p.kind = "SYN"
              THEN /\ sock[recver][f].status = "LISTEN"
                   /\ sock'[recver][f].local = sport /\ sock'[recver][f].remote = cport
                   /\ sock'[recver][f].role = sock[recver][f].role
                   /\ sock'[recver][f].tcbRole = sock[recver][f].tcbRole
                   /\ SameState(sock'[recver][f], sock[recver][f])
                   /\ SameStream(sock'[recver][f], sock[recver][f])
                   /\ OnlySock(recver, f)
              ELSE sock' = sock
           /\ queue'[recver][f] # <<>>
           /\ \A e \in Fd \ {f} : queue'[recver][e] = queue[recver][e]
           /\ UNCHANGED <<app, rx, got, up>> /\ up[recver]
<1> USE DEF StreamIInv, StreamInv, IInv
<1>1. PICK g \in Host : Arrival(g, recver)
  BY DEF ServerArrival
<1>2. PICK p : p = Head(wire[g][recver])
  OBVIOUS
<1>3. PICK f : f = Destination(recver, p)
  OBVIOUS
<1>4. /\ wire[g][recver] # <<>> /\ wire[g][recver] \in Seq(SafePacket)
      /\ recver \in Host
  <2>1. recver \in Host
    BY Hypothesis
  <2>2. wire[g][recver] # <<>>
    BY <1>1, Zenon DEF Arrival
  <2> QED
    BY <2>1, <2>2 DEF TypeOK
<1>5. p = wire[g][recver][1] /\ 1 \in DOMAIN wire[g][recver]
  BY <1>2, <1>4
<1>6. p \in Pending(recver)
  BY <1>5, PendingIs
<1>7. FromClient(p) /\ p \in SafePacket
  BY <1>4, <1>6, PendingSafe, SMTT(40) DEF PacketsInv
<1>8. f \in Fd /\ queue'[recver][f] = Append(queue[recver][f], p)
      /\ queue[recver][f] \in Seq(SafePacket)
  BY <1>1, <1>2, <1>3, <1>4, ZenonT(40) DEF Arrival, TypeOK
<1>9. /\ f \in {FirstFd, ServerFd} /\ app[recver].ip >= 3
      /\ app[recver].ip = 3 => f = ServerFd
      /\ f = ServerFd => ~Accepts
      /\ p.kind = "SYN" => sock[recver][f].status = "LISTEN"
  BY <1>3, <1>7, <1>8, ServerDestination
<1>10. queue'[recver][f] # <<>>
  BY <1>7, <1>8
<1>11. app[recver].ip \in Nat
  BY <1>4 DEF TypeOK, AppThread
<1>12. p.src = cport /\ p.dst = sport
  BY <1>7 DEF FromClient
<1> QED
  BY <1>1, <1>2, <1>3, <1>4, <1>7, <1>9, <1>10, <1>11, <1>12, ZenonT(40) DEF Arrival

\* A packet that arrives.
LEMMA ServerArrivalInv ==
  ASSUME OneWay, StreamIInv, IInv', ServerArrival
  PROVE  ServerInv'
<1> USE DEF StreamIInv, StreamInv, IInv
<1> DEFINE a == app[recver]
<1>1. PICK f \in {FirstFd, ServerFd}, p \in SafePacket :
           /\ FromClient(p) /\ a.ip \in Nat /\ a.ip >= 3
           /\ a.ip = 3 => f = ServerFd
           /\ f = ServerFd => ~Accepts
           /\ IF p.kind = "SYN"
              THEN /\ sock[recver][f].status = "LISTEN"
                   /\ sock'[recver][f].local = sport /\ sock'[recver][f].remote = cport
                   /\ sock'[recver][f].role = sock[recver][f].role
                   /\ sock'[recver][f].tcbRole = sock[recver][f].tcbRole
                   /\ SameState(sock'[recver][f], sock[recver][f])
                   /\ OnlySock(recver, f)
              ELSE sock' = sock
           /\ app' = app
  BY ServerArrives
<1>2. CASE p.kind # "SYN"
  BY <1>1, <1>2, ServerKept
<1>3. CASE p.kind = "SYN"
  <2>1. /\ FirstFd \in Fd /\ ServerFd \in Fd /\ FirstFd # ServerFd /\ recver \in Host
    BY Hypothesis
  <2>2. \A e \in Fd \ {FirstFd, ServerFd} : sock'[recver][e].status = "FREE"
    BY <1>1, <1>3, <2>1 DEF ServerInv, OnlySock
  <2>3. IsServer(ListenSock)
    BY <1>1 DEF ServerInv
  <2>4. IsServer(ListenSock)'
    BY <1>1, <1>3, <2>1, <2>3 DEF IsServer, OnlySock, ListenSock, SameState
  <2>5. ~Accepts => IsServer(ServerSock)'
    BY <1>1, <1>3, <2>1 DEF ServerInv, IsServer, OnlySock, ServerSock, SameState
  <2>6. ASSUME a.ip = 3 PROVE Fresh(ListenSock)'
    <3>1. Fresh(ListenSock)
      BY <2>6 DEF ServerInv
    <3>2. ListenSock' = ListenSock
      BY <1>1, <1>3, <2>1, <2>6 DEF OnlySock, ListenSock
    <3> QED
      BY <3>1, <3>2, FreshStays
  <2>7. ~(a.ip = 3 /\ a.pc \in {"demote", "promote"})
    BY <1>1, <1>3 DEF ServerInv, Fresh, ServerSock
  <2>8. Accepts => ServerSock' = ServerSock
    BY <1>1, <1>3, <2>1 DEF OnlySock, ServerSock
  <2>9. Accepts' <=> Accepts
    BY <1>1 DEF Accepts
  <2>10. /\ a.lfd = FirstFd /\ a.pc # "finsent"
         /\ a.cfd = IF Accepts THEN FirstFd ELSE ServerFd
         /\ Accepts => ServerSock.status = "FREE" /\ ServerSock.remote = NoEndpoint
         /\ a.ip # 1 /\ a.ip # 2
    BY <1>1 DEF ServerInv
  <2> QED
    BY <1>1, <2>2, <2>4, <2>5, <2>6, <2>7, <2>8, <2>9, <2>10 DEF ServerInv
<1> QED
  BY <1>2, <1>3

\* And so every step.
LEMMA ServerInvStep ==
  ASSUME OneWay, StreamIInv, IInv', [Next]_vars
  PROVE  ServerInv'
<1> USE DEF StreamIInv, StreamInv
<1>1. ClientActs \/ ClientReceives => ServerInv'
  BY ServerKept DEF ClientActs, ClientReceives, KeepsServer
<1>2. ServerActs \/ ServerReceives \/ ServerArrival => ServerInv'
  BY ServerActsInv, ServerReceivesInv, ServerArrivalInv
<1>3. ClientArrival \/ ServerDies \/ Faulty \/ UNCHANGED vars => ServerInv'
  BY ServerKept, QuietSteps DEF ClientArrival, KeepsServer
<1> QED
  BY <1>1, <1>2, <1>3, Steps
-----------------------------------------------------------------------------
(* The handshake. *)

\* What HandshakeInv says of the flags of the server's socket.
FlagsInv ==
  LET a == app[recver]
      s == ServerSock
  IN  /\ a.ip > 3 \/ (a.pc \in Waits /\ a.cv = "ack") \/ a.pc = "ready" =>
           "syn" \in s.ready
      /\ "syn" \in s.ready => Taken
      /\ a.ip > 3 \/ (a.pc = "ready" /\ a.cv = "ack") => "ack" \in s.ready
      /\ Garbage = {FALSE} /\ "ack" \in s.ready =>
           s.status \in {"ESTAB", "LASTACK", "CLOSED"} /\ Answered

\* The flags of the server's socket: a step that does not change them.
LEMMA FlagsKept ==
  ASSUME FlagsInv, Grows, KeepsServer
  PROVE  FlagsInv'
  BY Zenon DEF FlagsInv, Grows, KeepsServer, Taken, ServerSock

\* The flags: the server's thread.
LEMMA FlagsActs ==
  ASSUME OneWay, StreamIInv, IInv', ServerActs
  PROVE  FlagsInv'
<1> USE DEF StreamIInv, StreamInv, IInv
<1> DEFINE a == app[recver]
           b == app'[recver]
           s == ServerSock
           t == ServerSock'
<1>0. /\ FirstFd \in Fd /\ ServerFd \in Fd /\ ServerFd # FirstFd /\ recver \in Host
      /\ a.ip \in Nat /\ b.ip \in Nat
  BY Hypothesis, Zenon DEF TypeOK, AppThread
<1>1. /\ a.pc \in Waits => \/ a.ip = 3 /\ a.cv \in {"syn", "ack"}
                           \/ a.ip > 3 /\ a.cv = "read"
      /\ Len(Script[recver]) \in Nat /\ Len(Script[recver]) >= 4
  BY <1>0, ServerCalls
<1>2. ServerStep /\ (Taken' <=> Taken) /\ (Answered' <=> Answered)
  BY ServerGrows, SameConnection DEF ServerActs
<1>3. FlagsInv
  BY Zenon DEF HandshakeInv, FlagsInv
<1>4. ASSUME b.ip <= 3, b.pc \notin Waits, t = s PROVE FlagsInv'
  <2>1. b.pc # "ready" /\ ~(b.ip > 3)
    BY <1>0, <1>4 DEF Waits
  <2> QED
    BY <1>2, <1>3, <1>4, <2>1, Zenon DEF FlagsInv
<1>5. ASSUME b.ip <= 3, b.pc \notin Waits \/ (b.pc = "test" /\ b.cv = "syn"),
             NEW u, Unready(u), t.ready = u.ready
      PROVE  FlagsInv'
  <2>1. b.pc # "ready" /\ ~(b.ip > 3) /\ ~(b.pc \in Waits /\ b.cv = "ack")
    BY <1>0, <1>5 DEF Waits
  <2>2. "syn" \notin t.ready /\ (Garbage = {FALSE} => "ack" \notin t.ready)
    BY <1>5, Zenon DEF Unready
  <2> QED
    BY <2>1, <2>2, Zenon DEF FlagsInv
<1>6. CASE ServerSocket \/ ServerBinds
  <2>1. b.ip \in {2, 3} /\ b.pc = "call" /\ t = s
    BY <1>0, <1>6 DEF ServerSocket, ServerBinds, AppTo, OnlySock, ServerSock
  <2> QED
    BY <1>4, <2>1 DEF Waits
<1>7. CASE ServerAccepts
  <2>1. b.ip = 3 /\ b.pc = "demote" /\ t = ListenSock /\ a.ip = 3
    BY <1>7 DEF ServerAccepts
  <2>2. Unready(ListenSock)
    BY <2>1 DEF ServerInv, Fresh
  <2>3. b.ip <= 3 /\ b.pc \notin Waits /\ t.ready = ListenSock.ready
    BY <2>1 DEF Waits
  <2> QED
    BY <1>5, <2>2, <2>3
<1>8. CASE ServerDemotes
  <2>1. b.ip = 3 /\ b.pc = "promote" /\ t = s
    BY <1>0, <1>8 DEF ServerDemotes, AppTo, OnlySock, ServerSock
  <2> QED
    BY <1>4, <2>1 DEF Waits
<1>9. CASE ServerPromotes
  <2>1. /\ b.ip = 3 /\ b.pc = "test" /\ b.cv = "syn" /\ t.ready = s.ready
        /\ a.ip = 3 /\ a.pc = "promote"
    BY <1>9 DEF ServerPromotes, AppTo
  <2>2. Unready(s)
    BY <2>1 DEF ServerInv, Fresh
  <2> QED
    BY <1>5, <2>1, <2>2
<1>10. CASE ServerWaits \/ ServerAwaitsAck \/ ServerAccepted \/ ServerReads
             \/ ServerHasRead \/ ServerCloses \/ ServerClosed
  <2>1. t.ready = s.ready /\ t.status = s.status
    BY <1>0, <1>10
    DEF ServerWaits, ServerAwaitsAck, ServerAccepted, ServerReads, ServerHasRead,
        ServerCloses, ServerClosed, ServerMoves, SameState, OnlySock, ServerSock
  <2>2. b.ip > 3 => a.ip > 3 \/ (a.pc = "ready" /\ a.cv = "ack")
    BY <1>0, <1>1, <1>10
    DEF ServerWaits, ServerAwaitsAck, ServerAccepted, ServerReads, ServerHasRead,
        ServerCloses, ServerClosed, ServerMoves, AppTo
  <2>3. b.pc \in Waits /\ b.ip <= 3 =>
          \/ /\ a.pc \in Waits /\ b.cv = a.cv /\ b.ip = a.ip
             /\ b.pc = "ready" /\ b.cv # "read" => b.cv \in s.ready
          \/ a.ip = 3 /\ a.pc = "ready" /\ a.cv = "syn" /\ b.pc = "test" /\ b.cv = "ack"
    BY <1>0, <1>1, <1>10
    DEF ServerWaits, ServerAwaitsAck, ServerAccepted, ServerReads, ServerHasRead,
        ServerCloses, ServerClosed, ServerMoves, AppTo, Waits
  <2>4. b.ip > 3 \/ (b.pc \in Waits /\ b.cv = "ack") \/ b.pc = "ready" =>
          "syn" \in s.ready
    <3>1. CASE b.ip > 3
      BY <1>3, <2>2, <3>1 DEF FlagsInv
    <3>2. CASE b.ip <= 3
      BY <1>0, <1>1, <1>3, <2>3, <3>2 DEF FlagsInv, Waits
    <3> QED
      BY <1>0, <3>1, <3>2
  <2>5. b.ip > 3 \/ (b.pc = "ready" /\ b.cv = "ack") => "ack" \in s.ready
    <3>1. CASE b.ip > 3
      BY <1>3, <2>2, <3>1 DEF FlagsInv
    <3>2. CASE b.ip <= 3
      BY <1>0, <1>1, <2>3, <3>2 DEF Waits
    <3> QED
      BY <1>0, <3>1, <3>2
  <2> QED
    BY <1>2, <1>3, <2>1, <2>4, <2>5, ZenonT(40) DEF FlagsInv
<1> QED
  BY <1>2, <1>6, <1>7, <1>8, <1>9, <1>10 DEF ServerStep

\* The flags: its processip, which sets them.
LEMMA FlagsReceives ==
  ASSUME OneWay, StreamIInv, IInv', ServerReceives
  PROVE  FlagsInv'
<1> USE DEF StreamIInv, StreamInv, IInv
<1> DEFINE a == app[recver]
           b == app'[recver]
           s == ServerSock
           t == ServerSock'
           f == rx[recver].fd
<1>1. /\ FirstFd \in Fd /\ ServerFd \in Fd /\ ServerFd # FirstFd /\ recver \in Host
      /\ RxMoves(recver) /\ (Taken' <=> Taken) /\ (Answered' <=> Answered)
      /\ a.ip \in Nat
  BY Hypothesis, ServerReceivesGrows, SameConnection, Zenon DEF ServerReceives, TypeOK, AppThread
<1>2. FlagsInv
  BY Zenon DEF HandshakeInv, FlagsInv
<1>3. /\ b.ip = a.ip /\ b.cv = a.cv
      /\ b.pc \in Waits <=> a.pc \in Waits
      /\ b.pc = "ready" <=> a.pc = "ready"
  BY <1>1, Zenon
  DEF RxMoves, Pops, Reacts, Stores, Ignores, StoresData, Acks, Notified, AppTo, Waits
<1>4. CASE t.ready = s.ready /\ t.status = s.status
  BY <1>1, <1>2, <1>3, <1>4, Zenon DEF FlagsInv
<1>5. ASSUME ~(Stores(recver) /\ f = ServerFd)
      PROVE  t.ready = s.ready /\ t.status = s.status
  <2>1. ~Pops(recver) => f \in {FirstFd, ServerFd}
    BY <1>1, RxFd, ServerSockets
  <2> QED
    BY <1>1, <1>5, <2>1, Zenon
    DEF RxMoves, Pops, Reacts, Stores, Ignores, StoresData, Acks, SameState, OnlySock,
        ServerSock
<1>6. CASE Stores(recver) /\ f = ServerFd
  <2> DEFINE r == rx[recver].rule
  <2>1. /\ t.status = r.to /\ t.ready = s.ready \cup r.wake
        /\ r \in Rules /\ r.at = s.status /\ r.on = rx[recver].pkt.kind
        /\ rx[recver].pc = "store"
    BY <1>1, <1>6 DEF Stores, PendingSocketsExist, PendingExist, RxInv, ServerSock
  <2>2. Taken /\ FromClient(rx[recver].pkt)
    BY <2>1, InServersHand
  <2>3. "ack" \in t.ready /\ Garbage = {FALSE} =>
          t.status \in {"ESTAB", "LASTACK", "CLOSED"} /\ Answered
    <3>1. CASE "ack" \in r.wake
      <4>1. r.on = "ACK" /\ r.to = "ESTAB"
        BY <2>1, <3>1, RuleFacts
      <4> QED
        BY <2>1, <2>2, <4>1 DEF FromClient
    <3>2. CASE "ack" \notin r.wake
      <4>1. "ack" \in t.ready /\ Garbage = {FALSE} =>
              r.at \in {"ESTAB", "LASTACK", "CLOSED"} /\ Answered
        BY <1>2, <2>1, <3>2 DEF FlagsInv
      <4> QED
        BY <2>1, <4>1, RuleFacts
    <3> QED
      BY <3>1, <3>2
  <2> QED
    BY <1>1, <1>2, <1>3, <2>1, <2>2, <2>3, Zenon DEF FlagsInv
<1> QED
  BY <1>4, <1>5, <1>6

\* The flags: a packet that arrives.
LEMMA FlagsArrival ==
  ASSUME OneWay, StreamIInv, IInv', ServerArrival
  PROVE  FlagsInv'
<1>1. PICK f \in {FirstFd, ServerFd}, p \in SafePacket :
           /\ IF p.kind = "SYN"
              THEN /\ SameState(sock'[recver][f], sock[recver][f])
                   /\ OnlySock(recver, f)
              ELSE sock' = sock
           /\ app' = app
  BY ServerArrives
<1>2. Grows
  BY ArrivalGrows
<1>3. ServerSock'.ready = ServerSock.ready /\ ServerSock'.status = ServerSock.status
  BY <1>1, Hypothesis DEF ServerSock, OnlySock, SameState
<1>4. FlagsInv
  BY Zenon DEF StreamIInv, StreamInv, HandshakeInv, FlagsInv
<1> QED
  BY <1>1, <1>2, <1>3, <1>4, Zenon DEF FlagsInv, Grows

\* A packet from the client is processed, or queued, when the server's socket
\* has its peer.
LEMMA ServerReceivesTaken ==
  ASSUME OneWay, StreamIInv, IInv', ServerReceives
  PROVE  Taken /\ Taken'
<1>1. Pops(recver) => Taken
  BY SMTT(40) DEF Pops, StreamIInv, StreamInv, HandshakeInv
<1>2. ~Pops(recver) => Taken
  BY InServersHand, Zenon
  DEF ServerReceives, RxMoves, Reacts, Stores, Ignores, StoresData, Acks
<1> QED
  BY <1>1, <1>2, ServerReceivesGrows

\* Once a packet has arrived at the server, it has its peer.
LEMMA ServerArrivalTaken ==
  ASSUME OneWay, StreamIInv, IInv', ServerArrival
  PROVE  Taken' /\ Connected'
<1> USE DEF StreamIInv, StreamInv
<1>1. PICK f \in {FirstFd, ServerFd}, p \in SafePacket :
           /\ FromClient(p) /\ app[recver].ip \in Nat /\ app[recver].ip >= 3
           /\ app[recver].ip = 3 => f = ServerFd
           /\ p.kind = "SYN" => sock'[recver][f].remote = cport
  BY ServerArrives
<1>2. Grows
  BY ArrivalGrows
<1>3. Connected'
  BY <1>1, <1>2 DEF FromClient, Grows
<1>4. CASE p.kind # "SYN"
  BY <1>1, <1>2, <1>3, <1>4 DEF FromClient, HandshakeInv, Grows
<1>5. CASE p.kind = "SYN" /\ f = ServerFd
  BY <1>1, <1>3, <1>5 DEF Taken, ServerSock
<1>6. CASE f = FirstFd
  <2>1. app[recver].ip > 3
    BY <1>1, <1>6, Hypothesis
  <2> QED
    BY <1>2, <1>3, <2>1 DEF HandshakeInv, Grows
<1> QED
  BY <1>1, <1>4, <1>5, <1>6

\* The client is answered only after the server has its peer.
LEMMA ClientAnswered ==
  ASSUME OneWay, StreamIInv, IInv', ClientActs \/ ClientReceives, Answered'
  PROVE  Taken'
<1> USE DEF StreamIInv, StreamInv
<1>1. Answered => Taken
  BY DEF HandshakeInv
<1>2. Taken => Taken'
  BY ClientGrows, ClientReceivesGrows DEF Grows
<1>3. CASE ClientActs
  <2> DEFINE a == app[sender]
             s == ClientSock
             t == ClientSock'
  <2>1. \/ t.status \in {"NONE", "SYNSENT"}
        \/ a.ip >= 3 /\ t.status = "FINWAIT1"
        \/ t.status = s.status
    BY <1>3, Hypothesis, Zenon
    DEF ClientActs, ClientStep, ClientSocket, ClientConnects, ClientWaits,
        ClientConnected, ClientAppends, ClientSends, ClientWritten, ClientCloses,
        ClientStoresClose, ClientClosed, ClientMoves, ClientSock, SameState, OneWay,
        ClientScript
  <2>2. a.ip >= 3 => Answered
    <3>1. a.ip \in Nat
      BY Hypothesis DEF IInv, TypeOK, AppThread
    <3> QED
      BY <3>1 DEF ClientInv
  <2>3. rx' = rx
    BY <1>3 DEF ClientActs, ClientStep, ClientFrame
  <2>4. CASE rx[sender].pc = "store" /\ rx[sender].fd = FirstFd
    BY <1>1, <1>2, <2>3, <2>4 DEF Answered, Committed
  <2>5. CASE ~(rx[sender].pc = "store" /\ rx[sender].fd = FirstFd)
    <3>1. Committed(sender, FirstFd) = s.status /\ Committed(sender, FirstFd)' = t.status
      BY <2>3, <2>5 DEF Committed, ClientSock, ClientFd
    <3> QED
      BY <1>1, <1>2, <2>1, <2>2, <3>1 DEF Answered
  <2> QED
    BY <2>4, <2>5, SMTT(40)
<1>4. CASE ClientReceives
  <2>1. CASE rx[sender].pc # "pop"
    BY <1>2, <2>1, InClientsHand
  <2>2. CASE rx[sender].pc = "pop"
    <3>1. Pops(sender)
      BY <1>4, <2>2
      DEF ClientReceives, RxMoves, Reacts, Stores, Ignores, StoresData, Acks
    <3>2. Answered
      BY <2>2, <3>1 DEF Pops, Answered, Committed
    <3> QED
      BY <1>1, <1>2, <3>2
  <2> QED
    BY <2>1, <2>2
<1> QED
  BY <1>3, <1>4

\* The handshake comes in its order.
LEMMA HandshakeStep ==
  ASSUME OneWay, StreamIInv, IInv', [Next]_vars
  PROVE  HandshakeInv'
<1> USE DEF StreamIInv, StreamInv
<1> DEFINE Empty == \A f \in Fd : queue[recver][f] # <<>> => Taken
<1>0. FlagsInv /\ Empty /\ Grows
  BY GrowsStep, Zenon DEF HandshakeInv, FlagsInv
<1>1. SUFFICES /\ FlagsInv'
               /\ (Answered => Taken)' /\ (Taken => Connected)'
               /\ (rx[recver].pc # "pop" => Taken)' /\ Empty'
  BY Zenon DEF HandshakeInv, FlagsInv
<1>2. CASE ClientActs \/ ClientReceives
  <2>1. KeepsServer /\ (Taken' <=> Taken)
    BY <1>2 DEF ClientActs, ClientReceives, KeepsServer, Taken, ServerSock
  <2>2. FlagsInv'
    BY <1>0, <2>1, FlagsKept
  <2>3. (rx[recver].pc # "pop" => Taken)' /\ Empty'
    BY <2>1 DEF KeepsServer, HandshakeInv
  <2>4. (Taken => Connected)'
    BY <1>0, <2>1 DEF HandshakeInv, Grows
  <2> QED
    BY <1>2, <2>2, <2>3, <2>4, ClientAnswered
<1>3. CASE ServerActs
  <2>1. rx' = rx /\ queue' = queue /\ (Taken' <=> Taken)
    BY <1>3, ServerGrows DEF ServerActs, ServerStep, ServerFrame
  <2>2. (Answered' <=> Answered) /\ (Connected' <=> Connected)
    BY <1>3, <2>1, SameConnection DEF ServerActs, IInv
  <2> QED
    BY <1>3, <2>1, <2>2, FlagsActs, Zenon DEF HandshakeInv
<1>4. CASE ServerReceives
  <2>1. Taken /\ Taken'
    BY <1>4, ServerReceivesTaken
  <2>2. Connected'
    BY <1>0, <2>1 DEF HandshakeInv, Grows
  <2> QED
    BY <1>4, <2>1, <2>2, FlagsReceives
<1>5. CASE ServerArrival
  BY <1>5, ServerArrivalTaken, FlagsArrival
<1>6. CASE ClientArrival
  <2>1. KeepsServer /\ KeepsClient
    BY <1>6, ArrivalGrows DEF ClientArrival
  <2>2. (Taken' <=> Taken) /\ FlagsInv'
    BY <1>0, <2>1, FlagsKept DEF KeepsServer, Taken, ServerSock
  <2>3. (Answered' <=> Answered) /\ (Connected' <=> Connected)
    BY <2>1, <2>2, SameConnection DEF IInv
  <2> QED
    BY <2>1, <2>2, <2>3 DEF HandshakeInv, KeepsServer
<1>7. CASE ServerDies \/ Faulty \/ UNCHANGED vars
  <2>1. /\ KeepsClient /\ UNCHANGED <<sock, queue, app, rx, got>>
    BY <1>7, QuietSteps
  <2>2. (Taken' <=> Taken)
    BY <2>1 DEF Taken, ServerSock
  <2>3. (Answered' <=> Answered) /\ (Connected' <=> Connected)
    BY <2>1, <2>2, SameConnection DEF IInv
  <2>4. FlagsInv'
    BY <1>0, <2>1, <2>2, <2>3, Zenon DEF FlagsInv, ServerSock
  <2> QED
    BY <2>1, <2>2, <2>3, <2>4 DEF HandshakeInv
<1> QED
  BY <1>2, <1>3, <1>4, <1>5, <1>6, <1>7, Steps
-----------------------------------------------------------------------------
(* The processip thread of the server. *)

\* What processip has read of a status: a step that does not change it.
LEMMA RxKept ==
  ASSUME RxInv, rx'[recver] = rx[recver],
         rx[recver].pc # "pop" => ServerSock'.status = ServerSock.status,
         app'[recver].ip = 3 =>
           app[recver].ip = 3 /\ queue'[recver][FirstFd] = queue[recver][FirstFd]
  PROVE  RxInv'
  BY DEF RxInv

\* What processip has read of a status is still so at the accepted socket.
LEMMA RxInvStep ==
  ASSUME OneWay, StreamIInv, IInv', [Next]_vars
  PROVE  RxInv'
<1> USE DEF StreamIInv, StreamInv
<1> DEFINE r == rx[recver]
           a == app[recver]
<1>1. /\ FirstFd \in Fd /\ ServerFd \in Fd /\ ServerFd # FirstFd /\ recver \in Host
      /\ a.ip \in Nat
  BY Hypothesis DEF IInv, TypeOK, AppThread
<1>2. CASE ClientActs \/ ClientReceives \/ ClientArrival
  <2>1. KeepsServer
    BY <1>2 DEF ClientActs, ClientReceives, ClientArrival
  <2> QED
    BY <2>1, RxKept DEF KeepsServer, ServerSock
<1>3. CASE ServerActs
  <2>1. ServerStep /\ rx' = rx /\ queue' = queue
    BY <1>3 DEF ServerActs, ServerStep, ServerFrame
  <2>2. r.pc # "pop" => ~Accepts /\ Taken
    BY InServersHand
  <2>3. r.pc # "pop" => ServerSock'.status = ServerSock.status
    <3>1. ServerAccepts => Accepts
      BY DEF ServerAccepts, Accepts
    <3>2. ServerPromotes => ~Taken
      BY Hypothesis, ZenonT(40) DEF ServerPromotes, ServerInv, Fresh, Taken
    <3>3. ~ServerAccepts /\ ~ServerPromotes => ServerSock'.status = ServerSock.status
      BY <1>1, <2>1
      DEF ServerStep, ServerSocket, ServerBinds, ServerDemotes, ServerWaits,
          ServerAwaitsAck, ServerAccepted, ServerReads, ServerHasRead, ServerCloses,
          ServerClosed, ServerMoves, SameState, OnlySock, ServerSock
    <3> QED
      BY <2>2, <3>1, <3>2, <3>3
  <2>4. app'[recver].ip = 3 => a.ip = 3 \/ (a.ip = 2 /\ Accepts)
    BY <1>1, <2>1
    DEF ServerStep, ServerSocket, ServerBinds, ServerAccepts, ServerDemotes,
        ServerPromotes, ServerWaits, ServerAwaitsAck, ServerAccepted, ServerReads,
        ServerHasRead, ServerCloses, ServerClosed, ServerMoves, AppTo, Accepts
  <2>5. CASE app'[recver].ip = 3 /\ a.ip # 3
    <3>1. ~Taken
      BY <2>4, <2>5, Hypothesis DEF ServerInv, Taken
    <3>2. r.pc = "pop" /\ queue[recver][FirstFd] = <<>>
      BY <1>1, <3>1 DEF HandshakeInv
    <3> QED
      BY <2>1, <3>2 DEF RxInv
  <2> QED
    BY <2>1, <2>3, <2>5, RxKept
<1>4. CASE ServerReceives
  <2>1. /\ RxMoves(recver) /\ rx'[recver].fd \in {FirstFd, ServerFd}
        /\ \A f \in Fd : sock[recver][f].status \in ServerStatus
    BY <1>4, ServerSockets, SMTT(40) DEF ServerReceives, IInv
  <2>2. app'[recver].ip = a.ip
    BY <2>1, Zenon
    DEF RxMoves, Pops, Reacts, Stores, Ignores, StoresData, Acks, Notified, AppTo
  <2>3. CASE Pops(recver)
    <3>1. a.ip = 3 => rx'[recver].fd # FirstFd /\ queue'[recver][FirstFd] = <<>>
      BY <1>1, <2>3 DEF Pops, RxInv
    <3>2. /\ rx'[recver].pc = "react" /\ rx'[recver].seen = sock[recver][rx'[recver].fd].status
          /\ rx'[recver].fd \in Fd /\ sock' = sock
      BY <2>3 DEF Pops
    <3> QED
      BY <2>1, <2>2, <3>1, <3>2 DEF RxInv, ServerSock
  <2>4. CASE Reacts(recver)
    <3>1. r.pc = "react" /\ r.fd \in {FirstFd, ServerFd} /\ r.fd \in Fd
      BY <1>1, <2>1, <2>4 DEF Reacts
    <3>2. /\ rx'[recver].rule.at \in ServerStatus
          /\ r.fd = ServerFd => rx'[recver].rule.at = ServerSock.status
      BY <2>1, <2>4, <3>1 DEF Reacts, RxInv, RxSock, ServerSock
    <3> QED
      BY <2>2, <2>4, <3>1, <3>2 DEF Reacts, RxInv, ServerSock
  <2>5. CASE ~Pops(recver) /\ ~Reacts(recver)
    <3>1. rx'[recver].pc = "pop" /\ queue' = queue
      BY <2>1, <2>5, Zenon DEF RxMoves, Stores, Ignores, StoresData, Acks, Idles
    <3> QED
      BY <2>2, <3>1, SMTT(40) DEF RxInv
  <2> QED
    BY <2>3, <2>4, <2>5
<1>5. CASE ServerArrival
  <2>1. PICK f \in {FirstFd, ServerFd}, p \in SafePacket :
             /\ a.ip = 3 => f = ServerFd
             /\ IF p.kind = "SYN"
                THEN /\ SameState(sock'[recver][f], sock[recver][f])
                     /\ OnlySock(recver, f)
                ELSE sock' = sock
             /\ \A e \in Fd \ {f} : queue'[recver][e] = queue[recver][e]
             /\ UNCHANGED <<app, rx>>
    BY <1>5, ServerArrives
  <2>2. ServerSock'.status = ServerSock.status
    BY <1>1, <2>1 DEF OnlySock, SameState, ServerSock
  <2> QED
    BY <1>1, <2>1, <2>2, RxKept
<1>6. CASE ServerDies \/ Faulty \/ UNCHANGED vars
  <2>1. UNCHANGED <<sock, queue, app, rx, got>>
    BY <1>6, QuietSteps
  <2> QED
    BY <2>1, RxKept DEF ServerSock
<1> QED
  BY <1>2, <1>3, <1>4, <1>5, <1>6, Steps
-----------------------------------------------------------------------------
(* The bytes. *)

\* The types of the two sockets' streams.
LEMMA SocketBounds ==
  ASSUME OneWay, TypeOK
  PROVE  \A s \in {ClientSock, ListenSock, ServerSock} :
           /\ s.sizep \in Nat /\ s.readp \in Nat /\ s.writep \in Nat
           /\ s.sizep <= BufSize /\ BufSize \in Nat
           /\ s.databuf \in [0 .. (BufSize - 1) -> Content]
<1>1. \A s \in {ClientSock, ListenSock, ServerSock} : s \in SafeSocket
  BY Hypothesis, SMTT(40) DEF TypeOK, ClientSock, ClientFd, ListenSock, ServerSock
<1> QED
  BY <1>1, TcpAssumption, Zenon DEF SafeSocket, Socket, TcpAssumption

\* Copies of a socket of the next state.
CopiesNext(t) ==
  /\ t.sizep <= ClientSock'.sizep
  /\ \A i \in 0 .. (BufSize - 1) :
       t.databuf[i] # Zero =>
         i < ClientSock'.sizep /\ t.databuf[i] = ClientSock'.databuf[i]

\* A socket that is not written to keeps its copy of the stream.
LEMMA CopiesKept ==
  ASSUME OneWay, TypeOK, TypeOK', Grows,
         NEW s \in {ListenSock, ServerSock}, Copies(s),
         NEW t, t.sizep = s.sizep, t.databuf = s.databuf
  PROVE  CopiesNext(t)
<1>1. ClientSock.sizep \in Nat /\ s.sizep \in Nat /\ ClientSock'.sizep \in Nat
  <2>1. ClientSock'.sizep \in Nat
    BY Hypothesis DEF TypeOK, SafeSocket, Socket, ClientSock, ClientFd
  <2> QED
    BY <2>1, SocketBounds, Zenon
<1> QED
  BY <1>1 DEF Grows, Copies, CopiesNext

\* What has been read stays so while readp does.
LEMMA ReceivedKept ==
  ASSUME OneWay, StreamIInv, IInv', Grows, got'[recver] = got[recver],
         ServerSock'.readp = ServerSock.readp
  PROVE  /\ Len(Received') = ServerSock'.readp
         /\ \A k \in 1 .. Len(Received') :
              /\ k <= ClientSock'.sizep
              /\ Received'[k] \in {Zero, ClientSock'.databuf[k - 1]}
<1>1. Received' = Received
  BY DEF Received
<1>2. ClientSock.sizep \in Nat /\ ClientSock'.sizep \in Nat /\ Len(Received) \in Nat
  <2>1. ClientSock'.sizep \in Nat
    BY Hypothesis DEF IInv, TypeOK, SafeSocket, Socket, ClientSock, ClientFd
  <2>2. Received \in Seq(Content)
    BY Hypothesis DEF StreamIInv, IInv, TypeOK, Received
  <2> QED
    BY <2>1, <2>2, SocketBounds DEF StreamIInv, IInv
<1>3. \A k \in 1 .. Len(Received) :
        k <= ClientSock.sizep /\ Received[k] \in {Zero, ClientSock.databuf[k - 1]}
  BY DEF StreamIInv, StreamInv, BytesInv
<1>4. \A k \in 1 .. Len(Received) :
        /\ k <= ClientSock'.sizep
        /\ Received[k] \in {Zero, ClientSock'.databuf[k - 1]}
  <2>1. TAKE k \in 1 .. Len(Received)
  <2>2. k - 1 \in Nat /\ k - 1 < ClientSock.sizep
    BY <1>2, <1>3
  <2> QED
    BY <1>2, <1>3, <2>2 DEF Grows
<1> QED
  BY <1>1, <1>4 DEF StreamIInv, StreamInv, BytesInv

\* The server's half of BytesInv, and the client's.
ServerBytes ==
  /\ Copies(ListenSock) /\ Copies(ServerSock)
  /\ ListenSock.readp = 0
  /\ Accepts => ServerSock.readp = 0
  /\ Len(Received) = ServerSock.readp
  /\ \A k \in 1 .. Len(Received) :
       k <= ClientSock.sizep /\ Received[k] \in {Zero, ClientSock.databuf[k - 1]}
ClientBytes == ~Closing => ClientSock.writep <= ClientSock.sizep

\* A step that changes no stream of the server.
LEMMA ServerBytesKept ==
  ASSUME OneWay, StreamIInv, IInv', Grows, got'[recver] = got[recver],
         SameStream(ListenSock', ListenSock), SameStream(ServerSock', ServerSock),
         Accepts' => Accepts
  PROVE  ServerBytes'
<1> USE DEF StreamIInv, StreamInv, IInv
<1>1. CopiesNext(ListenSock') /\ CopiesNext(ServerSock')
  BY CopiesKept DEF SameStream, BytesInv
<1>2. /\ Len(Received') = ServerSock'.readp
      /\ \A k \in 1 .. Len(Received') :
           /\ k <= ClientSock'.sizep
           /\ Received'[k] \in {Zero, ClientSock'.databuf[k - 1]}
  BY ReceivedKept DEF SameStream
<1>3. ListenSock'.readp = 0 /\ (Accepts' => ServerSock'.readp = 0)
  BY DEF SameStream, BytesInv
<1> QED
  BY <1>1, <1>2, <1>3 DEF ServerBytes, CopiesNext, Copies

\* The elements of two sequences put together.
LEMMA Appended ==
  ASSUME NEW S, NEW u \in Seq(S), NEW w \in Seq(S)
  PROVE  /\ Len(u \o w) = Len(u) + Len(w)
         /\ \A k \in 1 .. Len(u) : (u \o w)[k] = u[k]
         /\ \A k \in (Len(u) + 1) .. (Len(u) + Len(w)) :
              (u \o w)[k] = w[k - Len(u)]
  OBVIOUS

\* The bytes: the server's thread, which reads.
LEMMA ServerActsBytes ==
  ASSUME OneWay, StreamIInv, IInv', ServerActs
  PROVE  ServerBytes'
<1> USE DEF StreamIInv, StreamInv, IInv
<1> DEFINE a == app[recver]
           s == ServerSock
           l == ListenSock
<1>0. Copies(l) /\ Copies(s) /\ l.readp = 0 /\ (Accepts => s.readp = 0) /\ Len(Received) = s.readp
  BY DEF BytesInv
<1>1. /\ FirstFd \in Fd /\ ServerFd \in Fd /\ ServerFd # FirstFd /\ recver \in Host
      /\ a.ip \in Nat \ {0}
  BY Hypothesis DEF TypeOK, AppThread
<1>2. ServerStep /\ Grows
  BY ServerGrows, SameConnection, SMTT(40) DEF ServerActs
<1>3. Accepts' => Accepts
  BY <1>1, <1>2, SMTT(40)
  DEF ServerStep, ServerSocket, ServerBinds, ServerAccepts, ServerDemotes,
      ServerPromotes, ServerWaits, ServerAwaitsAck, ServerAccepted, ServerReads,
      ServerHasRead, ServerCloses, ServerClosed, ServerMoves, AppTo, Accepts, Waits
<1>4. CASE ServerSocket
  <2>1. ServerSock' = s /\ got' = got
    BY <1>1, <1>4 DEF ServerSocket, OnlySock, ServerSock
  <2>2. CopiesNext(s)
    BY <1>0, <1>2, CopiesKept
  <2>3. CopiesNext(ListenSock') /\ ListenSock'.readp = 0
    <3>1. ClientSock'.sizep \in Nat
      BY Hypothesis DEF TypeOK, SafeSocket, Socket, ClientSock, ClientFd
    <3> QED
      BY <1>4, <3>1 DEF ServerSocket, CopiesNext
  <2>4. /\ Len(Received') = ServerSock'.readp
        /\ \A k \in 1 .. Len(Received') :
             /\ k <= ClientSock'.sizep
             /\ Received'[k] \in {Zero, ClientSock'.databuf[k - 1]}
    BY <1>2, <2>1, ReceivedKept
  <2> QED
    BY <1>0, <1>3, <2>1, <2>2, <2>3, <2>4 DEF ServerBytes, CopiesNext, Copies
<1>5. CASE ServerAccepts
  <2>1. ServerSock' = l /\ ListenSock' = l /\ got' = got /\ Accepts
    BY <1>1, <1>5 DEF ServerAccepts, OnlySock, ListenSock, Accepts
  <2>2. CopiesNext(l)
    BY <1>0, <1>2, CopiesKept
  <2>3. ServerSock'.readp = s.readp /\ ServerSock'.readp = 0
    BY <1>0, <2>1
  <2>4. /\ Len(Received') = ServerSock'.readp
        /\ \A k \in 1 .. Len(Received') :
             /\ k <= ClientSock'.sizep
             /\ Received'[k] \in {Zero, ClientSock'.databuf[k - 1]}
    BY <1>2, <2>1, <2>3, ReceivedKept
  <2> QED
    BY <1>0, <2>1, <2>2, <2>3, <2>4 DEF ServerBytes, CopiesNext, Copies
<1>6. CASE ServerHasRead
  <2>1. PICK n \in Nat :
          /\ s.readp + n <= s.sizep
          /\ ServerSock'.readp = s.readp + n
          /\ Received' = Received \o Slice(s.databuf, s.readp, n)
    BY <1>6, Zenon DEF ServerHasRead
  <2>2. /\ SameBuffer(ServerSock', s) /\ ListenSock' = l /\ ~Accepts'
    BY <1>1, <1>6
    DEF ServerHasRead, OnlySock, ListenSock, Accepts, AppTo
  <2>3. CopiesNext(l) /\ CopiesNext(ServerSock')
    BY <1>0, <1>2, <2>2, CopiesKept DEF SameBuffer
  <2>4. /\ s.readp \in Nat /\ s.sizep \in Nat /\ s.sizep <= BufSize /\ BufSize \in Nat
        /\ s.databuf \in [0 .. (BufSize - 1) -> Content]
        /\ ClientSock.sizep \in Nat /\ ClientSock'.sizep \in Nat
    <3>1. ClientSock'.sizep \in Nat
      BY Hypothesis DEF TypeOK, SafeSocket, Socket, ClientSock, ClientFd
    <3> QED
      BY <3>1, SocketBounds
  <2>5. PICK w : w = Slice(s.databuf, s.readp, n)
    OBVIOUS
  <2>6. w \in Seq(Content) /\ Len(w) = n /\ \A k \in 1 .. n : w[k] = s.databuf[s.readp + k - 1]
    <3>1. \A i \in 0 .. (BufSize - 1) : s.databuf[i] \in Content
      BY <2>4
    <3>2. w = [k \in 1 .. n |-> s.databuf[s.readp + k - 1]]
      BY <2>5 DEF Slice
    <3>3. \A k \in 1 .. n : s.databuf[s.readp + k - 1] \in Content
      BY <2>1, <2>4, <3>1, SMTT(40)
    <3> QED
      BY <3>2, <3>3
  <2>7. Received \in Seq(Content) /\ Received' = Received \o w
    BY <1>1, <2>1, <2>5 DEF TypeOK, Received
  <2>8. /\ Len(Received') = ServerSock'.readp
        /\ \A k \in 1 .. s.readp : Received'[k] = Received[k]
        /\ \A k \in (s.readp + 1) .. (s.readp + n) : Received'[k] = w[k - s.readp]
    <3>1. Len(w) = n /\ w \in Seq(Content)
      BY <2>6
    <3>2. PICK u : u = Received
      OBVIOUS
    <3>3. u \in Seq(Content) /\ Len(u) = s.readp /\ Received' = u \o w
      BY <1>0, <2>7, <3>2
    <3>4. /\ Len(u \o w) = Len(u) + Len(w)
          /\ \A k \in 1 .. Len(u) : (u \o w)[k] = u[k]
          /\ \A k \in (Len(u) + 1) .. (Len(u) + Len(w)) :
               (u \o w)[k] = w[k - Len(u)]
      BY <3>1, <3>3, Appended, Zenon
    <3> QED
      BY <2>1, <3>1, <3>2, <3>3, <3>4, Zenon
  <2>9. ASSUME NEW k \in 1 .. Len(Received')
        PROVE  k <= ClientSock'.sizep /\ Received'[k] \in {Zero, ClientSock'.databuf[k - 1]}
    <3>1. k \in Nat /\ k > 0 /\ k <= s.readp + n
      BY <2>1, <2>4, <2>8, <2>9
    <3>2. s.sizep <= ClientSock.sizep /\ ClientSock.sizep <= ClientSock'.sizep
      BY <1>0, <1>2 DEF Copies, Grows
    <3>3. k <= ClientSock'.sizep
      BY <2>1, <2>4, <3>1, <3>2, SMTT(40)
    <3>4. CASE k <= s.readp
      <4>1. k \in 1 .. Len(Received) /\ Received'[k] = Received[k]
        BY <1>0, <2>4, <2>8, <3>1, <3>4
      <4>2. k <= ClientSock.sizep /\ Received[k] \in {Zero, ClientSock.databuf[k - 1]}
        BY <4>1 DEF BytesInv
      <4>3. ClientSock'.databuf[k - 1] = ClientSock.databuf[k - 1]
        BY <1>2, <2>4, <3>1, <4>2 DEF Grows
      <4> QED
        BY <3>3, <4>1, <4>2, <4>3
    <3>5. CASE k > s.readp
      <4>1. Received'[k] = w[k - s.readp] /\ k - s.readp \in 1 .. n
        BY <2>1, <2>4, <2>8, <3>1, <3>5, SMTT(40)
      <4>2. Received'[k] = s.databuf[k - 1] /\ k - 1 \in 0 .. (BufSize - 1)
        <5>1. s.readp + (k - s.readp) - 1 = k - 1 /\ k - 1 \in 0 .. (BufSize - 1)
          BY <2>1, <2>4, <3>1, SMTT(40)
        <5>2. w[k - s.readp] = s.databuf[s.readp + (k - s.readp) - 1]
          BY <2>6, <4>1
        <5> QED
          BY <4>1, <5>1, <5>2
      <4>3. s.databuf[k - 1] # Zero => ClientSock'.databuf[k - 1] = s.databuf[k - 1]
        BY <2>2, <2>3, <4>2 DEF CopiesNext, SameBuffer
      <4> QED
        BY <3>3, <4>2, <4>3
    <3> QED
      BY <2>4, <3>1, <3>4, <3>5
  <2> QED
    BY <1>0, <2>2, <2>3, <2>8, <2>9 DEF ServerBytes, CopiesNext, Copies
<1>7. CASE ~ServerSocket /\ ~ServerAccepts /\ ~ServerHasRead
  <2>1. SameStream(ListenSock', l) /\ SameStream(ServerSock', s) /\ got' = got
    BY <1>1, <1>2, <1>7
    DEF ServerStep, ServerBinds, ServerDemotes, ServerPromotes, ServerWaits,
        ServerAwaitsAck, ServerAccepted, ServerReads, ServerCloses, ServerClosed,
        ServerMoves, SameStream, OnlySock, ListenSock, ServerSock
  <2> QED
    BY <1>2, <1>3, <2>1, ServerBytesKept
<1> QED
  BY <1>4, <1>5, <1>6, <1>7

\* The bytes: its processip, which stores.
LEMMA ServerReceivesBytes ==
  ASSUME OneWay, StreamIInv, IInv', ServerReceives
  PROVE  ServerBytes'
<1> USE DEF StreamIInv, StreamInv, IInv
<1> DEFINE f == rx[recver].fd
           p == rx[recver].pkt
<1>0. Copies(ListenSock) /\ Copies(ServerSock) /\ ListenSock.readp = 0
  BY SMTT(40) DEF BytesInv
<1>1. /\ FirstFd \in Fd /\ ServerFd \in Fd /\ ServerFd # FirstFd /\ recver \in Host
      /\ RxMoves(recver) /\ Grows /\ got' = got
  BY Hypothesis, ServerReceivesGrows, SameConnection, ZenonT(40)
  DEF ServerReceives, RxMoves, Pops, Reacts, Stores, Ignores, StoresData, Acks, Idles,
      RxFrame
<1>2. Accepts' => Accepts
  BY <1>1, Zenon
  DEF Accepts, RxMoves, Pops, Reacts, Stores, Ignores, StoresData, Acks, Notified, AppTo
<1>3. ASSUME ~StoresData(recver), ~Acks(recver) PROVE ServerBytes'
  <2>1. SameStream(ListenSock', ListenSock) /\ SameStream(ServerSock', ServerSock)
    BY <1>1, <1>3, ZenonT(40)
    DEF RxMoves, Pops, Reacts, Stores, Ignores, SameStream, OnlySock, ListenSock,
        ServerSock
  <2> QED
    BY <1>1, <1>2, <2>1, ServerBytesKept, SMTT(40)
<1>4. /\ ListenSock'.readp = ListenSock.readp /\ ServerSock'.readp = ServerSock.readp
  BY <1>1, Zenon
  DEF RxMoves, Pops, Reacts, Stores, Ignores, StoresData, Acks, SameStream, OnlySock,
      ListenSock, ServerSock
<1>5. ASSUME CopiesNext(ListenSock'), CopiesNext(ServerSock') PROVE ServerBytes'
  <2>1. /\ Len(Received') = ServerSock'.readp
        /\ \A k \in 1 .. Len(Received') :
             /\ k <= ClientSock'.sizep
             /\ Received'[k] \in {Zero, ClientSock'.databuf[k - 1]}
    BY <1>1, <1>4, ReceivedKept
  <2> QED
    BY <1>0, <1>2, <1>4, <1>5, <2>1 DEF BytesInv, ServerBytes, CopiesNext, Copies
<1>6. CASE Acks(recver)
  <2>1. SameBuffer(ListenSock', ListenSock) /\ SameBuffer(ServerSock', ServerSock)
    BY <1>1, <1>6 DEF Acks, SameBuffer, OnlySock, ListenSock, ServerSock
  <2> QED
    BY <1>0, <1>1, <1>5, <2>1, CopiesKept, SMTT(40) DEF SameBuffer
<1>7. CASE StoresData(recver)
  <2>1. /\ f \in {FirstFd, ServerFd} /\ FromClient(p) /\ p.kind = "DATA"
        /\ p \in SafePacket
    <3>1. rx[recver].pc = "react" /\ rx'[recver].fd = f /\ p.kind = "DATA"
      BY <1>7 DEF StoresData, Idles
    <3>2. p \in SafePacket
      BY <1>1 DEF TypeOK, RxThread
    <3> QED
      BY <3>1, <3>2, InServersHand, SMTT(40) DEF ServerReceives
  <2>2. PICK n, d : n = p.seq /\ d = p.data
    OBVIOUS
  <2>3. /\ n \in Nat /\ d \in Seq(Content) /\ n + Len(d) <= ClientSock.sizep
        /\ \A k \in 1 .. Len(d) : d[k] = ClientSock.databuf[n + k - 1]
    BY <2>1, <2>2 DEF FromClient, SafePacket, Packet
  <2>4. ASSUME NEW s \in {ListenSock, ServerSock}, Copies(s), NEW t,
               t.sizep = (IF n + Len(d) > s.sizep THEN n + Len(d) ELSE s.sizep),
               t.databuf = CopyIn(s.databuf, n, d)
        PROVE  CopiesNext(t)
    <3>1. /\ s.sizep \in Nat /\ ClientSock.sizep \in Nat /\ ClientSock'.sizep \in Nat
          /\ s.databuf \in [0 .. (BufSize - 1) -> Content] /\ BufSize \in Nat
          /\ s.sizep <= ClientSock.sizep /\ ClientSock.sizep <= ClientSock'.sizep
      <4>1. ClientSock'.sizep \in Nat
        BY Hypothesis DEF TypeOK, SafeSocket, Socket, ClientSock, ClientFd
      <4>2. \A c \in {ClientSock, ListenSock, ServerSock} :
              /\ c.sizep \in Nat /\ BufSize \in Nat
              /\ c.databuf \in [0 .. (BufSize - 1) -> Content]
        BY SocketBounds
      <4> QED
        BY <1>1, <2>4, <4>1, <4>2 DEF Copies, Grows
    <3>2. Len(d) \in Nat
      BY <2>3
    <3>3. t.sizep <= ClientSock'.sizep
      BY <2>3, <2>4, <3>1, <3>2
    <3>4. ASSUME NEW i \in 0 .. (BufSize - 1), t.databuf[i] # Zero
          PROVE  i < ClientSock'.sizep /\ t.databuf[i] = ClientSock'.databuf[i]
      <4>1. CASE n <= i /\ i < n + Len(d)
        <5>1. t.databuf[i] = d[i - n + 1] /\ i - n + 1 \in 1 .. Len(d)
          BY <2>3, <2>4, <3>1, <3>2, <4>1 DEF CopyIn
        <5>2. n + (i - n + 1) - 1 = i /\ i < ClientSock.sizep
          BY <2>3, <3>1, <3>2, <4>1
        <5>3. d[i - n + 1] = ClientSock.databuf[n + (i - n + 1) - 1]
          BY <2>3, <5>1
        <5> QED
          BY <1>1, <3>1, <5>1, <5>2, <5>3 DEF Grows
      <4>2. CASE ~(n <= i /\ i < n + Len(d))
        <5>1. t.databuf[i] = s.databuf[i]
          BY <2>4, <3>1, <4>2 DEF CopyIn
        <5>2. i < ClientSock.sizep /\ s.databuf[i] = ClientSock.databuf[i]
          BY <2>4, <3>4, <5>1 DEF Copies
        <5> QED
          BY <1>1, <3>1, <5>1, <5>2 DEF Grows
      <4> QED
        BY <4>1, <4>2
    <3> QED
      BY <3>3, <3>4 DEF CopiesNext
  <2>5. CASE f = FirstFd
    <3>1. /\ ListenSock'.sizep = (IF n + Len(d) > ListenSock.sizep
                                  THEN n + Len(d) ELSE ListenSock.sizep)
          /\ ListenSock'.databuf = CopyIn(ListenSock.databuf, n, d)
          /\ ServerSock' = ServerSock
      BY <1>1, <1>7, <2>2, <2>5 DEF StoresData, OnlySock, ListenSock, ServerSock
    <3>2. CopiesNext(ListenSock')
      BY <1>0, <2>4, <3>1
    <3>3. CopiesNext(ServerSock')
      BY <1>0, <1>1, <3>1, CopiesKept
    <3> QED
      BY <1>5, <3>2, <3>3
  <2>6. CASE f = ServerFd
    <3>1. /\ ServerSock'.sizep = (IF n + Len(d) > ServerSock.sizep
                                  THEN n + Len(d) ELSE ServerSock.sizep)
          /\ ServerSock'.databuf = CopyIn(ServerSock.databuf, n, d)
          /\ ListenSock' = ListenSock
      BY <1>1, <1>7, <2>2, <2>6 DEF StoresData, OnlySock, ListenSock, ServerSock
    <3>2. CopiesNext(ServerSock')
      BY <1>0, <2>4, <3>1
    <3>3. CopiesNext(ListenSock')
      BY <1>0, <1>1, <3>1, CopiesKept
    <3> QED
      BY <1>5, <3>2, <3>3
  <2> QED
    BY <2>1, <2>5, <2>6
<1> QED
  BY <1>3, <1>6, <1>7

\* The bytes: a packet that arrives.
LEMMA ServerArrivalBytes ==
  ASSUME OneWay, StreamIInv, IInv', ServerArrival
  PROVE  ServerBytes'
<1>1. PICK f \in {FirstFd, ServerFd}, p \in SafePacket :
           /\ IF p.kind = "SYN"
              THEN /\ SameStream(sock'[recver][f], sock[recver][f])
                   /\ OnlySock(recver, f)
              ELSE sock' = sock
           /\ app' = app /\ got' = got
  BY ServerArrives
<1>2. /\ SameStream(ListenSock', ListenSock) /\ SameStream(ServerSock', ServerSock)
  BY <1>1, Hypothesis DEF SameStream, OnlySock, ListenSock, ServerSock
<1>3. Accepts' => Accepts
  BY <1>1 DEF Accepts
<1> QED
  BY <1>1, <1>2, <1>3, ArrivalGrows, ServerBytesKept

\* The bytes: the client's thread, which writes and sends.
LEMMA ClientActsBytes ==
  ASSUME OneWay, StreamIInv, IInv', ClientActs \/ ClientReceives
  PROVE  ClientBytes'
<1> USE DEF StreamIInv, StreamInv, IInv
<1> DEFINE s == ClientSock
           t == ClientSock'
           n == Len(Script[sender])
<1>1. /\ s.writep \in Nat /\ s.sizep \in Nat /\ MSS \in Nat /\ n \in Nat
      /\ app[sender].ip \in Nat
  BY SocketBounds, Hypothesis, TcpAssumption, Zenon DEF TcpAssumption, TypeOK, AppThread
<1>2. Grows
  BY ClientGrows, ClientReceivesGrows
<1>3. SUFFICES ASSUME ~Closing' PROVE t.writep <= t.sizep
  BY DEF ClientBytes
<1>4. ~Closing /\ s.writep <= s.sizep
  BY <1>2, <1>3 DEF Grows, BytesInv
<1>5. CASE ClientActs
  <2>1. ClientStep
    BY <1>5 DEF ClientActs
  <2>2. CASE ClientAppends
    <3>1. t.writep = s.writep /\ s.sizep <= t.sizep /\ t.sizep \in Nat
      <4>1. t.sizep \in Nat
        BY Hypothesis DEF TypeOK, SafeSocket, Socket, ClientSock, ClientFd
      <4> QED
        BY <1>2, <2>2, <4>1 DEF ClientAppends, Grows
    <3> QED
      BY <1>1, <1>4, <3>1
  <2>3. CASE ClientSends
    <3>1. t.writep = s.writep + Unsent(s) /\ t.sizep = s.sizep
      BY <2>3 DEF ClientSends, SameBuffer
    <3> QED
      BY <1>1, <1>4, <3>1 DEF Unsent
  <2>4. CASE ClientSocket
    BY <2>4 DEF ClientSocket
  <2>5. CASE ~ClientAppends /\ ~ClientSends /\ ~ClientSocket
    <3>1. t.writep = s.writep /\ t.sizep = s.sizep
      BY <2>1, <2>5
      DEF ClientStep, ClientConnects, ClientWaits, ClientConnected, ClientWritten,
          ClientCloses, ClientStoresClose, ClientClosed, ClientMoves, SameStream,
          ClientSock
    <3> QED
      BY <1>4, <3>1
  <2> QED
    BY <2>2, <2>3, <2>4, <2>5
<1>6. CASE ClientReceives
  <2>1. /\ RxMoves(sender) /\ rx'[sender].fd = FirstFd
        /\ ~Pops(sender) => rx[sender].fd = FirstFd /\ rx[sender].pc # "pop"
    BY <1>6, RxFd, Hypothesis DEF ClientReceives
  <2>2. ~StoresData(sender)
    BY InClientsHand DEF StoresData, FromServer
  <2>3. CASE Acks(sender)
    <3>1. rx[sender].pkt.kind = "ACK" /\ FromServer(rx[sender].pkt)
      BY <2>3, InClientsHand DEF Acks
    <3>2. rx[sender].pkt.ack <= s.sizep
      BY <1>4, <3>1 DEF FromServer
    <3>3. t.writep = rx[sender].pkt.ack /\ t.sizep = s.sizep
      <4>1. rx[sender].fd = FirstFd
        BY <2>1, <2>3, SMTT(40) DEF Acks, Pops
      <4> QED
        BY <2>3, <4>1, SMTT(40) DEF Acks, SameBuffer, ClientSock, ClientFd
    <3> QED
      BY <3>2, <3>3, SMTT(40)
  <2>4. CASE ~Acks(sender)
    <3>1. t.writep = s.writep /\ t.sizep = s.sizep
      BY <2>1, <2>2, <2>4, Zenon
      DEF RxMoves, Pops, Reacts, Stores, Ignores, SameStream, ClientSock, ClientFd
    <3> QED
      BY <1>4, <3>1
  <2> QED
    BY <2>3, <2>4
<1> QED
  BY <1>5, <1>6

\* And so every step.
LEMMA BytesStep ==
  ASSUME OneWay, StreamIInv, IInv', [Next]_vars
  PROVE  BytesInv'
<1> USE DEF StreamIInv, StreamInv
<1>0. Grows
  BY GrowsStep
<1>1. SUFFICES ServerBytes' /\ ClientBytes'
  BY DEF ServerBytes, ClientBytes, BytesInv
<1>2. ASSUME KeepsClient PROVE ClientBytes'
  BY <1>2 DEF KeepsClient, ClientBytes, BytesInv, Closing, ClientSock, ClientFd
<1>3. ASSUME sock'[recver] = sock[recver], app'[recver] = app[recver],
             got'[recver] = got[recver]
      PROVE  ServerBytes'
  <2>1. SameStream(ListenSock', ListenSock) /\ SameStream(ServerSock', ServerSock)
    BY <1>3 DEF SameStream, ListenSock, ServerSock
  <2>2. Accepts' => Accepts
    BY <1>3 DEF Accepts
  <2> QED
    BY <1>0, <1>3, <2>1, <2>2, ServerBytesKept
<1>4. CASE ClientActs \/ ClientReceives
  BY <1>3, <1>4, ClientActsBytes DEF ClientActs, ClientReceives, KeepsServer
<1>5. CASE ServerActs \/ ServerReceives
  BY <1>2, <1>5, ServerActsBytes, ServerReceivesBytes DEF ServerActs, ServerReceives
<1>6. CASE ClientArrival
  BY <1>2, <1>3, <1>6, ArrivalGrows DEF ClientArrival, KeepsServer
<1>7. CASE ServerArrival
  BY <1>2, <1>7, ServerArrivalBytes, ArrivalGrows
<1>8. CASE ServerDies \/ Faulty \/ UNCHANGED vars
  BY <1>2, <1>3, <1>8, QuietSteps
<1> QED
  BY <1>4, <1>5, <1>6, <1>7, <1>8, Steps
-----------------------------------------------------------------------------
(* The death of a process, the initial states, and the whole invariant. *)

\* A process that dies had no socket listening.
LEMMA DeathStep ==
  ASSUME OneWay, StreamIInv, IInv', [Next]_vars
  PROVE  DeathInv'
<1> USE DEF StreamIInv, StreamInv
<1>1. CASE ClientActs \/ ClientReceives \/ ClientArrival
  BY <1>1 DEF ClientActs, ClientReceives, ClientArrival, KeepsServer, DeathInv
<1>2. CASE ServerActs \/ ServerReceives \/ ServerArrival
  <2>1. up[recver] /\ up' = up
    BY <1>2, ServerArrives, Zenon
    DEF ServerActs, ServerStep, ServerFrame, ServerReceives, RxMoves, Pops, Reacts,
        Stores, Ignores, StoresData, Acks, Idles, RxFrame
  <2> QED
    BY <2>1, SMTT(40) DEF DeathInv
<1>3. CASE ServerDies
  <2>1. PICK g \in Host : RecvUnmatchedPacket(g, recver)
    BY <1>3 DEF ServerDies
  <2>2. PICK p : p = Head(wire[g][recver])
    OBVIOUS
  <2>3. /\ wire[g][recver] # <<>> /\ wire[g][recver] \in Seq(SafePacket)
        /\ Destination(recver, p) \notin Fd /\ sock' = sock
    <3>1. recver \in Host
      BY Hypothesis
    <3> QED
      BY <2>1, <2>2, <3>1 DEF RecvUnmatchedPacket, IInv, TypeOK
  <2>4. p = wire[g][recver][1] /\ 1 \in DOMAIN wire[g][recver]
    BY <2>2, <2>3
  <2>5. FromClient(p)
    BY <2>4, PendingIs DEF PacketsInv
  <2>6. \A f \in Fd : sock[recver][f].status # "LISTEN"
    BY <2>3, <2>5, ServerDestination DEF IInv
  <2> QED
    BY <2>3, <2>6 DEF DeathInv
<1>4. CASE Faulty \/ UNCHANGED vars
  <2>1. sock' = sock /\ up' = up
    BY <1>4 DEF Faulty, Lose, Duplicate, Reorder, Fault, vars
  <2> QED
    BY <2>1 DEF DeathInv
<1> QED
  BY <1>1, <1>2, <1>3, <1>4, Steps

\* The initial states.
LEMMA StreamInit ==
  ASSUME OneWay, Init
  PROVE  StreamInv
<1>1. /\ FirstFd \in Fd /\ ServerFd \in Fd /\ ServerFd # FirstFd
      /\ sender \in Host /\ recver \in Host /\ sender # recver
      /\ Len(Script[sender]) \in Nat /\ Len(Script[sender]) >= 3
      /\ NoEndpoint # cport
  BY Hypothesis DEF OneWay, ClientScript
<1>2. /\ \A h \in Host : \A f \in Fd : sock[h][f] = NoSocket
      /\ \A h \in Host : \A f \in Fd : queue[h][f] = <<>>
      /\ \A h \in Host : \A g \in Host : wire[g][h] = <<>>
      /\ \A h \in Host : /\ app[h].ip = 1 /\ app[h].pc = "call" /\ app[h].cv = "conn"
                         /\ app[h].lfd = FirstFd /\ app[h].cfd = FirstFd
      /\ \A h \in Host : rx[h].pc = "pop"
      /\ \A h \in Host : up[h]
      /\ Received = <<>>
  BY <1>1 DEF Init, Received
<1>3. /\ ClientSock = NoSocket /\ ServerSock = NoSocket /\ ListenSock = NoSocket
  BY <1>1, <1>2 DEF ClientSock, ClientFd, ServerSock, ListenSock
<1>4. /\ NoSocket.status = "FREE" /\ NoSocket.role = "none" /\ NoSocket.ready = {}
      /\ NoSocket.remote = NoEndpoint /\ NoSocket.readp = 0 /\ NoSocket.sizep = 0
      /\ NoSocket.writep = 0 /\ NoSocket.databuf = [i \in 0 .. (BufSize - 1) |-> Zero]
  BY DEF NoSocket
<1> HIDE DEF NoSocket
<1>5. CallsInv
  BY <1>2 DEF CallsInv, InCall, Waits
<1>6. ~Connected /\ ~Answered /\ ~Taken /\ ~Closing /\ Accepts
  BY <1>1, <1>2, <1>3, <1>4
  DEF Connected, Answered, Committed, Taken, Closing, Accepts, ClientSock, ClientFd
<1>7. ClientInv
  BY <1>1, <1>2, <1>3, <1>4, <1>6 DEF ClientInv
<1>8. ServerInv
  BY <1>1, <1>2, <1>3, <1>4, <1>6 DEF ServerInv
<1>9. PacketsInv
  <2>1. Pending(sender) = {} /\ Pending(recver) = {}
    BY <1>1, <1>2 DEF Pending, OnWires, InQueues, InHand
  <2> QED
    BY <2>1 DEF PacketsInv
<1>10. HandshakeInv
  BY <1>1, <1>2, <1>3, <1>4, <1>6 DEF HandshakeInv, Waits
<1>11. RxInv
  BY <1>1, <1>2 DEF RxInv
<1>12. BytesInv
  <2>1. ClientSock.sizep = 0 /\ ClientSock.writep = 0
    BY <1>3, <1>4
  <2>2. Copies(NoSocket)
    BY <1>4, <2>1 DEF Copies
  <2>3. Len(Received) = 0
    BY <1>2
  <2> QED
    BY <1>3, <1>4, <2>1, <2>2, <2>3 DEF BytesInv
<1>13. DeathInv
  BY <1>1, <1>2 DEF DeathInv
<1> QED
  BY <1>5, <1>7, <1>8, <1>9, <1>10, <1>11, <1>12, <1>13 DEF StreamInv

\* Between the two programs of a OneWay script the whole invariant holds, for
\* every loss, repetition and reordering, every race and every content of what
\* malloc returns.
THEOREM StreamInductive ==
  ASSUME OneWay
  PROVE  Spec => []StreamIInv
<1>1. Init => StreamInv
  BY StreamInit
<1>2. StreamIInv /\ IInv' /\ [Next]_vars => StreamInv'
  BY CallsStep, ClientInvStep, ServerInvStep, PacketsStep, HandshakeStep, RxInvStep,
     BytesStep, DeathStep DEF StreamInv
<1>3. Spec => []IInv
  BY Inductive
<1>4. StreamIInv <=> IInv /\ StreamInv
  BY DEF StreamIInv
<1> QED
  BY <1>1, <1>2, <1>3, <1>4, PTL DEF Spec
-----------------------------------------------------------------------------
(* What the invariant says of the connection. *)

\* Whatever the network loses, duplicates and reorders, whatever the scripts
\* write and read and the threads race for, a byte that read() returns is the
\* byte written at its place or the zero of a gap.
THEOREM ReadsNoWrongByte ==
  ASSUME OneWay
  PROVE  Spec => []NoWrongByte
<1>1. StreamIInv => NoWrongByte
  <2> SUFFICES ASSUME StreamIInv, NEW k \in DOMAIN Received
               PROVE  k <= Len(Sent) /\ Received[k] \in {Zero, Sent[k]}
    BY DEF NoWrongByte
  <2>1. Received \in Seq(Content)
    BY Hypothesis DEF StreamIInv, IInv, TypeOK, Received
  <2>2. k \in 1 .. Len(Received) /\ k \in Nat /\ k >= 1
    BY <2>1
  <2>3. k <= ClientSock.sizep /\ Received[k] \in {Zero, ClientSock.databuf[k - 1]}
    BY <2>2 DEF StreamIInv, StreamInv, BytesInv
  <2>4. PICK m : m = ClientSock.sizep
    OBVIOUS
  <2>5. m \in Nat
    BY <2>4, SocketBounds DEF StreamIInv, IInv
  <2>6. Sent = [j \in 1 .. m |-> ClientSock.databuf[0 + j - 1]]
    BY <2>4 DEF Sent, Slice
  <2>7. k \in 1 .. m /\ 0 + k - 1 = k - 1
    BY <2>2, <2>3, <2>4, <2>5
  <2>8. Len(Sent) = m
    BY <2>5, <2>6
  <2>9. Sent[k] = ClientSock.databuf[k - 1]
    BY <2>6, <2>7
  <2> QED
    BY <2>3, <2>4, <2>8, <2>9
<1> QED
  BY <1>1, StreamInductive, PTL

\* With the same faults, the program that dies is the server, by a SYN that
\* finds no listening socket: no other packet and no call is fatal.
THEOREM OnlyStraySynKills ==
  ASSUME OneWay
  PROVE  Spec => []DiesOnlyOnStraySyn
<1>1. StreamIInv => DiesOnlyOnStraySyn
  BY DEF StreamIInv, StreamInv, ClientInv, DeathInv, DiesOnlyOnStraySyn
<1> QED
  BY <1>1, StreamInductive, PTL

\* Before accept() the buffer of the socket it will make is empty.
Untouched ==
  Accepts => \A i \in 0 .. (BufSize - 1) : ServerSock.databuf[i] = Zero

\* What changes the bytes of the server's socket: accept() and the storing of a
\* data segment.
LEMMA BytesStored ==
  ASSUME OneWay, StreamIInv, IInv', [Next]_vars
  PROVE  \/ ServerSock'.databuf = ServerSock.databuf /\ (Accepts' => Accepts)
         \/ Accepts /\ ~Accepts'
         \/ /\ StoresData(recver) /\ rx[recver].fd = ServerFd
            /\ FromClient(rx[recver].pkt) /\ ~Accepts /\ ~Accepts'
            /\ rx[recver].pkt \in SafePacket
<1> USE DEF StreamIInv, StreamInv, IInv
<1>1. FirstFd \in Fd /\ ServerFd \in Fd /\ ServerFd # FirstFd /\ recver \in Host
      /\ app[recver].ip \in Nat
  BY Hypothesis DEF TypeOK, AppThread
<1>2. CASE ClientActs \/ ClientReceives \/ ClientArrival
  BY <1>2 DEF ClientActs, ClientReceives, ClientArrival, KeepsServer, ServerSock, Accepts
<1>3. CASE ServerActs
  <2>1. Accepts' => Accepts
    BY <1>1, <1>3, SMTT(40)
    DEF ServerActs, ServerStep, ServerSocket, ServerBinds, ServerAccepts,
        ServerDemotes, ServerPromotes, ServerWaits, ServerAwaitsAck, ServerAccepted,
        ServerReads, ServerHasRead, ServerCloses, ServerClosed, ServerMoves, AppTo,
        Accepts, Waits
  <2>2. ServerAccepts => Accepts /\ ~Accepts'
    BY <1>1 DEF ServerAccepts, Accepts
  <2>3. ~ServerAccepts => ServerSock'.databuf = ServerSock.databuf
    BY <1>1, <1>3, Zenon
    DEF ServerActs, ServerStep, ServerSocket, ServerBinds, ServerDemotes,
        ServerPromotes, ServerWaits, ServerAwaitsAck, ServerAccepted, ServerReads,
        ServerHasRead, ServerCloses, ServerClosed, ServerMoves, OnlySock, SameStream,
        SameBuffer, ServerSock
  <2> QED
    BY <2>1, <2>2, <2>3, SMTT(40)
<1>4. CASE ServerReceives
  <2>1. RxMoves(recver) /\ (Accepts' <=> Accepts)
    BY <1>4, Zenon DEF ServerReceives, Accepts, RxMoves, Pops, Reacts, Stores, Ignores,
                StoresData, Acks, Notified, AppTo
  <2>2. CASE StoresData(recver) /\ rx[recver].fd = ServerFd
    <3>1. rx[recver].pc # "pop" /\ rx[recver].pkt \in SafePacket
      BY <1>1, <2>2 DEF StoresData, TypeOK, RxThread
    <3> QED
      BY <2>1, <2>2, <3>1, InServersHand
  <2>3. CASE ~(StoresData(recver) /\ rx[recver].fd = ServerFd)
    <3>1. ServerSock'.databuf = ServerSock.databuf
      BY <1>1, <2>1, <2>3, Zenon
      DEF RxMoves, Pops, Reacts, Stores, Ignores, StoresData, Acks, SameStream,
          SameBuffer, OnlySock, ServerSock
    <3> QED
      BY <2>1, <3>1, SMTT(40)
  <2> QED
    BY <2>2, <2>3, SMTT(40)
<1>5. CASE ServerArrival
  <2>1. PICK f \in {FirstFd, ServerFd}, p \in SafePacket :
             /\ IF p.kind = "SYN"
                THEN /\ SameStream(sock'[recver][f], sock[recver][f])
                     /\ OnlySock(recver, f)
                ELSE sock' = sock
             /\ app' = app
    BY <1>5, ServerArrives
  <2> QED
    BY <1>1, <2>1 DEF SameStream, OnlySock, ServerSock, Accepts
<1>6. CASE ServerDies \/ Faulty \/ UNCHANGED vars
  BY <1>6, QuietSteps DEF ServerSock, Accepts
<1> QED
  BY <1>2, <1>3, <1>4, <1>5, <1>6, Steps

\* The buffer of the socket that accept() will make stays empty until then.
LEMMA UntouchedStep ==
  ASSUME OneWay, StreamIInv, IInv', [Next]_vars, Untouched
  PROVE  Untouched'
  BY BytesStored DEF Untouched

\* A byte that has arrived at the accepted socket stays what it is.
LEMMA BytesStay ==
  ASSUME OneWay, StreamIInv, IInv', [Next]_vars, Untouched
  PROVE  \A i \in 0 .. (BufSize - 1) :
           ServerSock.databuf[i] # Zero => ServerSock'.databuf[i] = ServerSock.databuf[i]
<1>1. BufSize \in Nat /\ ServerSock.databuf \in [0 .. (BufSize - 1) -> Content]
  <2>1. TypeOK
    BY DEF StreamIInv, IInv
  <2> QED
    BY <2>1, SocketBounds
<1> SUFFICES ASSUME NEW i \in 0 .. (BufSize - 1), ServerSock.databuf[i] # Zero
             PROVE  ServerSock'.databuf[i] = ServerSock.databuf[i]
  BY <1>1
<1>2. ~Accepts
  BY DEF Untouched
<1>3. CASE ServerSock'.databuf = ServerSock.databuf
  BY <1>3
<1>4. CASE StoresData(recver) /\ rx[recver].fd = ServerFd
           /\ FromClient(rx[recver].pkt) /\ rx[recver].pkt \in SafePacket
  <2>1. PICK n, d : n = rx[recver].pkt.seq /\ d = rx[recver].pkt.data
    BY Zenon
  <2>2. /\ ServerSock'.databuf = CopyIn(ServerSock.databuf, n, d)
        /\ rx[recver].pkt.kind = "DATA"
    BY <1>4, <2>1, Hypothesis DEF StoresData, ServerSock
  <2>3. /\ n \in Nat /\ d \in Seq(Content)
        /\ \A k \in 1 .. Len(d) : d[k] = ClientSock.databuf[n + k - 1]
    BY <1>4, <2>1, <2>2, Zenon DEF FromClient, SafePacket, Packet
  <2>4. ServerSock.databuf[i] = ClientSock.databuf[i]
    BY DEF StreamIInv, StreamInv, BytesInv, Copies
  <2>5. CASE n <= i /\ i < n + Len(d)
    <3>1. Len(d) \in Nat
      BY <2>3
    <3>2. i - n + 1 \in 1 .. Len(d) /\ n + (i - n + 1) - 1 = i
      BY <1>1, <2>3, <2>5, <3>1
    <3>3. ServerSock'.databuf[i] = d[i - n + 1]
      BY <1>1, <2>2, <2>5 DEF CopyIn
    <3>4. d[i - n + 1] = ClientSock.databuf[n + (i - n + 1) - 1]
      BY <2>3, <3>2
    <3> QED
      BY <2>4, <3>2, <3>3, <3>4
  <2>6. CASE ~(n <= i /\ i < n + Len(d))
    BY <1>1, <2>2, <2>6 DEF CopyIn
  <2> QED
    BY <2>5, <2>6
<1> QED
  BY <1>2, <1>3, <1>4, BytesStored

\* With the same faults, nothing that arrives later changes a byte that has
\* arrived at the accepted socket.
THEOREM ArrivedBytesAreFinal ==
  ASSUME OneWay
  PROVE  Spec => ArrivedIsFinal
<1> DEFINE Kept == \A i \in DOMAIN ServerSock.databuf :
                     ServerSock.databuf[i] # Zero =>
                       ServerSock.databuf'[i] = ServerSock.databuf[i]
<1>1. Init => Untouched
  <2> SUFFICES ASSUME Init PROVE Untouched
    OBVIOUS
  <2>1. ServerSock = NoSocket
    BY Hypothesis DEF Init, ServerSock
  <2> QED
    BY <2>1 DEF Untouched, NoSocket
<1>2. ASSUME StreamIInv, IInv', [Next]_vars, Untouched PROVE Untouched'
  BY <1>2, UntouchedStep
<1>3. ASSUME StreamIInv, IInv', [Next]_vars, Untouched PROVE Kept
  <2>1. ServerSock.databuf' = ServerSock'.databuf
    OBVIOUS
  <2>2. ServerSock.databuf \in [0 .. (BufSize - 1) -> Content]
    BY <1>3, SocketBounds DEF StreamIInv, IInv
  <2>3. \A i \in 0 .. (BufSize - 1) : ServerSock.databuf[i] # Zero =>
          ServerSock'.databuf[i] = ServerSock.databuf[i]
    BY <1>3, BytesStay
  <2>4. DOMAIN ServerSock.databuf = 0 .. (BufSize - 1)
    BY <2>2
  <2> HIDE DEF ServerSock
  <2> QED
    BY <2>1, <2>3, <2>4
<1>4. (StreamIInv => IInv) /\ (ArrivedIsFinal <=> [][Kept]_vars)
  BY DEF StreamIInv, ArrivedIsFinal
<1>5. Kept => [Kept]_vars
  OBVIOUS
<1> HIDE DEF Kept
<1> QED
  BY <1>1, <1>2, <1>3, <1>4, <1>5, StreamInductive, PTL DEF Spec

\* No program runs past the end of its script.
WithinScript == \A h \in Host : app[h].ip <= Len(Script[h]) + 1

\* It moves on at a return alone.
LEMMA WithinScriptStep ==
  ASSUME OneWay, StreamIInv, IInv', [Next]_vars, WithinScript
  PROVE  WithinScript'
<1> USE DEF StreamIInv, StreamInv, IInv
<1>1. /\ Host = {sender, recver} /\ sender # recver
      /\ \A h \in Host : app[h].ip \in Nat /\ Len(Script[h]) \in Nat
      /\ Len(Script[sender]) >= 3 /\ Len(Script[recver]) >= 4
  BY Hypothesis, Zenon DEF TypeOK, AppThread, OneWay, ClientScript, ServerScript
<1>2. SUFFICES \A h \in Host : app'[h].ip = app[h].ip \/ app'[h].ip <= Len(Script[h]) + 1
  BY DEF WithinScript
<1>3. CASE ClientActs
  <2>1. app'[recver].ip = app[recver].ip
    BY <1>3, <1>1 DEF ClientActs, KeepsServer
  <2>2. /\ app[sender].pc # "call" => app[sender].ip <= Len(Script[sender])
        /\ app[sender].pc = "spin" => app[sender].ip <= Len(Script[sender]) - 1
    BY <1>1, ClientCalls, SMTT(40)
  <2>3. app'[sender].ip = app[sender].ip \/ app'[sender].ip <= Len(Script[sender]) + 1
    BY <1>1, <1>3, <2>2
    DEF ClientActs, ClientStep, ClientSocket, ClientConnects, ClientWaits,
        ClientConnected, ClientAppends, ClientSends, ClientWritten, ClientCloses,
        ClientStoresClose, ClientClosed, ClientMoves, AppTo
  <2> QED
    BY <1>1, <2>1, <2>3
<1>4. CASE ServerActs
  <2>1. app'[sender].ip = app[sender].ip
    BY <1>4, <1>1 DEF ServerActs, KeepsClient
  <2>2. app[recver].pc # "call" => app[recver].ip <= Len(Script[recver])
    BY <1>1, ServerCalls, SMTT(40)
  <2>3. app'[recver].ip = app[recver].ip \/ app'[recver].ip <= Len(Script[recver]) + 1
    BY <1>1, <1>4, <2>2, SMTT(40)
    DEF ServerActs, ServerStep, ServerSocket, ServerBinds, ServerAccepts,
        ServerDemotes, ServerPromotes, ServerWaits, ServerAwaitsAck, ServerAccepted,
        ServerReads, ServerHasRead, ServerCloses, ServerClosed, ServerMoves, AppTo
  <2> QED
    BY <1>1, <2>1, <2>3
<1>5. CASE ClientReceives \/ ServerReceives
  BY <1>1, <1>5, Zenon
  DEF ClientReceives, ServerReceives, KeepsServer, KeepsClient, RxMoves, Pops, Reacts,
      Stores, Ignores, StoresData, Acks, Notified, AppTo
<1>6. CASE ClientArrival \/ ServerArrival \/ ServerDies \/ Faulty \/ UNCHANGED vars
  BY <1>6, ArrivalGrows, QuietSteps
<1> QED
  BY <1>3, <1>4, <1>5, <1>6, Steps

\* Where the server's memory is zeroed, accept() returns a socket whose peer has
\* finished the handshake and has the two addresses the other way round, with
\* every fault and race. (With what malloc leaves in acc_ack_ready it returns
\* before the ACK.)
THEOREM AcceptedHasPeer ==
  ASSUME OneWay, Garbage = {FALSE}
  PROVE  Spec => []AcceptAgreement
<1>1. Init => WithinScript
  <2>1. \A h \in Host : Len(Script[h]) \in Nat
    BY Hypothesis
  <2> QED
    BY <2>1 DEF Init, WithinScript
<1>2. ASSUME StreamIInv, IInv', [Next]_vars, WithinScript PROVE WithinScript'
  BY <1>2, WithinScriptStep
<1>3. ASSUME StreamIInv, WithinScript PROVE AcceptAgreement
  <2> USE <1>3 DEF StreamIInv, StreamInv
  <2> SUFFICES ASSUME NEW h \in Host, JustAccepted(h)
               PROVE  /\ Conn(h).status \in {"ESTAB", "LASTACK", "CLOSED"}
                      /\ \E g \in Host, f \in Fd :
                           /\ sock[g][f].local = Conn(h).remote
                           /\ sock[g][f].remote = Conn(h).local
                           /\ Committed(g, f) \notin {"FREE", "NONE", "SYNSENT"}
    BY DEF AcceptAgreement
  <2>1. /\ app[h].ip \in Nat \ {0} /\ app[h].ip > 1 /\ app[h].ip <= Len(Script[h]) + 1
        /\ Len(Script[h]) \in Nat /\ h \in {sender, recver}
        /\ Script[h][app[h].ip - 1].op = "accept"
    BY Hypothesis, Zenon DEF IInv, TypeOK, AppThread, WithinScript, JustAccepted
  <2>2. PICK k : k = app[h].ip - 1
    OBVIOUS
  <2>3. k \in 1 .. Len(Script[h]) /\ app[h].ip = k + 1 /\ Script[h][k].op = "accept"
    BY <2>1, <2>2
  <2>4. h = recver /\ k = 3
    <3>1. h # sender
      <4>1. ASSUME h = sender PROVE FALSE
        <5>1. \/ k = 1 \/ k = 2 \/ k \in 3 .. (Len(Script[sender]) - 1)
              \/ k = Len(Script[sender])
          BY <2>1, <2>3, <4>1
        <5> QED
          BY <2>3, <4>1, <5>1 DEF OneWay, ClientScript
      <4> QED
        BY <4>1
    <3>2. \/ k = 1 \/ k = 2 \/ k = 3 \/ k \in 4 .. (Len(Script[recver]) - 1)
          \/ k = Len(Script[recver])
      BY <2>1, <2>3, <3>1
    <3> QED
      BY <2>1, <2>3, <3>1, <3>2, Zenon DEF OneWay, ServerScript
  <2>5. app[recver].ip = 4 /\ ~Accepts
    BY <2>3, <2>4 DEF Accepts
  <2>6. Conn(recver) = ServerSock /\ IsServer(ServerSock)
    BY <2>5 DEF ServerInv, Conn, ServerSock
  <2>7. /\ "syn" \in ServerSock.ready /\ "ack" \in ServerSock.ready
    BY <2>5 DEF HandshakeInv
  <2>8. Taken /\ Answered /\ ServerSock.status \in {"ESTAB", "LASTACK", "CLOSED"}
    BY <2>7 DEF HandshakeInv
  <2>9. /\ ServerSock.remote = cport /\ ServerSock.local = sport
        /\ ClientSock.local = cport /\ ClientSock.remote = sport
    BY <2>6, <2>8 DEF Taken, IsServer, HandshakeInv, ClientInv
  <2>10. sender \in Host /\ FirstFd \in Fd
    BY Hypothesis
  <2> QED
    BY <2>4, <2>6, <2>8, <2>9, <2>10 DEF Answered, ClientSock, ClientFd
<1> QED
  BY <1>1, <1>2, <1>3, StreamInductive, PTL DEF Spec, StreamIInv

-----------------------------------------------------------------------------
(* The server's process lives when its one SYN finds the socket listening. *)

\* Until the server has its peer the SYN is alone on its way; then there is none.
OneSyn ==
  /\ Taken => \A p \in OnWires(recver) : p.kind # "SYN"
  /\ ~Taken =>
       \A g \in Host : wire[g][recver] # <<>> =>
         /\ g = sender /\ Len(wire[g][recver]) = 1
         /\ "start" \notin Races => ServerSock.status = "LISTEN"

\* What is sent without a SYN adds none.
LEMMA NoSynSent ==
  ASSUME TypeOK, OneWay, NEW h \in Host, NEW dst, NEW T, NEW ps \in Seq(T),
         SendTCPPackets(h, dst, ps), \A i \in DOMAIN ps : ps[i].kind # "SYN",
         NEW p \in OnWires(recver)', p.kind = "SYN"
  PROVE  p \in OnWires(recver)
<1>1. PICK g \in Host : \E i \in DOMAIN wire'[g][recver] : p = wire'[g][recver][i]
  BY DEF OnWires
<1>2. CASE dst \in Endpoint
  <2>1. \/ \E j \in DOMAIN wire[g][recver] : p = wire[g][recver][j]
        \/ \E j \in DOMAIN ps : p = ps[j]
    BY <1>1, <1>2, SendWire, Hypothesis, SMTT(40)
  <2> QED
    BY <2>1 DEF OnWires
<1>3. CASE dst \notin Endpoint
  BY <1>1, <1>3 DEF SendTCPPackets, OnWires
<1> QED
  BY <1>2, <1>3

\* What a client sends that has its connection is not a SYN, and no fault makes
\* one of anything else.
LEMMA SynsSent ==
  ASSUME OneWay, StreamIInv, IInv', [Next]_vars, Taken,
         NEW p \in OnWires(recver)', p.kind = "SYN"
  PROVE  p \in OnWires(recver)
<1> USE DEF StreamIInv, StreamInv, IInv
<1>1. sender \in Host /\ recver \in Host
  BY Hypothesis
<1>2. ASSUME wire' = wire PROVE p \in OnWires(recver)
  BY <1>2 DEF OnWires
<1>3. ASSUME NEW h \in Host, NEW dst, NEW q, q.kind # "SYN", SendTCPPackets(h, dst, <<q>>)
      PROVE  p \in OnWires(recver)
  <2>1. PICK ps : ps = <<q>>
    BY Zenon
  <2>2. ps \in Seq({q}) /\ \A i \in DOMAIN ps : ps[i].kind # "SYN"
    BY <1>3, <2>1
  <2> QED
    BY <1>3, <2>1, <2>2, NoSynSent, Zenon
<1>4. ASSUME \A g \in Host : \A i \in DOMAIN wire'[g][recver] :
               \E j \in DOMAIN wire[g][recver] : wire'[g][recver][i] = wire[g][recver][j]
      PROVE  p \in OnWires(recver)
  BY <1>4 DEF OnWires
<1>5. CASE ClientActs
  <2>1. ~ClientConnects
    <3>1. Connected
      BY DEF HandshakeInv
    <3> QED
      BY <3>1 DEF ClientConnects, ClientInv
  <2>2. CASE ClientSends
    <3>1. PICK q : /\ q.kind = "DATA" /\ SendTCPPackets(sender, sport, <<q>>)
      BY <2>2, Zenon DEF ClientSends, Segment
    <3> QED
      BY <1>1, <1>3, <3>1
  <2>3. CASE ClientCloses
    <3>1. PICK q : /\ q.kind = "FIN" /\ SendTCPPackets(sender, sport, <<q>>)
      BY <2>3, Zenon DEF ClientCloses, Segment
    <3> QED
      BY <1>1, <1>3, <3>1
  <2>4. CASE ~ClientSends /\ ~ClientCloses
    BY <1>2, <1>5, <2>1, <2>4
    DEF ClientActs, ClientStep, ClientSocket, ClientWaits, ClientConnected,
        ClientAppends, ClientWritten, ClientStoresClose, ClientClosed, ClientMoves
  <2> QED
    BY <2>2, <2>3, <2>4
<1>6. CASE ServerActs
  BY <1>2, <1>6 DEF ServerActs, ServerStep, ServerFrame
<1>7. ASSUME NEW h \in Host, RxMoves(h) PROVE p \in OnWires(recver)
  <2>1. CASE Pops(h) \/ Stores(h) \/ Ignores(h)
    BY <1>2, <2>1 DEF Pops, Stores, Ignores
  <2>2. CASE Reacts(h)
    <3>1. PICK q, r : q = rx[h].pkt /\ r = rx'[h].rule
      OBVIOUS
    <3>2. PICK ps : ps = [i \in DOMAIN r.send |-> Reply(q, r.send[i])]
      BY Zenon
    <3>3. r \in Rules /\ SendTCPPackets(h, q.src, ps)
      BY <2>2, <3>1, <3>2 DEF Reacts
    <3>4. \A i \in DOMAIN ps : ps[i].kind # "SYN"
      BY <3>2, <3>3, RuleFacts DEF Reply, Segment
    <3>5. ps \in Seq({ps[i] : i \in DOMAIN ps})
      <4>1. DOMAIN r.send = 1 .. Len(r.send) /\ Len(r.send) \in Nat
        BY <3>3, RuleType
      <4> QED
        BY <3>2, <4>1
    <3> QED
      BY <1>7, <3>3, <3>4, <3>5, NoSynSent
  <2>3. CASE StoresData(h)
    <3>1. PICK q, dst : q.kind = "ACK" /\ SendTCPPackets(h, dst, <<q>>)
      BY <2>3, Zenon DEF StoresData, Segment
    <3> QED
      BY <1>3, <1>7, <3>1
  <2>4. CASE Acks(h)
    <3>1. \/ wire' = wire
          \/ \E q, dst : q.kind = "DATA" /\ SendTCPPackets(h, dst, <<q>>)
      BY <2>4, Zenon DEF Acks, Segment
    <3> QED
      BY <1>2, <1>3, <1>7, <3>1, Zenon
  <2> QED
    BY <1>7, <2>1, <2>2, <2>3, <2>4 DEF RxMoves
<1>8. ASSUME NEW g \in Host, NEW h \in Host, Arrival(g, h) PROVE p \in OnWires(recver)
  <2>1. Arrives(g, h) /\ wire[g][h] # <<>>
    BY <1>8, Zenon DEF Arrival
  <2> QED
    BY <1>1, <1>4, <1>8, <2>1, ArrivesPending
<1>9. CASE ServerDies \/ Faulty
  <2>1. PICK g \in Host, h \in Host :
          \/ RecvUnmatchedPacket(g, h)
          \/ Lose(g, h) \/ Duplicate(g, h) \/ Reorder(g, h)
    BY <1>1, <1>9 DEF ServerDies, Faulty
  <2> QED
    BY <1>1, <1>4, <2>1, FaultWire
<1> QED
  BY <1>1, <1>2, <1>5, <1>6, <1>7, <1>8, <1>9, Steps
  DEF ClientReceives, ServerReceives, ClientArrival, ServerArrival, vars

\* A fault that repeats nothing makes no wire longer.
LEMMA FaultLength ==
  ASSUME TypeOK, NEW g \in Host, NEW h \in Host, Lose(g, h) \/ Reorder(g, h),
         NEW e \in Host, NEW k \in Host
  PROVE  /\ Len(wire'[e][k]) <= Len(wire[e][k])
         /\ wire'[e][k] # <<>> => wire[e][k] # <<>>
<1>1. \A a \in Host : \A b \in Host : wire[a][b] \in Seq(SafePacket)
  BY DEF TypeOK
<1>2. PICK w \in Seq(SafePacket) : w = wire[g][h]
  BY <1>1
<1>3. CASE Lose(g, h)
  <2>1. PICK m \in DOMAIN w : wire' = [wire EXCEPT ![g][h] = RemoveAt(w, m)]
    BY <1>2, <1>3, Zenon DEF Lose
  <2>2. m \in 1 .. Len(w) /\ Len(w) \in Nat
    BY <2>1
  <2>3. Len(RemoveAt(w, m)) = Len(w) - 1 /\ w # <<>>
    BY <2>2, Removed
  <2>4. wire'[e][k] = IF e = g /\ k = h THEN RemoveAt(w, m) ELSE wire[e][k]
    BY <2>1, Zenon DEF TypeOK
  <2>5. Len(wire[e][k]) \in Nat
    BY <1>1
  <2> QED
    BY <1>2, <2>2, <2>3, <2>4, <2>5
<1>4. CASE Reorder(g, h)
  <2>1. PICK m \in DOMAIN w :
          wire' = [wire EXCEPT ![g][h][m] = w[m + 1], ![g][h][m + 1] = w[m]]
    BY <1>2, <1>4, Zenon DEF Reorder
  <2>2. PICK v : v = [w EXCEPT ![m] = w[m + 1], ![m + 1] = w[m]]
    BY Zenon
  <2>3. Len(v) = Len(w) /\ w # <<>>
    BY <2>1, <2>2
  <2>4. wire'[e][k] = IF e = g /\ k = h THEN v ELSE wire[e][k]
    BY <1>2, <2>1, <2>2, Zenon DEF TypeOK
  <2>5. Len(wire[e][k]) \in Nat
    BY <1>1
  <2> QED
    BY <1>2, <2>3, <2>4, <2>5
<1> QED
  BY <1>3, <1>4

\* Before the SYN arrives it is alone on the wires to the server.
LEMMA UntakenWires ==
  ASSUME OneWay, "duplicate" \notin Faults,
         StreamIInv, IInv', [Next]_vars, OneSyn, ~Taken, ~ServerDies
  PROVE  OneSyn'
<1>0. /\ \A n \in Nat : n >= 4 => n # 3
      /\ \A n, m \in Nat : n <= m /\ m = 1 /\ n # 0 => n = 1
  OBVIOUS
<1> USE DEF StreamIInv, StreamInv, IInv
<1> DEFINE OnlySyn == \A g \in Host : wire'[g][recver] # <<>> =>
                        /\ g = sender /\ Len(wire'[g][recver]) = 1
                        /\ "start" \notin Races => ServerSock.status = "LISTEN"
<1>1. /\ Host = {sender, recver} /\ sender \in Host /\ recver \in Host
      /\ sender # recver /\ FirstFd \in Fd /\ ServerFd \in Fd
      /\ sport \in Endpoint /\ HostOf[sport] = recver
  BY Hypothesis
<1>2. \A g \in Host : \A h \in Host : wire[g][h] \in Seq(SafePacket)
                                      /\ wire'[g][h] \in Seq(SafePacket)
  BY DEF TypeOK
<1>3. \A p \in Pending(recver) : Connected /\ p.kind = "SYN"
  BY DEF PacketsInv, FromClient, HandshakeInv
<1>4. \A p \in Pending(sender) : FALSE
  BY DEF PacketsInv, FromServer
<1>5. ~Answered /\ app[sender].ip <= 2
  <2>1. ~Answered /\ app[sender].ip \in Nat
    BY <1>1 DEF HandshakeInv, TypeOK, AppThread
  <2> QED
    BY <2>1 DEF ClientInv
<1>6. \A g \in Host : wire[g][recver] # <<>> =>
        /\ g = sender /\ Len(wire[g][recver]) = 1
        /\ "start" \notin Races => ServerSock.status = "LISTEN"
  BY DEF OneSyn
<1>7. ASSUME \A g \in Host : wire'[g][recver] = <<>> PROVE OneSyn'
  BY <1>7 DEF OneSyn, OnWires
<1>8. ASSUME sock'[recver] = sock[recver], OnlySyn PROVE OneSyn'
  BY <1>8 DEF OneSyn, Taken, ServerSock
<1> HIDE DEF OnlySyn
<1>9. ASSUME wire' = wire PROVE OnlySyn
  BY <1>6, <1>9 DEF OnlySyn
<1>10. CASE ClientActs
  <2>1. sock'[recver] = sock[recver]
    BY <1>10 DEF ClientActs, KeepsServer
  <2>2. CASE ClientConnects
    <3>1. ~Connected
      BY <2>2 DEF ClientConnects, ClientInv
    <3>2. \A g \in Host : wire[g][recver] = <<>>
      <4>1. ASSUME NEW g \in Host, wire[g][recver] # <<>> PROVE FALSE
        <5>1. wire[g][recver] \in Seq(SafePacket) /\ wire[g][recver] # <<>>
          BY <1>1, <1>2, <4>1
        <5>2. 1 \in DOMAIN wire[g][recver]
          BY <5>1
        <5>3. wire[g][recver][1] \in Pending(recver)
          BY <4>1, <5>2, PendingIs
        <5> QED
          BY <1>3, <3>1, <5>3
      <4> QED
        BY <4>1
    <3>3. ASSUME "start" \notin Races PROVE ServerSock.status = "LISTEN"
      <4>1. PICK f \in Fd : sock[recver][f].status = "LISTEN"
        BY <1>1, <2>2, <3>3 DEF ClientConnects, Listening
      <4>2. app[recver].ip \in Nat \ {0} /\ app[recver].ip <= 3
        <5>1. app[recver].ip \in Nat \ {0}
          BY <1>1 DEF TypeOK, AppThread
        <5>2. ~(app[recver].ip > 3)
          BY DEF HandshakeInv
        <5> QED
          BY <5>1, <5>2
      <4>3. f # FirstFd
        <5>1. ListenSock.status # "LISTEN"
          BY <4>2 DEF ServerInv, Fresh
        <5> QED
          BY <4>1, <5>1 DEF ListenSock
      <4> QED
        BY <4>1, <4>3 DEF ServerInv, ServerSock
    <3>4. PICK q : SendTCPPackets(sender, sport, <<q>>)
      BY <2>2, Zenon DEF ClientConnects
    <3>5. wire' = [wire EXCEPT ![sender][recver] = wire[sender][recver] \o <<q>>]
      BY <1>1, <3>4 DEF SendTCPPackets
    <3>6. wire[sender][recver] \o <<q>> = <<q>>
      <4>1. wire[sender][recver] = <<>>
        BY <1>1, <3>2
      <4>2. <<>> \o <<q>> = <<q>>
        OBVIOUS
      <4> QED
        BY <4>1, <4>2
    <3>7. wire'[sender][recver] = <<q>> /\ wire'[recver][recver] = <<>>
      BY <1>1, <3>2, <3>5, <3>6, Zenon DEF TypeOK
    <3>8. Len(<<q>>) = 1
      OBVIOUS
    <3> QED
      BY <1>1, <1>8, <2>1, <3>3, <3>7, <3>8, Zenon DEF OnlySyn
  <2>3. CASE ~ClientConnects
    <3>1. ~ClientSends /\ ~ClientCloses
      <4>1. Len(Script[sender]) >= 3 /\ Len(Script[sender]) \in Nat
            /\ app[sender].ip \in Nat
        BY <1>1, Hypothesis, Zenon DEF OneWay, ClientScript, TypeOK, AppThread
      <4> QED
        BY <1>5, <4>1 DEF ClientSends, ClientCloses
    <3>2. wire' = wire
      BY <1>10, <2>3, <3>1
      DEF ClientActs, ClientStep, ClientSocket, ClientWaits, ClientConnected,
          ClientAppends, ClientWritten, ClientStoresClose, ClientClosed, ClientMoves
    <3> QED
      BY <1>8, <1>9, <2>1, <3>2
  <2> QED
    BY <2>2, <2>3
<1>11. CASE ServerActs
  <2>1. wire' = wire /\ ServerStep
    BY <1>11 DEF ServerActs, ServerStep, ServerFrame
  <2>2. CASE "start" \in Races
    <3>1. ~Taken'
      BY <1>11, ServerGrows
    <3> QED
      BY <1>6, <2>1, <2>2, <3>1 DEF OneSyn
  <2>3. CASE ServerSock.status = "LISTEN"
    <3>1. ~Accepts /\ app[recver].ip \in Nat \ {0} /\ app[recver].ip = 3
      <4>1. ~Accepts /\ app[recver].ip \in Nat \ {0}
        BY <1>1, <2>3 DEF ServerInv, TypeOK, AppThread
      <4>2. ~(app[recver].ip > 3)
        BY DEF HandshakeInv
      <4> QED
        BY <4>1, <4>2 DEF Accepts
    <3>2. app[recver].pc # "call"
      BY <3>1 DEF Accepts
    <3>3. app[recver].pc \notin {"demote", "promote"}
      BY <2>3, <3>1 DEF ServerInv, Fresh
    <3>4. ~(app[recver].pc = "ready" /\ app[recver].cv \in {"syn", "ack"})
      BY DEF HandshakeInv
    <3> QED
      <4>1. Len(Script[recver]) >= 4 /\ Len(Script[recver]) \in Nat
        BY Hypothesis DEF OneWay, ServerScript
      <4>2. ~ServerSocket /\ ~ServerBinds /\ ~ServerAccepts
        BY <3>1, <3>2 DEF ServerSocket, ServerBinds, ServerAccepts
      <4>3. ~ServerDemotes /\ ~ServerPromotes
        BY <3>3 DEF ServerDemotes, ServerPromotes
      <4>4. ~ServerAwaitsAck /\ ~ServerAccepted
        BY <3>4 DEF ServerAwaitsAck, ServerAccepted
      <4>5. ~ServerReads /\ ~ServerHasRead
        BY <3>1 DEF ServerReads, ServerHasRead
      <4>6. ~ServerCloses /\ ~ServerClosed
        <5>1. app[recver].ip # Len(Script[recver])
          BY <1>0, <3>1, <4>1, Zenon
        <5> QED
          BY <5>1 DEF ServerCloses, ServerClosed
      <4>7. ServerWaits
        BY <2>1, <4>2, <4>3, <4>4, <4>5, <4>6 DEF ServerStep
      <4>8. sock' = sock
        BY <4>7 DEF ServerWaits, ServerMoves
      <4> QED
        BY <1>8, <1>9, <2>1, <4>8
  <2>4. CASE "start" \notin Races /\ ServerSock.status # "LISTEN"
    BY <1>6, <1>7, <2>1, <2>4
  <2> QED
    BY <2>2, <2>3, <2>4
<1>12. ~ClientReceives
  <2>1. ASSUME Pops(sender) PROVE FALSE
    <3>1. PICK f \in Fd : queue[sender][f] # <<>>
      BY <2>1 DEF Pops
    <3>2. queue[sender][f] \in Seq(SafePacket)
      BY <1>1 DEF TypeOK
    <3>3. 1 \in DOMAIN queue[sender][f]
      BY <3>1, <3>2
    <3>4. queue[sender][f][1] \in Pending(sender)
      BY <3>3, PendingIs
    <3> QED
      BY <1>4, <3>4
  <2>2. rx[sender].pc = "pop"
    BY InClientsHand
  <2> QED
    BY <2>1, <2>2
    DEF ClientReceives, RxMoves, Reacts, Stores, Ignores, StoresData, Acks
<1>13. ~ServerReceives
  BY ServerReceivesTaken
<1>14. ~ClientArrival
  <2>1. ASSUME NEW g \in Host, Arrival(g, sender) PROVE FALSE
    <3>1. wire[g][sender] \in Seq(SafePacket) /\ wire[g][sender] # <<>>
      BY <1>1, <1>2, <2>1, Zenon DEF Arrival
    <3>2. 1 \in DOMAIN wire[g][sender]
      BY <3>1
    <3>3. wire[g][sender][1] \in Pending(sender)
      BY <2>1, <3>2, PendingIs
    <3> QED
      BY <1>4, <3>3, SMTT(40)
  <2> QED
    BY <2>1 DEF ClientArrival
<1>15. CASE ServerArrival
  <2>1. PICK g \in Host : Arrival(g, recver)
    BY <1>15, SMTT(40) DEF ServerArrival
  <2>2. wire' = [wire EXCEPT ![g][recver] = Tail(wire[g][recver])] /\ wire[g][recver] # <<>>
    BY <2>1, Zenon DEF Arrival, Arrives
  <2>3. g = sender /\ Len(wire[g][recver]) = 1 /\ wire[recver][recver] = <<>>
    BY <1>1, <1>6, <2>2
  <2>4. Tail(wire[g][recver]) = <<>>
    <3>1. PICK w \in Seq(SafePacket) : w = wire[g][recver]
      BY <1>1, <1>2
    <3>2. Len(w) = 1
      BY <2>3, <3>1
    <3>3. Len(Tail(w)) = 0 /\ Tail(w) \in Seq(SafePacket)
      BY <3>2
    <3>4. Tail(w) = <<>>
      BY <3>3, EmptySeq, Zenon
    <3> QED
      BY <3>1, <3>4
  <2>5. wire'[sender][recver] = <<>> /\ wire'[recver][recver] = <<>>
    BY <1>1, <2>2, <2>3, <2>4, ZenonT(40) DEF TypeOK
  <2> QED
    BY <1>1, <1>7, <2>5
<1>16. CASE Faulty
  <2>1. PICK e \in Host, h \in Host : Lose(e, h) \/ Reorder(e, h)
    BY <1>16 DEF Faulty, Duplicate, Fault
  <2>2. ASSUME NEW g \in Host, wire'[g][recver] # <<>>
        PROVE  wire[g][recver] # <<>> /\ Len(wire'[g][recver]) <= Len(wire[g][recver])
    BY <1>1, <2>1, <2>2, FaultLength
  <2>3. OnlySyn
    <3>1. ASSUME NEW g \in Host, wire'[g][recver] # <<>>
          PROVE  /\ g = sender /\ Len(wire'[g][recver]) = 1
                 /\ "start" \notin Races => ServerSock.status = "LISTEN"
      <4>1. wire[g][recver] # <<>> /\ Len(wire'[g][recver]) <= Len(wire[g][recver])
        BY <2>2, <3>1
      <4>2. /\ g = sender /\ Len(wire[g][recver]) = 1
            /\ "start" \notin Races => ServerSock.status = "LISTEN"
        BY <1>6, <4>1
      <4>3. Len(wire'[g][recver]) \in Nat /\ Len(wire'[g][recver]) # 0
        <5>1. PICK w \in Seq(SafePacket) : w = wire'[g][recver]
          BY <1>1, <1>2
        <5>2. Len(w) \in Nat /\ Len(w) # 0
          BY <3>1, <5>1
        <5> QED
          BY <5>1, <5>2
      <4>4. Len(wire'[g][recver]) = 1
        <5>1. Len(wire[g][recver]) \in Nat
          BY <4>2
        <5> QED
          BY <1>0, <4>1, <4>2, <4>3, <5>1, Zenon
      <4> QED
        BY <4>2, <4>4
    <3> QED
      BY <3>1 DEF OnlySyn
  <2>4. sock' = sock
    BY <1>16, QuietSteps
  <2> QED
    BY <1>8, <2>3, <2>4
<1>17. CASE UNCHANGED vars
  BY <1>8, <1>9, <1>17 DEF vars
<1> QED
  BY <1>10, <1>11, <1>12, <1>13, <1>14, <1>15, <1>16, <1>17, Steps

\* The one SYN is never sent to a host without a listening socket.
LEMMA SynFindsListener ==
  ASSUME OneWay, "start" \notin Races, StreamIInv, OneSyn
  PROVE  ~ServerDies
<1> USE DEF StreamIInv, StreamInv, IInv
<1> SUFFICES ASSUME NEW g \in Host, RecvUnmatchedPacket(g, recver) PROVE FALSE
  BY DEF ServerDies
<1>1. PICK w \in Seq(SafePacket) : w = wire[g][recver]
  <2>1. recver \in Host
    BY Hypothesis
  <2>2. wire[g][recver] \in Seq(SafePacket)
    BY <2>1 DEF TypeOK
  <2> QED
    BY <2>2
<1>2. PICK p : p = Head(w)
  OBVIOUS
<1>3. w # <<>> /\ Destination(recver, p) \notin Fd
  BY <1>1, <1>2 DEF RecvUnmatchedPacket
<1>4. p = w[1] /\ 1 \in DOMAIN w
  BY <1>2, <1>3
<1>5. p \in Pending(recver) /\ p \in OnWires(recver)
  BY <1>1, <1>4, PendingIs DEF OnWires
<1>6. FromClient(p)
  BY <1>5 DEF PacketsInv
<1>7. (\A e \in Fd : sock[recver][e].status # "LISTEN") /\ p.kind = "SYN"
  BY <1>3, <1>6, ServerDestination
<1>8. ServerSock.status # "LISTEN"
  BY <1>7, Hypothesis DEF ServerSock
<1> QED
  BY <1>1, <1>3, <1>5, <1>7, <1>8 DEF OneSyn

\* While the server's process lives its one SYN stays one.
LEMMA OneSynStep ==
  ASSUME OneWay, "duplicate" \notin Faults, StreamIInv, IInv', [Next]_vars,
         OneSyn, ~ServerDies
  PROVE  OneSyn' /\ up'[recver] = up[recver]
<1> USE DEF StreamIInv, StreamInv, IInv
<1>1. up'[recver] = up[recver]
  <2>1. CASE ClientActs \/ ClientReceives
    BY <2>1, SMTT(40) DEF ClientActs, ClientReceives, KeepsServer
  <2>2. CASE ServerActs \/ ServerReceives
    BY <2>2, Zenon
    DEF ServerActs, ServerStep, ServerFrame, ServerReceives, RxMoves, Pops, Reacts,
        Stores, Ignores, StoresData, Acks, Idles, RxFrame
  <2>3. CASE ClientArrival \/ ServerArrival
    BY <2>3, ArrivalGrows
  <2>4. CASE Faulty \/ UNCHANGED vars
    BY <2>4, QuietSteps
  <2> QED
    BY <2>1, <2>2, <2>3, <2>4, Steps
<1>2. CASE Taken
  <2>1. Taken'
    BY <1>2, GrowsStep DEF Grows
  <2>2. \A p \in OnWires(recver)' : p.kind # "SYN"
    BY <1>2, SynsSent DEF OneSyn
  <2> QED
    BY <1>1, <2>1, <2>2 DEF OneSyn
<1>3. CASE ~Taken
  BY <1>1, <1>3, UntakenWires
<1> QED
  BY <1>1, <1>2, <1>3

\* Whatever is lost or reordered, no packet makes a process dereference a
\* missing socket, when no SYN is repeated and the client is started after the
\* server's accept(). (What kills it otherwise is a stray SYN: OnlyStraySynKills.)
THEOREM NothingKills ==
  ASSUME OneWay, "start" \notin Races, "duplicate" \notin Faults
  PROVE  Spec => []NoCrash
<1> DEFINE Lives == OneSyn /\ up[recver]
<1>1. Init => Lives
  <2> SUFFICES ASSUME Init PROVE Lives
    OBVIOUS
  <2>1. \A g \in Host : wire[g][recver] = <<>>
    BY Hypothesis DEF Init
  <2>2. up[recver]
    BY Hypothesis DEF Init
  <2> QED
    BY <2>1, <2>2 DEF OneSyn, OnWires
<1>2. ASSUME StreamIInv, IInv', [Next]_vars, Lives PROVE Lives'
  BY <1>2, SynFindsListener, OneSynStep, Zenon
<1>3. ASSUME StreamIInv, Lives PROVE NoCrash
  BY <1>3, Hypothesis DEF NoCrash, StreamIInv, StreamInv, ClientInv
<1>4. StreamIInv => IInv
  BY DEF StreamIInv
<1> HIDE DEF Lives
<1> QED
  BY <1>1, <1>2, <1>3, <1>4, StreamInductive, PTL DEF Spec

-----------------------------------------------------------------------------
(* The scripts that the runs give meet the hypothesis. *)

\* A client that writes what it likes and a server that reads what it likes.
LEMMA ScriptsFit ==
  ASSUME Host = MCHost, Endpoint = MCEndpoint, HostOf = MCHostOf, NoEndpoint = none,
         sender # recver, cport # sport,
         NEW datas \in Seq(Seq(Byte)), NEW sizes \in Seq(Nat),
         Script = Programs(Client(WriteEach(datas)), Server(ReadEach(sizes)))
  PROVE  OneWay
<1> DEFINE w == WriteEach(datas)
           r == ReadEach(sizes)
           m == Len(datas)
           n == Len(sizes)
<1>1. /\ m \in Nat /\ w = [k \in 1 .. m |-> [op |-> "write", data |-> datas[k]]]
      /\ n \in Nat /\ r = [k \in 1 .. n |-> [op |-> "read", n |-> sizes[k]]]
  BY DEF WriteEach, ReadEach
<1>2. Script[sender] = Client(w) /\ Script[recver] = Server(r)
  BY DEF Programs, MCHost
<1>3. /\ Len(w) = m /\ \A k \in 1 .. m : w[k].op = "write"
      /\ Len(r) = n /\ \A k \in 1 .. n : r[k].op = "read"
  BY <1>1
<1> HIDE DEF w, r
<1>4. /\ \A S : (\A k \in 1 .. m : w[k] \in S) => w \in Seq(S)
      /\ \A S : (\A k \in 1 .. n : r[k] \in S) => r \in Seq(S)
  <2>1. ASSUME NEW S, \A k \in 1 .. m : w[k] \in S PROVE w \in Seq(S)
    <3>1. w = [k \in 1 .. m |-> w[k]]
      BY <1>1
    <3> QED
      BY <1>1, <2>1, <3>1
  <2>2. ASSUME NEW S, \A k \in 1 .. n : r[k] \in S PROVE r \in Seq(S)
    <3>1. r = [k \in 1 .. n |-> r[k]]
      BY <1>1
    <3> QED
      BY <1>1, <2>2, <3>1
  <2> QED
    BY <2>1, <2>2
<1> HIDE DEF m, n
<1>5. ClientScript(Script[sender])
  <2> DEFINE a == MakeSocket
             b == [op |-> "connect", from |-> cport, to |-> sport]
             c == [op |-> "close"]
             S == {a, b, c} \cup {w[k] : k \in 1 .. m}
  <2>1. a.op = "socket" /\ b.op = "connect" /\ b.from = cport /\ b.to = sport /\ c.op = "close"
    BY DEF MakeSocket
  <2>2. PICK u : u = <<a, b>> \o w
    BY Zenon
  <2>3. PICK v : v = u \o <<c>>
    BY Zenon
  <2>4. Script[sender] = v
    BY <1>2, <2>2, <2>3, Zenon DEF Client
  <2>5. a \in S /\ b \in S /\ c \in S /\ \A k \in 1 .. m : w[k] \in S
    OBVIOUS
  <2> HIDE DEF a, b, c, S
  <2>6. w \in Seq(S) /\ <<a, b>> \in Seq(S) /\ <<c>> \in Seq(S)
    BY <1>4, <2>5
  <2>7. /\ Len(u) = 2 + m /\ u \in Seq(S)
        /\ \A k \in 1 .. 2 : u[k] = <<a, b>>[k]
        /\ \A k \in 3 .. (2 + m) : u[k] = w[k - 2]
    <3>1. /\ Len(u) = Len(<<a, b>>) + Len(w)
          /\ \A k \in 1 .. Len(<<a, b>>) : u[k] = <<a, b>>[k]
          /\ \A k \in (Len(<<a, b>>) + 1) .. (Len(<<a, b>>) + Len(w)) :
               u[k] = w[k - Len(<<a, b>>)]
      BY <2>2, <2>6, Appended, ZenonT(40)
    <3>2. Len(<<a, b>>) = 2 /\ u \in Seq(S)
      BY <2>2, <2>6
    <3> QED
      BY <1>1, <1>3, <3>1, <3>2
  <2>8. /\ Len(v) = 3 + m /\ v[3 + m] = c
        /\ \A k \in 1 .. (2 + m) : v[k] = u[k]
    <3>1. /\ Len(v) = Len(u) + Len(<<c>>)
          /\ \A k \in 1 .. Len(u) : v[k] = u[k]
          /\ \A k \in (Len(u) + 1) .. (Len(u) + Len(<<c>>)) : v[k] = <<c>>[k - Len(u)]
      BY <2>3, <2>6, <2>7, Appended
    <3> QED
      BY <1>1, <2>7, <3>1
  <2>9. v[1] = a /\ v[2] = b
    BY <1>1, <2>7, <2>8
  <2>10. \A k \in 3 .. (2 + m) : v[k].op = "write"
    <3> SUFFICES ASSUME NEW k \in 3 .. (2 + m) PROVE v[k].op = "write"
      OBVIOUS
    <3>1. k - 2 \in 1 .. m /\ k \in 1 .. (2 + m)
      BY <1>1
    <3> QED
      BY <1>3, <2>7, <2>8, <3>1, SMTT(40)
  <2>11. Len(v) \in Nat /\ Len(v) >= 3 /\ Len(v) - 1 = 2 + m /\ v[Len(v)] = c
    BY <1>1, <2>8
  <2> QED
    BY <2>1, <2>4, <2>9, <2>10, <2>11 DEF ClientScript
<1>6. ServerScript(Script[recver])
  <2> DEFINE a == MakeSocket
             b == [op |-> "bind", at |-> sport]
             d == [op |-> "accept"]
             c == [op |-> "close"]
             S == {a, b, c, d} \cup {r[k] : k \in 1 .. n}
  <2>1. /\ a.op = "socket" /\ b.op = "bind" /\ b.at = sport /\ d.op = "accept"
        /\ c.op = "close"
    BY DEF MakeSocket
  <2>2. PICK u : u = <<a, b, d>> \o r
    BY Zenon
  <2>3. PICK v : v = u \o <<c>>
    BY Zenon
  <2>4. Script[recver] = v
    BY <1>2, <2>2, <2>3, Zenon DEF Server
  <2>5. a \in S /\ b \in S /\ c \in S /\ d \in S /\ \A k \in 1 .. n : r[k] \in S
    OBVIOUS
  <2> HIDE DEF a, b, c, d, S
  <2>6. r \in Seq(S) /\ <<a, b, d>> \in Seq(S) /\ <<c>> \in Seq(S)
    BY <1>4, <2>5
  <2>7. /\ Len(u) = 3 + n /\ u \in Seq(S)
        /\ \A k \in 1 .. 3 : u[k] = <<a, b, d>>[k]
        /\ \A k \in 4 .. (3 + n) : u[k] = r[k - 3]
    <3>1. /\ Len(u) = Len(<<a, b, d>>) + Len(r)
          /\ \A k \in 1 .. Len(<<a, b, d>>) : u[k] = <<a, b, d>>[k]
          /\ \A k \in (Len(<<a, b, d>>) + 1) .. (Len(<<a, b, d>>) + Len(r)) :
               u[k] = r[k - Len(<<a, b, d>>)]
      BY <2>2, <2>6, Appended, ZenonT(40)
    <3>2. Len(<<a, b, d>>) = 3 /\ u \in Seq(S)
      BY <2>2, <2>6
    <3> QED
      BY <1>1, <1>3, <3>1, <3>2
  <2>8. /\ Len(v) = 4 + n /\ v[4 + n] = c
        /\ \A k \in 1 .. (3 + n) : v[k] = u[k]
    <3>1. /\ Len(v) = Len(u) + Len(<<c>>)
          /\ \A k \in 1 .. Len(u) : v[k] = u[k]
          /\ \A k \in (Len(u) + 1) .. (Len(u) + Len(<<c>>)) : v[k] = <<c>>[k - Len(u)]
      BY <2>3, <2>6, <2>7, Appended
    <3> QED
      BY <1>1, <2>7, <3>1
  <2>9. v[1] = a /\ v[2] = b /\ v[3] = d
    BY <1>1, <2>7, <2>8
  <2>10. \A k \in 4 .. (3 + n) : v[k].op = "read"
    <3> SUFFICES ASSUME NEW k \in 4 .. (3 + n) PROVE v[k].op = "read"
      OBVIOUS
    <3>1. k - 3 \in 1 .. n /\ k \in 1 .. (3 + n)
      BY <1>1
    <3> QED
      BY <1>3, <2>7, <2>8, <3>1, SMTT(40)
  <2>11. Len(v) \in Nat /\ Len(v) >= 4 /\ Len(v) - 1 = 3 + n /\ v[Len(v)] = c
    BY <1>1, <2>8
  <2> QED
    BY <2>1, <2>4, <2>9, <2>10, <2>11 DEF ServerScript
<1> QED
  BY <1>5, <1>6 DEF OneWay

\* What such a client writes.
LEMMA ClientWrites ==
  ASSUME NEW datas \in Seq(Seq(Byte)), NEW server,
         Script = Programs(Client(WriteEach(datas)), server)
  PROVE  /\ DOMAIN Script[sender] = 1 .. Len(Script[sender])
         /\ \A k \in DOMAIN Script[sender] : Script[sender][k].op = "write" =>
              k - 2 \in 1 .. Len(datas) /\ Script[sender][k].data = datas[k - 2]
<1> DEFINE w == WriteEach(datas)
           m == Len(datas)
<1>1. m \in Nat /\ w = [k \in 1 .. m |-> [op |-> "write", data |-> datas[k]]]
  BY DEF WriteEach
<1>2. Len(w) = m /\ \A k \in 1 .. m : w[k].data = datas[k]
  BY <1>1
<1>3. PICK S : S = {w[k] : k \in 1 .. m}
  BY Zenon
<1>4. w \in Seq(S)
  BY <1>1, <1>3
<1> HIDE DEF w
<1>5. Script[sender] = Client(w)
  BY DEF Programs, MCHost, w
<1>6. PICK a, b, c : /\ Client(w) = <<a, b>> \o w \o <<c>>
                     /\ a.op = "socket" /\ b.op = "connect" /\ c.op = "close"
  <2>1. PICK a, b, c : /\ a = MakeSocket /\ c = [op |-> "close"]
                       /\ b = [op |-> "connect", from |-> cport, to |-> sport]
    BY Zenon
  <2>2. a.op = "socket" /\ b.op = "connect" /\ c.op = "close"
    BY <2>1 DEF MakeSocket
  <2>3. Client(w) = <<a, b>> \o w \o <<c>>
    BY <2>1 DEF Client
  <2> QED
    BY <2>2, <2>3, Zenon
<1>7. PICK T : T = S \cup {a, b, c}
  BY Zenon
<1>8. PICK u, v, s : u = <<a, b>> /\ v = <<c>> /\ s = (u \o w) \o v
  BY Zenon
<1>9. u \in Seq(T) /\ v \in Seq(T) /\ w \in Seq(T)
  BY <1>4, <1>7, <1>8
<1>10. /\ DOMAIN s = 1 .. (m + 3) /\ s[1] = a /\ s[2] = b /\ s[m + 3] = c
       /\ \A k \in 1 .. m : s[k + 2] = w[k]
  BY <1>1, <1>2, <1>8, <1>9
<1>11. ASSUME NEW k \in DOMAIN s, s[k].op = "write"
       PROVE  k - 2 \in 1 .. m /\ s[k].data = datas[k - 2]
  <2>1. k # 1 /\ k # 2 /\ k # m + 3
    BY <1>6, <1>10, <1>11
  <2>2. k - 2 \in 1 .. m /\ k = (k - 2) + 2
    BY <1>1, <1>10, <2>1
  <2> QED
    BY <1>2, <1>10, <2>2, Zenon
<1>12. DOMAIN s = 1 .. Len(s)
  BY <1>8, <1>9
<1> QED
  BY <1>5, <1>6, <1>8, <1>11, <1>12, Zenon
=============================================================================
