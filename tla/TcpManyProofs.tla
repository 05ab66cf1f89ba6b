--------------------------- MODULE TcpManyProofs ---------------------------
(***************************************************************************)
(* The two programs of MCTcp beside any others: as long as no other host   *)
(* sends a packet, the two hosts behave as they do alone, whatever the     *)
(* others do with their own sockets.  Every step of the system is a step   *)
(* of the two hosts or leaves them alone, so that the theorems about two   *)
(* hosts hold for them.                                                    *)
(***************************************************************************)
EXTENDS MCTcpMany, TcpProofs

\* The state of the two hosts.
sock2 == [h \in MCHost |-> sock[h]]
queue2 == [h \in MCHost |-> queue[h]]
unsolved2 == [h \in MCHost |-> unsolved[h]]
wire2 == [g \in MCHost |-> [h \in MCHost |-> wire[g][h]]]
app2 == [h \in MCHost |-> app[h]]
rx2 == [h \in MCHost |-> rx[h]]
got2 == [h \in MCHost |-> got[h]]
up2 == [h \in MCHost |-> up[h]]
Script2 == [h \in MCHost |-> Script[h]]

\* The two hosts alone.
Two == INSTANCE TcpPhaseProofs WITH
  Host <- MCHost, Endpoint <- MCEndpoint, HostOf <- MCHostOf, Script <- Script2,
  sock <- sock2, queue <- queue2, unsolved <- unsolved2, wire <- wire2,
  app <- app2, rx <- rx2, got <- got2, up <- up2

\* Two of the hosts run the two programs.
Beside ==
  /\ MCHost \subseteq Host /\ MCEndpoint \subseteq Endpoint
  /\ \A e \in MCEndpoint : HostOf[e] = MCHostOf[e]
  /\ NoEndpoint = none
  /\ sender # recver /\ cport # sport
  /\ Two!ClientScript(Script[sender]) /\ Two!ServerScript(Script[recver])

\* No other host has sent anything.
Quiet == \A g \in Host \ MCHost, h \in Host : wire[g][h] = <<>>

-----------------------------------------------------------------------------
(* Constants and operators are the same for the two hosts alone. *)

LEMMA SameConstants ==
  /\ Two!MCHost = MCHost /\ Two!MCEndpoint = MCEndpoint /\ Two!MCHostOf = MCHostOf
  /\ Two!Fd = Fd /\ Two!Content = Content /\ Two!Kind = Kind /\ Two!Flag = Flag
  /\ Two!Status = Status /\ Two!Rules = Rules /\ Two!NoRule = NoRule
  /\ Two!NoSocket = NoSocket /\ Two!NoPacket = NoPacket
  /\ Two!ClientFd = ClientFd /\ Two!ServerFd = ServerFd
  BY DEF Two!MCHost, MCHost, Two!MCEndpoint, MCEndpoint, Two!MCHostOf, MCHostOf,
     Two!Fd, Fd, Two!Content, Content, Two!Kind, Kind, Two!Flag, Flag,
     Two!Status, Status, Two!Rules, Rules, Two!Rule, Rule, Two!NoRule, NoRule,
     Two!NoSocket, NoSocket, Two!NoPacket, NoPacket,
     Two!ClientFd, ClientFd, Two!ServerFd, ServerFd

LEMMA SameOperators ==
  /\ \A b, at, d : Two!CopyIn(b, at, d) = CopyIn(b, at, d)
  /\ \A b, at, n : Two!Slice(b, at, n) = Slice(b, at, n)
  /\ \A m, n : Two!Lesser(m, n) = Lesser(m, n)
  /\ \A k, s, d, n, m, x : Two!Segment(k, s, d, n, m, x) = Segment(k, s, d, n, m, x)
  /\ \A p, k : Two!Reply(p, k) = Reply(p, k)
  /\ \A g : Two!NewSocket(g) = NewSocket(g)
  BY SameConstants DEF Two!CopyIn, CopyIn, Two!Slice, Slice, Two!Lesser, Lesser,
     Two!Segment, Segment, Two!Reply, Reply, Two!NewSocket, NewSocket

LEMMA Hosts ==
  ASSUME Beside
  PROVE  sender \in MCHost /\ recver \in MCHost /\ MCHost = {sender, recver}
  BY DEF MCHost

\* The state of a host is its state alone.
LEMMA SameState ==
  ASSUME NEW h \in MCHost
  PROVE  /\ sock2[h] = sock[h] /\ queue2[h] = queue[h] /\ unsolved2[h] = unsolved[h]
         /\ app2[h] = app[h] /\ rx2[h] = rx[h] /\ got2[h] = got[h] /\ up2[h] = up[h]
         /\ Script2[h] = Script[h]
         /\ \A g \in MCHost : wire2[h][g] = wire[h][g]
         /\ Two!Call(h) = Call(h) /\ Two!Connfd(h) = Connfd(h)
         /\ Two!Conn(h) = Conn(h) /\ Two!Listener(h) = Listener(h)
         /\ Two!RxSock(h) = RxSock(h)
  BY DEF sock2, queue2, unsolved2, app2, rx2, got2, up2, Script2, wire2,
     Two!Call, Call, Two!Connfd, Connfd, Two!Conn, Conn, Two!Listener, Listener,
     Two!RxSock, RxSock

LEMMA SameTests ==
  ASSUME NEW h \in MCHost
  PROVE  /\ \A op : Two!AtCall(h, op) <=> AtCall(h, op)
         /\ \A pc : Two!At(h, pc) <=> At(h, pc)
         /\ \A pc : Two!RxAt(h, pc) <=> RxAt(h, pc)
         /\ Two!Opened(h) = Opened(h) /\ Two!FreshFd(h) = FreshFd(h)
         /\ Two!Awaited(h) <=> Awaited(h)
         /\ \A p : Two!Matching(h, p) = Matching(h, p)
         /\ \A p : Two!Destination(h, p) = Destination(h, p)
         /\ \A s : Two!Applicable(h, s) = Applicable(h, s)
<1>1. Two!Opened(h) = Opened(h)
  BY SameState, SameConstants DEF Two!Opened, Opened
<1>2. \A p : Two!Matching(h, p) = Matching(h, p)
  BY <1>1, SameState, ZenonT(40) DEF Two!Matching, Matching
<1>3. Two!FreshFd(h) = FreshFd(h)
  BY <1>1 DEF Two!FreshFd, FreshFd, Two!Min, Min
<1>4. \A p : Two!Destination(h, p) = Destination(h, p)
  <2>1. \A S : Two!Min(S) = Min(S)
    BY DEF Two!Min, Min
  <2> TAKE p
  <2> DEFINE M == Matching(h, p)
  <2>2. Two!Matching(h, p) = M /\ Two!Min(M) = Min(M)
    BY <1>2, <2>1
  <2> HIDE DEF M
  <2> QED
    BY <1>1, <2>2 DEF Two!Destination, Destination, M
<1>5. \A s : Two!Applicable(h, s) = Applicable(h, s)
  BY SameState, SameConstants DEF Two!Applicable, Applicable
<1>6. /\ \A op : Two!AtCall(h, op) <=> AtCall(h, op)
      /\ \A pc : Two!At(h, pc) <=> At(h, pc)
      /\ \A pc : Two!RxAt(h, pc) <=> RxAt(h, pc)
      /\ Two!Awaited(h) <=> Awaited(h)
  BY SameState DEF Two!AtCall, AtCall, Two!At, At, Two!RxAt, RxAt, Two!Awaited, Awaited
<1> QED
  BY <1>1, <1>2, <1>3, <1>4, <1>5, <1>6
-----------------------------------------------------------------------------
(* Updates of a host's state are updates of the two hosts' state. *)

LEMMA HostKnown ==
  ASSUME Beside, NEW h \in MCHost
  PROVE  h \in Host
  BY DEF Beside

LEMMA SamePut ==
  ASSUME Beside, TypeOK, NEW h \in MCHost, NEW f, NEW s, Put(h, f, s)
  PROVE  Two!Put(h, f, s)
<1>1. h \in Host /\ MCHost \subseteq Host
  BY DEF Beside
<1>2. sock \in [Host -> [Fd -> SafeSocket]]
  BY DEF TypeOK
<1>3. sock' = [sock EXCEPT ![h][f] = s]
  BY DEF Put
<1>4. [k \in MCHost |-> sock'[k]] = [[k \in MCHost |-> sock[k]] EXCEPT ![h][f] = s]
  BY <1>1, <1>2, <1>3, Zenon
<1> QED
  BY <1>4 DEF Two!Put, sock2

LEMMA SameMoves ==
  ASSUME Beside, TypeOK, NEW h \in MCHost
  PROVE  /\ \A pc : Goto(h, pc) => Two!Goto(h, pc)
         /\ \A cv : AwaitFlag(h, cv) => Two!AwaitFlag(h, cv)
         /\ Return(h) => Two!Return(h)
         /\ \A f, cvs : NotifyAll(h, f, cvs) => Two!NotifyAll(h, f, cvs)
         /\ Idle(h) => Two!Idle(h)
<1>1. h \in Host /\ MCHost \subseteq Host
  BY DEF Beside
<1>2. app \in [Host -> AppThread] /\ rx \in [Host -> RxThread]
  BY DEF TypeOK
<1>3. \A pc : Goto(h, pc) => Two!Goto(h, pc)
  BY <1>1, <1>2, Zenon DEF Goto, Two!Goto, app2
<1>4. \A cv : AwaitFlag(h, cv) => Two!AwaitFlag(h, cv)
  BY <1>1, <1>2, Zenon DEF AwaitFlag, Two!AwaitFlag, app2
<1>5. Return(h) => Two!Return(h)
  BY <1>1, <1>2, Zenon DEF Return, Two!Return, app2
<1>6. \A f, cvs : NotifyAll(h, f, cvs) => Two!NotifyAll(h, f, cvs)
  BY <1>1, <1>2, Zenon DEF NotifyAll, Two!NotifyAll, app2
<1>7. Idle(h) => Two!Idle(h)
  BY <1>1, <1>2, Zenon DEF Idle, Two!Idle, rx2
<1> QED
  BY <1>3, <1>4, <1>5, <1>6, <1>7

\* What the two hosts send goes to each other, or to nobody.
LEMMA SameSend ==
  ASSUME Beside, TypeOK, NEW h \in MCHost, NEW dst \in MCEndpoint \cup {none},
         NEW ps, SendTCPPackets(h, dst, ps)
  PROVE  /\ Two!SendTCPPackets(h, dst, ps)
         /\ \A g, k \in Host : g \notin MCHost \/ k \notin MCHost =>
              wire'[g][k] = wire[g][k]
<1>1. h \in Host /\ MCHost \subseteq Host /\ MCEndpoint \subseteq Endpoint
  BY DEF Beside
<1>2. wire \in [Host -> [Host -> Seq(SafePacket)]]
  BY DEF TypeOK
<1>3. CASE dst \in MCEndpoint
  <2> DEFINE k == HostOf[dst]
  <2>1. k = MCHostOf[dst] /\ k \in MCHost
    BY <1>3 DEF Beside, MCHostOf, MCHost
  <2>2. wire' = [wire EXCEPT ![h][k] = @ \o ps]
    BY <1>1, <1>3 DEF SendTCPPackets
  <2>3. h \in MCHost
    OBVIOUS
  <2>4. k \in Host
    BY <1>1, <2>1
  <2> HIDE DEF k
  <2>5. wire2' = [wire2 EXCEPT ![h][k] = @ \o ps]
    BY <1>1, <1>2, <2>1, <2>2, Zenon DEF wire2
  <2>6. Two!SendTCPPackets(h, dst, ps)
    BY <1>3, <2>1, <2>5 DEF Two!SendTCPPackets
  <2>7. \A g, j \in Host : g \notin MCHost \/ j \notin MCHost => wire'[g][j] = wire[g][j]
    BY <1>1, <1>2, <2>1, <2>2, <2>4
  <2> QED
    BY <2>6, <2>7
<1>4. CASE dst \notin MCEndpoint
  <2>1. dst \notin Endpoint
    BY <1>4, TcpAssumption DEF Beside, TcpAssumption
  <2>2. wire' = wire
    BY <2>1 DEF SendTCPPackets
  <2>3. wire2' = wire2
    BY <2>2 DEF wire2
  <2> QED
    BY <1>4, <2>2, <2>3 DEF Two!SendTCPPackets
<1> QED
  BY <1>3, <1>4

\* What stays the same does so for the two hosts.
LEMMA SameStays ==
  /\ UNCHANGED sock => UNCHANGED sock2
  /\ UNCHANGED queue => UNCHANGED queue2
  /\ UNCHANGED unsolved => UNCHANGED unsolved2
  /\ UNCHANGED wire => UNCHANGED wire2
  /\ UNCHANGED app => UNCHANGED app2
  /\ UNCHANGED rx => UNCHANGED rx2
  /\ UNCHANGED got => UNCHANGED got2
  /\ UNCHANGED up => UNCHANGED up2
  BY DEF sock2, queue2, unsolved2, wire2, app2, rx2, got2, up2
-----------------------------------------------------------------------------
(* The application thread. *)

\* Links to and from other hosts are left alone.
OuterWires == \A g, k \in Host : g \notin MCHost \/ k \notin MCHost =>
  wire'[g][k] = wire[g][k]

LEMMA SameWaits ==
  ASSUME Beside, TypeOK, NEW h \in MCHost
  PROVE  /\ ConnectReturn(h) => Two!ConnectReturn(h)
         /\ AcceptAwaitAck(h) => Two!AcceptAwaitAck(h)
         /\ TestCondition(h) => Two!TestCondition(h)
         /\ Block(h) => Two!Block(h)
         /\ Read(h) => Two!Read(h)
         /\ WriteReturn(h) => Two!WriteReturn(h)
         /\ CloseServer(h) => Two!CloseServer(h)
         /\ CloseReturn(h) => Two!CloseReturn(h)
         /\ SpuriousWakeup(h) => Two!SpuriousWakeup(h)
<1>1. ConnectReturn(h) => Two!ConnectReturn(h)
  BY SameState, SameTests, SameMoves, SameStays, Zenon DEF ConnectReturn, Two!ConnectReturn
<1>2. AcceptAwaitAck(h) => Two!AcceptAwaitAck(h)
  BY SameState, SameTests, SameMoves, SameStays, Zenon DEF AcceptAwaitAck, Two!AcceptAwaitAck
<1>3. TestCondition(h) => Two!TestCondition(h)
  BY SameState, SameTests, SameMoves, SameStays, Zenon DEF TestCondition, Two!TestCondition
<1>4. Block(h) => Two!Block(h)
  BY SameState, SameTests, SameMoves, SameStays, Zenon DEF Block, Two!Block
<1>5. Read(h) => Two!Read(h)
  BY SameState, SameTests, SameMoves, SameStays, ZenonT(40) DEF Read, Two!Read
<1>6. WriteReturn(h) => Two!WriteReturn(h)
  BY SameState, SameTests, SameMoves, SameStays, ZenonT(40) DEF WriteReturn, Two!WriteReturn
<1>7. CloseServer(h) => Two!CloseServer(h)
  BY SameState, SameTests, SameMoves, SameStays, Zenon DEF CloseServer, Two!CloseServer
<1>8. CloseReturn(h) => Two!CloseReturn(h)
  BY SameState, SameTests, SameMoves, SameStays, Zenon DEF CloseReturn, Two!CloseReturn
<1>9. SpuriousWakeup(h) => Two!SpuriousWakeup(h)
  BY SameState, SameTests, SameMoves, SameStays, ZenonT(40) DEF SpuriousWakeup, Two!SpuriousWakeup
<1> QED
  BY <1>1, <1>2, <1>3, <1>4, <1>5, <1>6, <1>7, <1>8, <1>9

LEMMA SameStores ==
  ASSUME Beside, TypeOK, NEW h \in MCHost
  PROVE  /\ SocketListen(h) => Two!SocketListen(h)
         /\ AcceptDemote(h) => Two!AcceptDemote(h)
         /\ AcceptPromote(h) => Two!AcceptPromote(h)
         /\ AcceptReturn(h) => Two!AcceptReturn(h)
         /\ CloseStore(h) => Two!CloseStore(h)
<1>1. SocketListen(h) => Two!SocketListen(h)
  BY SameState, SameTests, SameMoves, SameStays, SamePut, ZenonT(40) DEF SocketListen, Two!SocketListen
<1>2. AcceptDemote(h) => Two!AcceptDemote(h)
  BY SameState, SameTests, SameMoves, SameStays, SamePut, ZenonT(40) DEF AcceptDemote, Two!AcceptDemote
<1>3. AcceptPromote(h) => Two!AcceptPromote(h)
  BY SameState, SameTests, SameMoves, SameStays, SamePut, ZenonT(40) DEF AcceptPromote, Two!AcceptPromote
<1>4. AcceptReturn(h) => Two!AcceptReturn(h)
  BY SameState, SameTests, SameMoves, SameStays, SamePut, Zenon DEF AcceptReturn, Two!AcceptReturn
<1>5. CloseStore(h) => Two!CloseStore(h)
  BY SameState, SameTests, SameMoves, SameStays, SamePut, ZenonT(40) DEF CloseStore, Two!CloseStore
<1> QED
  BY <1>1, <1>2, <1>3, <1>4, <1>5

\* The sockets and packets of the two hosts know no endpoint but theirs.
LEMMA OwnEndpoints ==
  ASSUME Beside, Two!TypeOK, NEW h \in MCHost
  PROVE  /\ \A f \in Fd : sock[h][f].local \in MCEndpoint \cup {none}
                       /\ sock[h][f].remote \in MCEndpoint \cup {none}
         /\ rx[h].pkt.src \in MCEndpoint \cup {none}
<1>1. Two!Address = MCEndpoint \cup {none}
  BY DEF Two!Address, Beside
<1>2. sock2[h] \in [Fd -> Two!SafeSocket] /\ rx2[h] \in Two!RxThread
  BY SameConstants DEF Two!TypeOK
<1>3. sock[h] \in [Fd -> Two!SafeSocket] /\ rx[h] \in Two!RxThread
  BY <1>2, SameState
<1>4. \A s \in Two!SafeSocket : s.local \in Two!Address /\ s.remote \in Two!Address
  BY DEF Two!SafeSocket, Two!Socket
<1>5. rx[h].pkt.src \in Two!Address
  BY <1>3 DEF Two!RxThread, Two!SafePacket, Two!Packet
<1> QED
  BY <1>1, <1>3, <1>4, <1>5

LEMMA SameSocketCreate ==
  ASSUME Beside, TypeOK, NEW h \in MCHost, SocketCreate(h)
  PROVE  Two!SocketCreate(h)
<1> DEFINE f == FreshFd(h)
<1>1. /\ AtCall(h, "socket")
      /\ IF f <= LastFd THEN \E g \in Garbage : Put(h, f, NewSocket(g)) ELSE UNCHANGED sock
      /\ app' = [app EXCEPT ![h].lfd = f, ![h].cfd = f, ![h].ip = @ + 1]
      /\ UNCHANGED <<queue, unsolved, wire, rx, got, up, faults>>
  BY DEF SocketCreate
<1>2. Two!FreshFd(h) = f /\ Two!AtCall(h, "socket")
  BY <1>1, SameTests
<1> HIDE DEF f
<1>3. app2' = [app2 EXCEPT ![h].lfd = f, ![h].cfd = f, ![h].ip = @ + 1]
  <2>1. app \in [Host -> AppThread] /\ h \in Host /\ MCHost \subseteq Host
    BY DEF TypeOK, Beside
  <2> QED
    BY <1>1, <2>1, Zenon DEF app2
<1>4. IF f <= LastFd THEN \E g \in Garbage : Two!Put(h, f, Two!NewSocket(g))
      ELSE UNCHANGED sock2
  BY <1>1, SamePut, SameStays, SameOperators
<1>5. UNCHANGED <<queue2, unsolved2, wire2, rx2, got2, up2, faults>>
  BY <1>1, SameStays
<1> QED
  BY <1>2, <1>3, <1>4, <1>5 DEF Two!SocketCreate

LEMMA SameSocketBind ==
  ASSUME Beside, TypeOK, NEW h \in MCHost, SocketBind(h)
  PROVE  Two!SocketBind(h)
  BY SameState, SameTests, SameMoves, SameStays, SamePut, ZenonT(40)
     DEF SocketBind, Two!SocketBind, Beside

LEMMA SameAcceptCreate ==
  ASSUME Beside, TypeOK, NEW h \in MCHost, AcceptCreate(h)
  PROVE  Two!AcceptCreate(h)
<1> DEFINE f == FreshFd(h)
<1>1. /\ AtCall(h, "accept") /\ Listener(h).status # "FREE"
      /\ IF f \in Opened(h) THEN UNCHANGED sock ELSE Put(h, f, Listener(h))
      /\ app' = [app EXCEPT ![h].cfd = f, ![h].pc = "demote"]
      /\ UNCHANGED <<queue, unsolved, wire, rx, got, up, faults>>
  BY DEF AcceptCreate
<1>2. /\ Two!FreshFd(h) = f /\ Two!AtCall(h, "accept") /\ Two!Opened(h) = Opened(h)
      /\ Two!Listener(h) = Listener(h)
  BY <1>1, SameState, SameTests
<1> HIDE DEF f
<1>3. app2' = [app2 EXCEPT ![h].cfd = f, ![h].pc = "demote"]
  <2>1. app \in [Host -> AppThread] /\ h \in Host /\ MCHost \subseteq Host
    BY DEF TypeOK, Beside
  <2> QED
    BY <1>1, <2>1, Zenon DEF app2
<1>4. IF f \in Two!Opened(h) THEN UNCHANGED sock2 ELSE Two!Put(h, f, Two!Listener(h))
  BY <1>1, <1>2, SamePut, SameStays
<1>5. UNCHANGED <<queue2, unsolved2, wire2, rx2, got2, up2, faults>>
  BY <1>1, SameStays
<1> QED
  BY <1>1, <1>2, <1>3, <1>4, <1>5 DEF Two!AcceptCreate

LEMMA SameReadReturn ==
  ASSUME Beside, TypeOK, NEW h \in MCHost, ReadReturn(h)
  PROVE  Two!ReadReturn(h)
<1> DEFINE bytes == Slice(Conn(h).databuf, Conn(h).readp, Call(h).n)
           f == Connfd(h)
           s == [Conn(h) EXCEPT !.readp = @ + Call(h).n]
<1>1. /\ At(h, "ready") /\ app[h].cv = "read" /\ Put(h, f, s)
      /\ got' = [got EXCEPT ![h][f] = @ \o bytes]
      /\ Return(h) /\ UNCHANGED <<queue, unsolved, wire, rx, up, faults>>
  BY DEF ReadReturn
<1>2. /\ Two!Slice(Two!Conn(h).databuf, Two!Conn(h).readp, Two!Call(h).n) = bytes
      /\ Two!Connfd(h) = f /\ [Two!Conn(h) EXCEPT !.readp = @ + Two!Call(h).n] = s
  BY SameState, SameOperators
<1> HIDE DEF bytes, f, s
<1>3. got2' = [got2 EXCEPT ![h][f] = @ \o bytes]
  <2>1. got \in [Host -> [Fd -> Seq(Content)]] /\ h \in Host /\ MCHost \subseteq Host
    BY DEF TypeOK, Beside
  <2> QED
    BY <1>1, <2>1, Zenon DEF got2
<1>4. /\ Two!At(h, "ready") /\ app2[h].cv = "read" /\ Two!Put(h, f, s) /\ Two!Return(h)
      /\ UNCHANGED <<queue2, unsolved2, wire2, rx2, up2, faults>>
  BY <1>1, SameState, SameTests, SamePut, SameMoves, SameStays
<1> QED
  BY <1>2, <1>3, <1>4 DEF Two!ReadReturn

LEMMA SameWriteAppend ==
  ASSUME Beside, TypeOK, NEW h \in MCHost, WriteAppend(h)
  PROVE  Two!WriteAppend(h)
<1> DEFINE s == Conn(h)
           d == Call(h).data
           t == [s EXCEPT !.databuf = CopyIn(@, s.sizep, d), !.sizep = @ + Len(d)]
<1>1. /\ AtCall(h, "write") /\ s.status # "FREE" /\ s.sizep + Len(d) <= BufSize
      /\ Put(h, Connfd(h), t) /\ Goto(h, "send")
      /\ UNCHANGED <<queue, unsolved, wire, rx, got, up, faults>>
  BY DEF WriteAppend
<1>2. /\ Two!Conn(h) = s /\ Two!Call(h).data = d /\ Two!Connfd(h) = Connfd(h)
      /\ Two!CopyIn(s.databuf, s.sizep, d) = CopyIn(s.databuf, s.sizep, d)
  BY SameState, SameOperators
<1>3. /\ Two!AtCall(h, "write") /\ Two!Put(h, Connfd(h), t) /\ Two!Goto(h, "send")
      /\ UNCHANGED <<queue2, unsolved2, wire2, rx2, got2, up2, faults>>
  BY <1>1, SameTests, SamePut, SameMoves, SameStays
<1> HIDE DEF s, d
<1> QED
  BY <1>1, <1>2, <1>3 DEF Two!WriteAppend

LEMMA SameDeath ==
  ASSUME Beside, TypeOK, NEW h \in MCHost, up' = [up EXCEPT ![h] = FALSE]
  PROVE  up2' = [up2 EXCEPT ![h] = FALSE]
<1>1. up \in [Host -> BOOLEAN] /\ h \in Host /\ MCHost \subseteq Host
  BY DEF TypeOK, Beside
<1> QED
  BY <1>1, Zenon DEF up2

LEMMA SameCallOnMissingSocket ==
  ASSUME Beside, TypeOK, NEW h \in MCHost, CallOnMissingSocket(h)
  PROVE  Two!CallOnMissingSocket(h)
<1>1. up2' = [up2 EXCEPT ![h] = FALSE]
  BY SameDeath, Zenon DEF CallOnMissingSocket
<1> QED
  BY <1>1, SameState, SameTests, SameStays, Zenon
     DEF CallOnMissingSocket, Two!CallOnMissingSocket
-----------------------------------------------------------------------------
(* The hypotheses of the theorems about two hosts. *)

\* The constants of the two hosts are as Tcp assumes.
LEMMA TwoAssumption ==
  ASSUME Beside
  PROVE  Two!TcpAssumption
<1>1. \A s \in Seq(Calls) :
        (\A k \in 1 .. Len(s) : s[k] \in Two!Calls) => s \in Seq(Two!Calls)
  OBVIOUS
<1>2. \A c \in Calls :
        /\ c.op \in {"socket", "listen", "accept", "close", "write", "read"} =>
             c \in Two!Calls
        /\ c.op = "bind" /\ c.at = sport => c \in Two!Calls
        /\ c.op = "connect" /\ c.from = cport /\ c.to = sport => c \in Two!Calls
  BY SameConstants DEF Calls, Two!Calls, MCEndpoint
<1>3. Script[sender] \in Seq(Calls) /\ Script[recver] \in Seq(Calls)
  BY TcpAssumption, Hosts DEF TcpAssumption, Beside
<1>4. Script[sender] \in Seq(Two!Calls)
  <2>1. \A k \in 1 .. Len(Script[sender]) : Script[sender][k] \in Two!Calls
    <3> TAKE k \in 1 .. Len(Script[sender])
    <3>1. Script[sender][k] \in Calls
      BY <1>3
    <3>2. k = 1 \/ k = 2 \/ k \in 3 .. (Len(Script[sender]) - 1) \/ k = Len(Script[sender])
      BY <1>3
    <3> QED
      BY <1>2, <3>1, <3>2 DEF Beside, Two!ClientScript
  <2> QED
    BY <1>1, <1>3, <2>1
<1>5. Script[recver] \in Seq(Two!Calls)
  <2>1. \A k \in 1 .. Len(Script[recver]) : Script[recver][k] \in Two!Calls
    <3> TAKE k \in 1 .. Len(Script[recver])
    <3>1. Script[recver][k] \in Calls
      BY <1>3
    <3>2. \/ k \in 1 .. 3 \/ k \in 4 .. (Len(Script[recver]) - 1)
          \/ k = Len(Script[recver])
      BY <1>3
    <3> QED
      BY <1>2, <3>1, <3>2 DEF Beside, Two!ServerScript
  <2> QED
    BY <1>1, <1>3, <2>1
<1>6. Script2 \in [MCHost -> Seq(Two!Calls)]
  BY <1>4, <1>5 DEF Script2, MCHost
<1>7. MCHostOf \in [MCEndpoint -> MCHost]
  BY DEF MCHostOf, MCHost
<1> QED
  BY <1>6, <1>7, TcpAssumption
     DEF Beside, TcpAssumption, Two!TcpAssumption, Two!RaceKind, RaceKind,
         Two!FaultKind, FaultKind

LEMMA TwoOneWay ==
  ASSUME Beside
  PROVE  Two!OneWay
<1>1. /\ Two!MCHost = MCHost /\ Two!MCEndpoint = MCEndpoint
      /\ Two!MCHostOf = MCHostOf
  BY SameConstants
<1>2. Script2[sender] = Script[sender] /\ Script2[recver] = Script[recver]
  BY Hosts DEF Script2
<1> QED
  BY <1>1, <1>2 DEF Beside, Two!OneWay

-----------------------------------------------------------------------------
(* The application thread, as far as it sends. *)

LEMMA SameListening ==
  ASSUME Beside, NEW e \in MCEndpoint
  PROVE  Two!Listening(e) <=> Listening(e)
<1>1. MCHostOf[e] \in MCHost /\ HostOf[e] = MCHostOf[e]
  BY DEF Beside, MCHostOf, MCHost
<1>2. sock2[MCHostOf[e]] = sock[HostOf[e]]
  BY <1>1, SameState
<1> QED
  BY <1>2, SameConstants DEF Two!Listening, Listening

LEMMA SameConnect ==
  ASSUME Beside, TypeOK, Two!TypeOK, NEW h \in MCHost, Connect(h)
  PROVE  Two!Connect(h) /\ OuterWires
<1> DEFINE c == Call(h)
           s == [Conn(h) EXCEPT !.tcbRole = "client", !.status = "SYNSENT",
                                !.local = c.from, !.remote = c.to]
           ps == <<Segment("SYN", c.from, c.to, 0, 0, <<>>)>>
<1>1. /\ AtCall(h, "connect") /\ Conn(h).status # "FREE"
      /\ "start" \in Races \/ Listening(c.to)
      /\ Put(h, Connfd(h), s) /\ SendTCPPackets(h, c.to, ps) /\ AwaitFlag(h, "conn")
      /\ UNCHANGED <<queue, unsolved, rx, got, up, faults>>
  BY DEF Connect
<1>2. c.to \in MCEndpoint
  <2>1. Two!TcpAssumption
    BY TwoAssumption
  <2>2. app2[h].ip <= Len(Script2[h]) /\ Two!Call(h) = c /\ c.op = "connect"
    BY <1>1, SameState DEF AtCall
  <2> QED
    BY <2>1, <2>2, Two!CallType
<1>3. /\ Two!Segment("SYN", c.from, c.to, 0, 0, <<>>) = Segment("SYN", c.from, c.to, 0, 0, <<>>)
      /\ Two!Conn(h) = Conn(h) /\ Two!Call(h) = c /\ Two!Connfd(h) = Connfd(h)
      /\ Two!AtCall(h, "connect") /\ (Two!Listening(c.to) <=> Listening(c.to))
  BY <1>1, <1>2, SameState, SameTests, SameOperators, SameListening
<1>4. /\ Two!Put(h, Connfd(h), s) /\ Two!AwaitFlag(h, "conn")
      /\ UNCHANGED <<queue2, unsolved2, rx2, got2, up2, faults>>
  BY <1>1, SamePut, SameMoves, SameStays
<1>5. Two!SendTCPPackets(h, c.to, ps) /\ OuterWires
  BY <1>1, <1>2, SameSend DEF OuterWires
<1> HIDE DEF c
<1> QED
  BY <1>1, <1>3, <1>4, <1>5 DEF Two!Connect

LEMMA SameWriteSend ==
  ASSUME Beside, TypeOK, Two!TypeOK, NEW h \in MCHost, WriteSend(h)
  PROVE  Two!WriteSend(h) /\ OuterWires
<1> DEFINE s == Conn(h)
           n == IF s.writep + MSS > s.sizep THEN s.sizep - s.writep ELSE MSS
           ps == <<Segment("DATA", s.local, s.remote, s.writep, 0,
                           Slice(s.databuf, s.writep, n))>>
           t == [s EXCEPT !.writep = @ + n]
<1>1. /\ At(h, "send") /\ Goto(h, "spin")
      /\ IF n >= 0
         THEN SendTCPPackets(h, s.remote, ps) /\ Put(h, Connfd(h), t) /\ UNCHANGED up
         ELSE up' = [up EXCEPT ![h] = FALSE] /\ UNCHANGED <<wire, sock>>
      /\ UNCHANGED <<queue, unsolved, rx, got, faults>>
  BY DEF WriteSend
<1>2. s.remote \in MCEndpoint \cup {none}
  BY OwnEndpoints, OwnSockets, HostKnown DEF Conn
<1>3. /\ Two!Segment("DATA", s.local, s.remote, s.writep, 0,
                      Two!Slice(s.databuf, s.writep, n))
           = Segment("DATA", s.local, s.remote, s.writep, 0,
                     Slice(s.databuf, s.writep, n))
      /\ Two!Conn(h) = s /\ Two!Connfd(h) = Connfd(h) /\ Two!At(h, "send")
  BY <1>1, SameState, SameTests, SameOperators
<1>4. Two!Goto(h, "spin") /\ UNCHANGED <<queue2, unsolved2, rx2, got2, faults>>
  BY <1>1, SameMoves, SameStays
<1>5. CASE n >= 0
  <2>1. Two!SendTCPPackets(h, s.remote, ps) /\ OuterWires
    BY <1>1, <1>2, <1>5, SameSend DEF OuterWires
  <2>2. Two!Put(h, Connfd(h), t) /\ UNCHANGED up2
    BY <1>1, <1>5, SamePut, SameStays
  <2> HIDE DEF s
  <2> QED
    BY <1>3, <1>4, <1>5, <2>1, <2>2 DEF Two!WriteSend
<1>6. CASE ~(n >= 0)
  <2>1. up2' = [up2 EXCEPT ![h] = FALSE]
    BY <1>1, <1>6, SameDeath
  <2>2. UNCHANGED <<wire2, sock2>> /\ OuterWires
    BY <1>1, <1>6, SameStays DEF OuterWires
  <2> HIDE DEF s
  <2> QED
    BY <1>3, <1>4, <1>6, <2>1, <2>2 DEF Two!WriteSend
<1> QED
  BY <1>5, <1>6

LEMMA SameCloseSendFin ==
  ASSUME Beside, TypeOK, Two!TypeOK, NEW h \in MCHost, CloseSendFin(h)
  PROVE  Two!CloseSendFin(h) /\ OuterWires
<1> DEFINE s == Conn(h)
           ps == <<Segment("FIN", s.local, s.remote, 0, 0, <<>>)>>
           t == [s EXCEPT !.status = "FINWAIT1"]
<1>1. /\ AtCall(h, "close") /\ s.status # "FREE" /\ s.tcbRole # "server"
      /\ SendTCPPackets(h, s.remote, ps)
      /\ IF "close" \in Races THEN Goto(h, "finsent") /\ UNCHANGED sock
         ELSE Goto(h, "closing") /\ Put(h, Connfd(h), t)
      /\ UNCHANGED <<queue, unsolved, rx, got, up, faults>>
  BY DEF CloseSendFin
<1>2. s.remote \in MCEndpoint \cup {none}
  BY OwnEndpoints, OwnSockets, HostKnown DEF Conn
<1>3. /\ Two!Segment("FIN", s.local, s.remote, 0, 0, <<>>)
           = Segment("FIN", s.local, s.remote, 0, 0, <<>>)
      /\ Two!Conn(h) = s /\ Two!Connfd(h) = Connfd(h) /\ Two!AtCall(h, "close")
  BY <1>1, SameState, SameTests, SameOperators
<1>4. /\ IF "close" \in Races THEN Two!Goto(h, "finsent") /\ UNCHANGED sock2
         ELSE Two!Goto(h, "closing") /\ Two!Put(h, Connfd(h), t)
      /\ UNCHANGED <<queue2, unsolved2, rx2, got2, up2, faults>>
  BY <1>1, SameMoves, SameStays, SamePut
<1>5. Two!SendTCPPackets(h, s.remote, ps) /\ OuterWires
  BY <1>1, <1>2, SameSend DEF OuterWires
<1> HIDE DEF s
<1> QED
  BY <1>1, <1>3, <1>4, <1>5 DEF Two!CloseSendFin

\* What the application thread of one of the two hosts does, it does alone.
LEMMA SameAppStep ==
  ASSUME Beside, TypeOK, Two!TypeOK, NEW h \in MCHost,
         AppStep(h) \/ SpuriousWakeup(h)
  PROVE  (Two!AppStep(h) \/ Two!SpuriousWakeup(h)) /\ OuterWires
<1>1. CASE Connect(h) \/ WriteSend(h) \/ CloseSendFin(h)
  BY <1>1, SameConnect, SameWriteSend, SameCloseSendFin DEF Two!AppStep
<1>2. CASE \/ SocketCreate(h) \/ SocketBind(h) \/ AcceptCreate(h) \/ ReadReturn(h)
           \/ WriteAppend(h) \/ CallOnMissingSocket(h)
  <2>1. OuterWires
    BY <1>2, Zenon DEF OuterWires, SocketCreate, SocketBind, AcceptCreate, ReadReturn,
       WriteAppend, CallOnMissingSocket
  <2> QED
    BY <1>2, <2>1, SameSocketCreate, SameSocketBind, SameAcceptCreate,
       SameReadReturn, SameWriteAppend, SameCallOnMissingSocket DEF Two!AppStep
<1>3. CASE \/ ConnectReturn(h) \/ AcceptAwaitAck(h) \/ TestCondition(h) \/ Block(h)
           \/ Read(h) \/ WriteReturn(h) \/ CloseServer(h) \/ CloseReturn(h)
           \/ SpuriousWakeup(h)
  <2>1. OuterWires
    BY <1>3 DEF OuterWires, ConnectReturn, AcceptAwaitAck, TestCondition, Block,
       Read, WriteReturn, CloseServer, CloseReturn, SpuriousWakeup
  <2> QED
    BY <1>3, <2>1, SameWaits DEF Two!AppStep
<1>4. CASE \/ SocketListen(h) \/ AcceptDemote(h) \/ AcceptPromote(h)
           \/ AcceptReturn(h) \/ CloseStore(h)
  <2>1. OuterWires
    BY <1>4, ZenonT(40) DEF OuterWires, SocketListen, AcceptDemote, AcceptPromote,
       AcceptReturn, CloseStore
  <2> QED
    BY <1>4, <2>1, SameStores DEF Two!AppStep
<1> QED
  BY <1>1, <1>2, <1>3, <1>4 DEF AppStep
-----------------------------------------------------------------------------
(* The processip thread. *)

LEMMA SamePop ==
  ASSUME Beside, TypeOK, NEW h \in MCHost, Pop(h)
  PROVE  Two!Pop(h)
<1> DEFINE f == Head(unsolved[h])
           p == Head(queue[h][f])
           st == sock[h][f].status
<1>1. /\ RxAt(h, "pop") /\ unsolved[h] # <<>> /\ queue[h][f] # <<>>
      /\ rx' = [rx EXCEPT ![h].pc = "react", ![h].fd = f, ![h].pkt = p,
                          ![h].seen = st]
      /\ queue' = [queue EXCEPT ![h][f] = Tail(@)]
      /\ unsolved' = [unsolved EXCEPT ![h] = Tail(@)]
      /\ UNCHANGED <<sock, wire, app, got, up, faults>>
  BY DEF Pop
<1>2. /\ Two!RxAt(h, "pop") /\ unsolved2[h] = unsolved[h] /\ queue2[h] = queue[h]
      /\ sock2[h] = sock[h]
  BY <1>1, SameState, SameTests
<1>3. h \in Host /\ MCHost \subseteq Host
  BY DEF Beside
<1> HIDE DEF f, p, st
<1>4. rx2' = [rx2 EXCEPT ![h].pc = "react", ![h].fd = f, ![h].pkt = p,
                         ![h].seen = st]
  <2>1. rx \in [Host -> RxThread]
    BY DEF TypeOK
  <2> QED
    BY <1>1, <1>3, <2>1, Zenon DEF rx2
<1>5. queue2' = [queue2 EXCEPT ![h][f] = Tail(@)]
  <2>1. queue \in [Host -> [Fd -> Seq(SafePacket)]]
    BY DEF TypeOK
  <2> QED
    BY <1>1, <1>3, <2>1, Zenon DEF queue2
<1>6. unsolved2' = [unsolved2 EXCEPT ![h] = Tail(@)]
  <2>1. unsolved \in [Host -> Seq(Fd)]
    BY DEF TypeOK
  <2> QED
    BY <1>1, <1>3, <2>1, Zenon DEF unsolved2
<1>7. UNCHANGED <<sock2, wire2, app2, got2, up2, faults>>
  BY <1>1, SameStays
<1> QED
  BY <1>1, <1>2, <1>4, <1>5, <1>6, <1>7 DEF Two!Pop, f, p, st

LEMMA SameReact ==
  ASSUME Beside, TypeOK, Two!TypeOK, NEW h \in MCHost, React(h)
  PROVE  Two!React(h) /\ OuterWires
<1> DEFINE R == Applicable(h, rx[h].seen) \cup Applicable(h, RxSock(h).status)
<1>1. PICK r \in R :
        /\ SendTCPPackets(h, rx[h].pkt.src,
             [i \in DOMAIN r.send |-> Reply(rx[h].pkt, r.send[i])])
        /\ rx' = [rx EXCEPT ![h].pc = "store", ![h].rule = r]
  BY Zenon DEF React
<1> DEFINE ps == [i \in DOMAIN r.send |-> Reply(rx[h].pkt, r.send[i])]
           qs == [i \in DOMAIN r.send |-> Two!Reply(rx2[h].pkt, r.send[i])]
<1>2. qs = ps
  BY SameState, SameOperators
<1>3. R = Two!Applicable(h, rx2[h].seen) \cup Two!Applicable(h, Two!RxSock(h).status)
  BY SameState, SameTests
<1>4. Two!SendTCPPackets(h, rx[h].pkt.src, ps) /\ OuterWires
  BY <1>1, OwnEndpoints, SameSend, Zenon DEF OuterWires
<1> HIDE DEF ps, qs, R
<1>5. rx2' = [rx2 EXCEPT ![h].pc = "store", ![h].rule = r]
  <2>1. rx \in [Host -> RxThread] /\ h \in Host /\ MCHost \subseteq Host
    BY DEF TypeOK, Beside
  <2> QED
    BY <1>1, <2>1, Zenon DEF rx2
<1>6. /\ Two!RxAt(h, "react") /\ rx2[h] = rx[h]
      /\ UNCHANGED <<sock2, queue2, unsolved2, app2, got2, up2, faults>>
  BY SameTests, SameState, SameStays DEF React
<1>7. Two!SendTCPPackets(h, rx2[h].pkt.src, qs)
  BY <1>2, <1>4, <1>6
<1>8. r \in Two!Applicable(h, rx2[h].seen) \cup Two!Applicable(h, Two!RxSock(h).status)
  BY <1>3
<1>9. Two!React(h)
  BY <1>5, <1>6, <1>7, <1>8, Zenon DEF Two!React, qs
<1> QED
  BY <1>4, <1>9

LEMMA SameStore ==
  ASSUME Beside, TypeOK, NEW h \in MCHost, Store(h)
  PROVE  Two!Store(h)
  BY SameState, SameTests, SameMoves, SameStays, SamePut, Zenon DEF Store, Two!Store

LEMMA SameIgnore ==
  ASSUME Beside, TypeOK, NEW h \in MCHost, Ignore(h)
  PROVE  Two!Ignore(h)
<1>1. /\ Two!RxAt(h, "react") /\ rx2[h] = rx[h] /\ Two!RxSock(h) = RxSock(h)
      /\ Two!Applicable(h, rx[h].seen) = Applicable(h, rx[h].seen)
      /\ Two!Idle(h)
  BY SameState, SameTests, SameMoves DEF Ignore
<1>2. UNCHANGED <<sock2, queue2, unsolved2, wire2, app2, got2, up2, faults>>
  BY SameStays DEF Ignore
<1> QED
  BY <1>1, <1>2 DEF Ignore, Two!Ignore

LEMMA SameRecvTCPAck ==
  ASSUME Beside, TypeOK, Two!TypeOK, NEW h \in MCHost, RecvTCPAck(h)
  PROVE  Two!RecvTCPAck(h) /\ OuterWires
<1> DEFINE s == RxSock(h)
           p == rx[h].pkt
           n == Lesser(MSS, s.sizep - p.ack)
           ps == <<Segment("DATA", p.dst, p.src, p.ack, 0, Slice(s.databuf, p.ack, n))>>
           t == [s EXCEPT !.writep = p.ack]
<1>1. /\ RxAt(h, "react") /\ p.kind = "ACK" /\ "ESTAB" \in {rx[h].seen, s.status}
      /\ IF s.role = "server" THEN UNCHANGED <<sock, wire>>
         ELSE /\ Put(h, rx[h].fd, t)
              /\ IF p.ack >= s.sizep THEN UNCHANGED wire
                 ELSE SendTCPPackets(h, p.src, ps)
      /\ Idle(h) /\ UNCHANGED <<queue, unsolved, app, got, up, faults>>
  BY DEF RecvTCPAck
<1>2. /\ Two!Lesser(MSS, s.sizep - p.ack) = n
      /\ Two!Segment("DATA", p.dst, p.src, p.ack, 0, Two!Slice(s.databuf, p.ack, n))
           = Segment("DATA", p.dst, p.src, p.ack, 0, Slice(s.databuf, p.ack, n))
      /\ Two!RxSock(h) = s /\ rx2[h] = rx[h] /\ Two!RxAt(h, "react")
  BY <1>1, SameState, SameTests, SameOperators
<1>3. p.src \in MCEndpoint \cup {none}
  BY OwnEndpoints
<1>4. Two!Idle(h) /\ UNCHANGED <<queue2, unsolved2, app2, got2, up2, faults>>
  BY <1>1, SameMoves, SameStays
<1>5. /\ IF s.role = "server" THEN UNCHANGED <<sock2, wire2>>
         ELSE /\ Two!Put(h, rx[h].fd, t)
              /\ IF p.ack >= s.sizep THEN UNCHANGED wire2
                 ELSE Two!SendTCPPackets(h, p.src, ps)
      /\ OuterWires
  <2>1. SendTCPPackets(h, p.src, ps) => Two!SendTCPPackets(h, p.src, ps) /\ OuterWires
    BY <1>3, SameSend DEF OuterWires
  <2>2. UNCHANGED wire => UNCHANGED wire2 /\ OuterWires
    BY SameStays DEF OuterWires
  <2>3. UNCHANGED sock => UNCHANGED sock2
    BY SameStays
  <2>4. Put(h, rx[h].fd, t) => Two!Put(h, rx[h].fd, t)
    BY SamePut
  <2> HIDE DEF t, ps, s, p
  <2> QED
    BY <1>1, <2>1, <2>2, <2>3, <2>4
<1> HIDE DEF s, n
<1>6. Two!RecvTCPAck(h)
  BY <1>1, <1>2, <1>4, <1>5 DEF Two!RecvTCPAck
<1> QED
  BY <1>5, <1>6

LEMMA SameRecvTCPData ==
  ASSUME Beside, TypeOK, Two!TypeOK, NEW h \in MCHost, RecvTCPData(h)
  PROVE  Two!RecvTCPData(h) /\ OuterWires
<1> DEFINE s == RxSock(h)
           p == rx[h].pkt
           end == p.seq + Len(p.data)
           ps == <<Segment("ACK", p.dst, p.src, 0, end, <<>>)>>
           t == [s EXCEPT !.databuf = CopyIn(@, p.seq, p.data),
                          !.sizep = IF end > @ THEN end ELSE @]
           u == [s EXCEPT !.databuf = Two!CopyIn(@, p.seq, p.data),
                          !.sizep = IF end > @ THEN end ELSE @]
<1>1. /\ RxAt(h, "react") /\ p.kind = "DATA" /\ Put(h, rx[h].fd, t)
      /\ IF end > s.sizep THEN NotifyAll(h, rx[h].fd, {"read"}) ELSE UNCHANGED app
      /\ SendTCPPackets(h, p.src, ps)
      /\ Idle(h) /\ UNCHANGED <<queue, unsolved, got, up, faults>>
  BY DEF RecvTCPData
<1>2. /\ u = t
      /\ Two!Segment("ACK", p.dst, p.src, 0, end, <<>>)
           = Segment("ACK", p.dst, p.src, 0, end, <<>>)
      /\ Two!RxSock(h) = s /\ rx2[h] = rx[h] /\ Two!RxAt(h, "react")
  BY <1>1, SameState, SameTests, SameOperators, Zenon
<1>3. p.src \in MCEndpoint \cup {none}
  BY OwnEndpoints
<1>4. Two!Idle(h) /\ UNCHANGED <<queue2, unsolved2, got2, up2, faults>>
  BY <1>1, SameMoves, SameStays, SMTT(40)
<1>5. IF end > s.sizep THEN Two!NotifyAll(h, rx[h].fd, {"read"}) ELSE UNCHANGED app2
  BY <1>1, SameMoves, SameStays
<1>6. Two!SendTCPPackets(h, p.src, ps) /\ OuterWires
  BY <1>1, <1>3, SameSend, Zenon DEF OuterWires
<1>7. Two!Put(h, rx[h].fd, u)
  BY <1>1, <1>2, SamePut
<1> HIDE DEF s
<1>8. Two!RecvTCPData(h)
  BY <1>1, <1>2, <1>4, <1>5, <1>6, <1>7 DEF Two!RecvTCPData
<1> QED
  BY <1>6, <1>8

\* And so is what processip does.
LEMMA SameRxStep ==
  ASSUME Beside, TypeOK, Two!TypeOK, NEW h \in MCHost, RxStep(h)
  PROVE  Two!RxStep(h) /\ OuterWires
<1>1. Pop(h) \/ Store(h) \/ Ignore(h) => OuterWires
  BY DEF Pop, Store, Ignore, OuterWires
<1> QED
  BY <1>1, SamePop, SameReact, SameStore, SameIgnore, SameRecvTCPAck, SameRecvTCPData
     DEF RxStep, Two!RxStep
-----------------------------------------------------------------------------
(* Packets on the links between the two hosts. *)

LEMMA SameWire ==
  ASSUME Beside, TypeOK, NEW g \in MCHost, NEW h \in MCHost, NEW w,
         wire' = [wire EXCEPT ![g][h] = w]
  PROVE  wire2' = [wire2 EXCEPT ![g][h] = w] /\ OuterWires
<1>1. /\ wire \in [Host -> [Host -> Seq(SafePacket)]] /\ MCHost \subseteq Host
      /\ g \in Host /\ h \in Host
  BY DEF TypeOK, Beside
<1>2. wire2' = [wire2 EXCEPT ![g][h] = w]
  BY <1>1, Zenon DEF wire2
<1>3. OuterWires
  BY <1>1 DEF OuterWires
<1> QED
  BY <1>2, <1>3

LEMMA SameRecvIPPacket ==
  ASSUME Beside, TypeOK, NEW g \in MCHost, NEW h \in MCHost, RecvIPPacket(g, h)
  PROVE  Two!RecvIPPacket(g, h) /\ OuterWires
<1> DEFINE p == Head(wire[g][h])
           f == Destination(h, p)
           s == [sock[h][f] EXCEPT !.local = p.dst, !.remote = p.src]
           w == Tail(wire[g][h])
<1>1. /\ up[h] /\ wire[g][h] # <<>> /\ f \in Fd
      /\ IF p.kind = "SYN" THEN Put(h, f, s) ELSE UNCHANGED sock
      /\ queue' = [queue EXCEPT ![h][f] = Append(@, p)]
      /\ unsolved' = [unsolved EXCEPT ![h] = Append(@, f)]
      /\ UNCHANGED <<app, rx, got, up, faults>>
  BY ZenonT(40) DEF RecvIPPacket
<1>2. wire' = [wire EXCEPT ![g][h] = w]
  BY DEF RecvIPPacket, Arrives
<1>3. /\ wire2[g][h] = wire[g][h] /\ up2[h] = up[h] /\ sock2[h] = sock[h]
      /\ Two!Destination(h, p) = f /\ Two!Fd = Fd
  BY SameState, SameTests, SameConstants
<1>4. h \in Host /\ MCHost \subseteq Host
  BY DEF Beside
<1>5. wire2' = [wire2 EXCEPT ![g][h] = w] /\ OuterWires
  BY <1>2, SameWire, Zenon
<1>6. Two!Arrives(g, h)
  BY <1>3, <1>5 DEF Two!Arrives
<1>7. IF p.kind = "SYN" THEN Two!Put(h, f, s) ELSE UNCHANGED sock2
  BY <1>1, SamePut, SameStays, ZenonT(40)
<1> HIDE DEF f, s, p
<1>8. queue2' = [queue2 EXCEPT ![h][f] = Append(@, p)]
  <2>1. queue \in [Host -> [Fd -> Seq(SafePacket)]]
    BY DEF TypeOK
  <2> QED
    BY <1>1, <1>4, <2>1, Zenon DEF queue2
<1>9. unsolved2' = [unsolved2 EXCEPT ![h] = Append(@, f)]
  <2>1. unsolved \in [Host -> Seq(Fd)]
    BY DEF TypeOK
  <2> QED
    BY <1>1, <1>4, <2>1, Zenon DEF unsolved2
<1>10. UNCHANGED <<app2, rx2, got2, up2, faults>>
  BY <1>1, SameStays
<1>11. p = Head(wire[g][h]) /\ s = [sock[h][f] EXCEPT !.local = p.dst, !.remote = p.src]
  BY SMTT(40) DEF p, s
<1>12. Two!RecvIPPacket(g, h)
  BY <1>1, <1>3, <1>6, <1>7, <1>8, <1>9, <1>10, <1>11, Zenon DEF Two!RecvIPPacket
<1> QED
  BY <1>5, <1>12, ZenonT(40)

LEMMA SameRecvUnmatchedPacket ==
  ASSUME Beside, TypeOK, NEW g \in MCHost, NEW h \in MCHost, RecvUnmatchedPacket(g, h)
  PROVE  Two!RecvUnmatchedPacket(g, h) /\ OuterWires
<1> DEFINE w == Tail(wire[g][h])
<1>1. /\ wire2[g][h] = wire[g][h] /\ up2[h] = up[h] /\ Two!Fd = Fd
      /\ Two!Destination(h, Head(wire[g][h])) = Destination(h, Head(wire[g][h]))
  BY SameState, SameTests, SameConstants
<1>2. wire2' = [wire2 EXCEPT ![g][h] = w] /\ OuterWires
  BY SameWire, Zenon DEF RecvUnmatchedPacket, Arrives
<1>3. Two!Arrives(g, h)
  BY <1>1, <1>2 DEF Two!Arrives
<1>4. up2' = [up2 EXCEPT ![h] = FALSE]
  BY SameDeath, Zenon DEF RecvUnmatchedPacket
<1>5. UNCHANGED <<sock2, queue2, unsolved2, app2, rx2, got2, faults>>
  BY SameStays DEF RecvUnmatchedPacket
<1>6. Two!RecvUnmatchedPacket(g, h)
  BY <1>1, <1>3, <1>4, <1>5 DEF RecvUnmatchedPacket, Two!RecvUnmatchedPacket
<1> QED
  BY <1>2, <1>6

LEMMA SameFault ==
  ASSUME NEW kind, Fault(kind)
  PROVE  Two!Fault(kind)
  BY SameStays DEF Fault, Two!Fault

LEMMA SameFaults ==
  ASSUME Beside, TypeOK, NEW g \in MCHost, NEW h \in MCHost,
         Lose(g, h) \/ Duplicate(g, h) \/ Reorder(g, h)
  PROVE  (Two!Lose(g, h) \/ Two!Duplicate(g, h) \/ Two!Reorder(g, h)) /\ OuterWires
<1>1. wire2[g][h] = wire[g][h]
  BY SameState
<1>2. CASE Lose(g, h)
  <2>1. PICK i \in DOMAIN wire[g][h] : wire' = [wire EXCEPT ![g][h] = RemoveAt(@, i)]
    BY <1>2, Zenon DEF Lose
  <2> DEFINE w == RemoveAt(wire[g][h], i)
  <2>2. wire2' = [wire2 EXCEPT ![g][h] = w] /\ OuterWires
    BY <2>1, SameWire, Zenon
  <2>3. RemoveAt(wire2[g][h], i) = w /\ i \in DOMAIN wire2[g][h] /\ Two!Fault("lose")
    BY <1>1, <1>2, SameFault DEF Lose
  <2> HIDE DEF w
  <2>4. wire2' = [wire2 EXCEPT ![g][h] = RemoveAt(@, i)]
    BY <2>2, <2>3
  <2>5. Two!RemoveAt(wire2[g][h], i) = RemoveAt(wire2[g][h], i)
    BY DEF Two!RemoveAt, RemoveAt
  <2>6. wire2' = [wire2 EXCEPT ![g][h] = Two!RemoveAt(@, i)]
    BY <2>4, <2>5
  <2>7. Two!Lose(g, h)
    BY <2>3, <2>6, Zenon DEF Two!Lose
  <2> QED
    BY <2>2, <2>7
<1>3. CASE Duplicate(g, h)
  <2>1. PICK i \in DOMAIN wire[g][h] : wire' = [wire EXCEPT ![g][h] = Append(@, wire[g][h][i])]
    BY <1>3, Zenon DEF Duplicate
  <2> DEFINE w == Append(wire[g][h], wire[g][h][i])
  <2>2. wire2' = [wire2 EXCEPT ![g][h] = w] /\ OuterWires
    BY <2>1, SameWire, Zenon
  <2>3. /\ Append(wire2[g][h], wire2[g][h][i]) = w /\ i \in DOMAIN wire2[g][h]
        /\ Two!Fault("duplicate")
    BY <1>1, <1>3, SameFault DEF Duplicate
  <2> HIDE DEF w
  <2>4. wire2' = [wire2 EXCEPT ![g][h] = Append(@, wire2[g][h][i])]
    BY <2>2, <2>3
  <2>5. Two!Duplicate(g, h)
    BY <2>3, <2>4, Zenon DEF Two!Duplicate
  <2> QED
    BY <2>2, <2>5
<1>4. CASE Reorder(g, h)
  <2>1. PICK i \in DOMAIN wire[g][h] :
          /\ i + 1 \in DOMAIN wire[g][h]
          /\ wire' = [wire EXCEPT ![g][h][i] = wire[g][h][i + 1],
                                  ![g][h][i + 1] = wire[g][h][i]]
    BY <1>4, Zenon DEF Reorder
  <2> DEFINE a == wire[g][h][i]
             b == wire[g][h][i + 1]
  <2>2. /\ wire \in [Host -> [Host -> Seq(SafePacket)]] /\ MCHost \subseteq Host
        /\ g \in Host /\ h \in Host
    BY ZenonT(40) DEF TypeOK, Beside
  <2>3. /\ wire2[g][h][i] = a /\ wire2[g][h][i + 1] = b
        /\ i \in DOMAIN wire2[g][h] /\ i + 1 \in DOMAIN wire2[g][h]
        /\ Two!Fault("reorder")
    BY <1>1, <1>4, <2>1, SameFault DEF Reorder
  <2> HIDE DEF a, b
  <2>4. wire' = [wire EXCEPT ![g][h][i] = b, ![g][h][i + 1] = a]
    BY <2>1 DEF a, b
  <2>5. wire2' = [wire2 EXCEPT ![g][h][i] = b, ![g][h][i + 1] = a]
    BY <2>2, <2>4, Zenon DEF wire2
  <2>6. Two!Reorder(g, h)
    BY <2>3, <2>5, Zenon DEF Two!Reorder
  <2>7. OuterWires
    BY <2>2, <2>4, Zenon DEF OuterWires
  <2> QED
    BY <2>6, <2>7
<1> QED
  BY <1>2, <1>3, <1>4
-----------------------------------------------------------------------------
(* The other hosts. *)

\* Nothing is on its way to or from another host, or being processed there.
Apart ==
  /\ Quiet
  /\ \A g \in MCHost, h \in Host \ MCHost : wire[g][h] = <<>>
  /\ \A h \in Host \ MCHost : /\ unsolved[h] = <<>> /\ rx[h].pc = "pop"
                              /\ \A f \in Fd : queue[h][f] = <<>>

\* A thread that makes calls does not deliver packets.
LEMMA CallsDeliverNothing ==
  ASSUME NEW h \in Host, AppStep(h) \/ SpuriousWakeup(h)
  PROVE  UNCHANGED <<queue, unsolved, rx, faults>>
  BY Zenon DEF AppStep, SocketCreate, SocketBind, SocketListen, Connect,
     ConnectReturn, AcceptCreate, AcceptDemote, AcceptPromote,
     AcceptAwaitAck, AcceptReturn, TestCondition, Block, SpuriousWakeup,
     Read, ReadReturn, WriteAppend, WriteSend, WriteReturn, CloseServer,
     CloseSendFin, CloseStore, CloseReturn, CallOnMissingSocket

\* What a host's program has read, what is queued for it, and whether it lives,
\* are its own affair.
LEMMA OwnAffair ==
  ASSUME TypeOK, NEW h \in Host, NEW g \in Host \ {h},
         AppStep(h) \/ SpuriousWakeup(h) \/ RxStep(h)
  PROVE  got'[g] = got[g] /\ up'[g] = up[g] /\ queue'[g] = queue[g]
<1>1. CASE AppStep(h) \/ SpuriousWakeup(h)
  <2>1. got'[g] = got[g]
    BY <1>1, Zenon DEF TypeOK, AppStep, SocketCreate, SocketBind, SocketListen, Connect,
       ConnectReturn, AcceptCreate, AcceptDemote, AcceptPromote,
       AcceptAwaitAck, AcceptReturn, TestCondition, Block, SpuriousWakeup,
       Read, ReadReturn, WriteAppend, WriteSend, WriteReturn, CloseServer,
       CloseSendFin, CloseStore, CloseReturn, CallOnMissingSocket
  <2>2. up'[g] = up[g]
    BY <1>1, ZenonT(40) DEF TypeOK, AppStep, SocketCreate, SocketBind, SocketListen, Connect,
       ConnectReturn, AcceptCreate, AcceptDemote, AcceptPromote,
       AcceptAwaitAck, AcceptReturn, TestCondition, Block, SpuriousWakeup,
       Read, ReadReturn, WriteAppend, WriteSend, WriteReturn, CloseServer,
       CloseSendFin, CloseStore, CloseReturn, CallOnMissingSocket
  <2> QED
    BY <1>1, <2>1, <2>2, CallsDeliverNothing
<1>2. CASE RxStep(h)
  BY <1>2, Zenon DEF TypeOK, RxStep, Pop, React, Store, RecvTCPAck, RecvTCPData, Ignore
<1> QED
  BY <1>1, <1>2

\* Its calls send packets, or leave the wires alone.
LEMMA CallsSend ==
  ASSUME NEW h \in Host, AppStep(h) \/ SpuriousWakeup(h)
  PROVE  UNCHANGED wire \/ \E dst, p : SendTCPPackets(h, dst, <<p>>)
<1>1. CASE Connect(h) \/ CloseSendFin(h)
  BY <1>1, Zenon DEF Connect, CloseSendFin
<1>2. CASE WriteSend(h)
  BY <1>2, Zenon DEF WriteSend
<1>3. CASE ~(Connect(h) \/ CloseSendFin(h) \/ WriteSend(h))
  BY <1>3, Zenon DEF AppStep, SocketCreate, SocketBind, SocketListen,
     ConnectReturn, AcceptCreate, AcceptDemote, AcceptPromote,
     AcceptAwaitAck, AcceptReturn, TestCondition, Block, SpuriousWakeup,
     Read, ReadReturn, WriteAppend, WriteReturn, CloseServer,
     CloseStore, CloseReturn, CallOnMissingSocket
<1> QED
  BY <1>1, <1>2, <1>3, Zenon

\* A packet that is sent to a host is on its way there.
LEMMA NothingSent ==
  ASSUME TypeOK, Quiet, Quiet', NEW h \in Host \ MCHost, NEW dst, NEW p,
         SendTCPPackets(h, dst, <<p>>)
  PROVE  UNCHANGED wire
<1>1. CASE dst \in Endpoint
  <2> DEFINE k == HostOf[dst]
  <2>1. k \in Host
    BY <1>1, TcpAssumption DEF TcpAssumption
  <2>2. wire' = [wire EXCEPT ![h][k] = @ \o <<p>>]
    BY <1>1 DEF SendTCPPackets
  <2> HIDE DEF k
  <2>3. wire \in [Host -> [Host -> Seq(SafePacket)]]
    BY DEF TypeOK
  <2>4. wire'[h][k] = wire[h][k] \o <<p>>
    BY <2>1, <2>2, <2>3
  <2>5. wire'[h][k] = <<>> /\ wire[h][k] = <<>>
    BY <2>1 DEF Quiet
  <2>6. <<>> \o <<p>> # <<>>
    OBVIOUS
  <2> QED
    BY <2>4, <2>5, <2>6, Zenon
<1>2. CASE dst \notin Endpoint
  BY <1>2 DEF SendTCPPackets
<1> QED
  BY <1>1, <1>2

\* What another host does leaves the two alone.
LEMMA OthersAlone ==
  ASSUME Beside, TypeOK, Apart, Quiet', NEW h \in Host \ MCHost,
         AppStep(h) \/ SpuriousWakeup(h)
  PROVE  UNCHANGED Two!vars /\ UNCHANGED <<wire, queue, unsolved, rx>>
<1>1. UNCHANGED <<queue, unsolved, rx, faults>>
  BY CallsDeliverNothing
<1>2. UNCHANGED wire
  BY CallsSend, NothingSent, Zenon DEF Apart
<1>3. \A g \in MCHost : g \in Host \ {h}
  BY DEF Beside
<1>4. \A g \in MCHost : /\ sock'[g] = sock[g] /\ app'[g] = app[g]
                       /\ got'[g] = got[g] /\ up'[g] = up[g]
  BY <1>3, OthersUnchanged, OwnAffair
<1>5. UNCHANGED <<sock2, app2, got2, up2>>
  BY <1>4, Zenon DEF sock2, app2, got2, up2
<1>6. UNCHANGED <<queue2, unsolved2, rx2, wire2>>
  BY <1>1, <1>2, SameStays
<1> QED
  BY <1>1, <1>2, <1>5, <1>6 DEF Two!vars

\* The state of the others.
OthersStay ==
  \A h \in Host \ MCHost :
    /\ sock'[h] = sock[h] /\ queue'[h] = queue[h] /\ unsolved'[h] = unsolved[h]
    /\ app'[h] = app[h] /\ rx'[h] = rx[h] /\ up'[h] = up[h]

\* What is delivered to one of two hosts is delivered to no other.
LEMMA OthersUndelivered ==
  ASSUME Beside, TypeOK, NEW g \in MCHost, NEW h \in MCHost,
         \/ RecvIPPacket(g, h) \/ RecvUnmatchedPacket(g, h)
         \/ Lose(g, h) \/ Duplicate(g, h) \/ Reorder(g, h)
  PROVE  OthersStay
<1>1. CASE RecvIPPacket(g, h)
  <2>1. UNCHANGED <<app, rx, up>>
    BY <1>1, SMTT(40) DEF RecvIPPacket
  <2>2. \A k \in Host \ MCHost : queue'[k] = queue[k] /\ unsolved'[k] = unsolved[k]
    <3>1. /\ queue \in [Host -> [Fd -> Seq(SafePacket)]]
          /\ unsolved \in [Host -> Seq(Fd)]
      BY SMTT(40) DEF TypeOK
    <3> QED
      BY <1>1, <3>1, ZenonT(40) DEF RecvIPPacket
  <2>3. \A k \in Host \ MCHost : sock'[k] = sock[k]
    <3>1. sock \in [Host -> [Fd -> SafeSocket]]
      BY DEF TypeOK
    <3> QED
      BY <1>1, <3>1, ZenonT(40) DEF RecvIPPacket, Put
  <2> QED
    BY <2>1, <2>2, <2>3 DEF OthersStay
<1>2. CASE RecvUnmatchedPacket(g, h)
  <2>1. up \in [Host -> BOOLEAN]
    BY ZenonT(40) DEF TypeOK
  <2> QED
    BY <1>2, <2>1, Zenon DEF RecvUnmatchedPacket, OthersStay
<1>3. CASE Lose(g, h) \/ Duplicate(g, h) \/ Reorder(g, h)
  BY <1>3 DEF Lose, Duplicate, Reorder, Fault, OthersStay
<1> QED
  BY <1>1, <1>2, <1>3

\* A step of the two hosts and the links between them.
TwoMove ==
  \/ \E h \in MCHost : AppStep(h) \/ SpuriousWakeup(h) \/ RxStep(h)
  \/ \E g, h \in MCHost : \/ RecvIPPacket(g, h) \/ RecvUnmatchedPacket(g, h)
                          \/ Lose(g, h) \/ Duplicate(g, h) \/ Reorder(g, h)

\* Such a step is one of the two hosts alone.
LEMMA TwoMoveAlone ==
  ASSUME Beside, TypeOK, Two!TypeOK, TwoMove
  PROVE  Two!Next /\ OuterWires /\ OthersStay
<1>1. CASE \E h \in MCHost : AppStep(h) \/ SpuriousWakeup(h) \/ RxStep(h)
  <2>1. PICK h \in MCHost : AppStep(h) \/ SpuriousWakeup(h) \/ RxStep(h)
    BY <1>1
  <2>2. (Two!AppStep(h) \/ Two!SpuriousWakeup(h) \/ Two!RxStep(h)) /\ OuterWires
    BY <2>1, SameAppStep, SameRxStep
  <2>3. OthersStay
    BY <2>1, HostKnown, OthersUnchanged, OwnAffair DEF OthersStay
  <2> QED
    BY <2>2, <2>3 DEF Two!Next
<1>2. CASE \E g, h \in MCHost : \/ RecvIPPacket(g, h) \/ RecvUnmatchedPacket(g, h)
                              \/ Lose(g, h) \/ Duplicate(g, h) \/ Reorder(g, h)
  <2>1. PICK g \in MCHost, h \in MCHost :
          \/ RecvIPPacket(g, h) \/ RecvUnmatchedPacket(g, h)
          \/ Lose(g, h) \/ Duplicate(g, h) \/ Reorder(g, h)
    BY <1>2
  <2>2. /\ \/ Two!RecvIPPacket(g, h) \/ Two!RecvUnmatchedPacket(g, h)
           \/ Two!Lose(g, h) \/ Two!Duplicate(g, h) \/ Two!Reorder(g, h)
        /\ OuterWires
    BY <2>1, SameRecvIPPacket, SameRecvUnmatchedPacket, SameFaults
  <2>3. OthersStay
    BY <2>1, OthersUndelivered
  <2> QED
    BY <2>2, <2>3 DEF Two!Next
<1> QED
  BY <1>1, <1>2 DEF TwoMove

\* While nothing is on its way to or from the others, they only make calls.
LEMMA Moving ==
  ASSUME Apart, [Next]_vars
  PROVE  \/ TwoMove
         \/ \E h \in Host \ MCHost : AppStep(h) \/ SpuriousWakeup(h)
         \/ UNCHANGED vars
<1>1. ASSUME NEW h \in Host \ MCHost PROVE ~RxStep(h)
  BY DEF Apart, RxStep, Pop, React, Store, RecvTCPAck, RecvTCPData, Ignore, RxAt
<1>2. ASSUME NEW g \in Host, NEW h \in Host,
             \/ RecvIPPacket(g, h) \/ RecvUnmatchedPacket(g, h)
             \/ Lose(g, h) \/ Duplicate(g, h) \/ Reorder(g, h)
      PROVE  g \in MCHost /\ h \in MCHost
  <2>1. DOMAIN <<>> = {}
    OBVIOUS
  <2>2. wire[g][h] # <<>> \/ \E i : i \in DOMAIN wire[g][h]
    BY <1>2, Zenon DEF RecvIPPacket, RecvUnmatchedPacket, Lose, Duplicate, Reorder
  <2> QED
    BY <2>1, <2>2 DEF Apart, Quiet
<1> QED
  BY <1>1, <1>2, ZenonT(40) DEF Next, Terminated, TwoMove

\* Every step is one of the two hosts alone, or leaves them alone.
LEMMA EitherStep ==
  ASSUME Beside, TypeOK, Two!TypeOK, Apart, Quiet', [Next]_vars
  PROVE  [Two!Next]_(Two!vars) /\ Apart'
<1>1. MCHost' = MCHost /\ Fd' = Fd
  BY DEF MCHost, Fd
<1>2. CASE TwoMove
  <2>1. Two!Next /\ OuterWires /\ OthersStay
    BY <1>2, TwoMoveAlone
  <2>2. Apart'
    BY <1>1, <2>1 DEF Apart, OuterWires, OthersStay, Beside
  <2> QED
    BY <2>1, <2>2
<1>3. CASE \E h \in Host \ MCHost : AppStep(h) \/ SpuriousWakeup(h)
  <2>1. PICK h \in Host \ MCHost : AppStep(h) \/ SpuriousWakeup(h)
    BY <1>3
  <2>2. UNCHANGED Two!vars /\ UNCHANGED <<wire, queue, unsolved, rx>>
    BY <2>1, OthersAlone
  <2>3. Apart'
    BY <1>1, <2>2 DEF Apart
  <2> QED
    BY <2>2, <2>3
<1>4. CASE UNCHANGED vars
  <2>1. UNCHANGED <<sock, queue, unsolved, wire, app, rx, got, up, faults>>
    BY <1>4 DEF vars
  <2>2. UNCHANGED Two!vars
    BY <2>1, SameStays DEF Two!vars
  <2>3. Apart'
    BY <1>1, <2>1 DEF Apart
  <2> QED
    BY <2>2, <2>3
<1> QED
  BY <1>2, <1>3, <1>4, Moving

-----------------------------------------------------------------------------
(* The two hosts behave as they do alone. *)

LEMMA TwoInit ==
  ASSUME Beside, Init
  PROVE  Two!Init /\ Apart
<1>1. MCHost \subseteq Host
  BY DEF Beside
<1>2. /\ sock2 = [h \in MCHost |-> [f \in Fd |-> NoSocket]]
      /\ queue2 = [h \in MCHost |-> [f \in Fd |-> <<>>]]
      /\ unsolved2 = [h \in MCHost |-> <<>>]
      /\ wire2 = [g \in MCHost |-> [h \in MCHost |-> <<>>]]
  BY <1>1, Zenon DEF Init, sock2, queue2, unsolved2, wire2
<1>3. /\ app2 = [h \in MCHost |-> [ip |-> 1, pc |-> "call", cv |-> "conn",
                                   lfd |-> FirstFd, cfd |-> FirstFd]]
      /\ rx2 = [h \in MCHost |-> [pc |-> "pop", fd |-> FirstFd, pkt |-> NoPacket,
                                  seen |-> "FREE", rule |-> NoRule]]
      /\ got2 = [h \in MCHost |-> [f \in Fd |-> <<>>]]
      /\ up2 = [h \in MCHost |-> TRUE]
  BY <1>1, Zenon DEF Init, app2, rx2, got2, up2
<1>4. faults = 0
  BY DEF Init
<1>5. Two!Init
  BY <1>2, <1>3, <1>4, SameConstants, Zenon DEF Two!Init
<1>6. Apart
  BY <1>1 DEF Init, Apart, Quiet
<1> QED
  BY <1>5, <1>6

\* The invariants of the system and of the two hosts.
ManyInv == IInv /\ Apart /\ Two!IInv

LEMMA ManyInit ==
  ASSUME Beside, Init
  PROVE  ManyInv
<1>1. Two!TcpAssumption
  BY TwoAssumption
<1>2. Two!Init /\ Apart
  BY TwoInit
<1>3. IInv
  BY InitHolds
<1>4. Two!IInv
  BY <1>1, <1>2, Two!InitHolds
<1> QED
  BY <1>2, <1>3, <1>4 DEF ManyInv

LEMMA ManyStep ==
  ASSUME Beside, ManyInv, Quiet', [Next]_vars
  PROVE  ManyInv' /\ [Two!Next]_(Two!vars)
<1>1. Two!TcpAssumption
  BY TwoAssumption
<1>2. IInv /\ Apart /\ Two!IInv /\ TypeOK /\ Two!TypeOK
  BY SMTT(40) DEF ManyInv, IInv, Two!IInv
<1>3. [Two!Next]_(Two!vars) /\ Apart'
  BY <1>2, EitherStep
<1>4. Two!IInv'
  <2>1. Two!ReadWithinArrived
    BY <1>2 DEF Two!IInv
  <2>2. Two!TypeOK'
    BY <1>1, <1>2, <1>3, <2>1, Two!StepType
  <2>3. Two!PendingSocketsExist'
    BY <1>1, <1>2, <1>3, Two!PendingStep
  <2>4. Two!ReadWithinArrived'
    BY <1>1, <1>2, <1>3, Two!ArrivedStep
  <2> QED
    BY <2>2, <2>3, <2>4 DEF Two!IInv
<1>5. IInv'
  <2>1. ReadWithinArrived
    BY <1>2 DEF IInv
  <2>2. TypeOK' /\ PendingSocketsExist' /\ ReadWithinArrived'
    BY <1>2, <2>1, StepType, PendingStep, ArrivedStep
  <2> QED
    BY <2>2 DEF IInv
<1> QED
  BY <1>3, <1>4, <1>5 DEF ManyInv

\* As long as the others send nothing, the two hosts behave as they do alone.
THEOREM TwoAlone ==
  ASSUME Beside
  PROVE  Spec /\ []Quiet => Two!Spec
<1>1. Init => ManyInv /\ Two!Init
  BY ManyInit, TwoInit
<1>2. ManyInv /\ Quiet' /\ [Next]_vars => ManyInv' /\ [Two!Next]_(Two!vars)
  BY ManyStep
<1> QED
  BY <1>1, <1>2, PTL DEF Spec, Two!Spec
-----------------------------------------------------------------------------
(* What holds of two hosts alone holds of them beside others. *)

LEMMA SameSockets ==
  ASSUME Beside
  PROVE  /\ Two!ClientSock = ClientSock /\ Two!ServerSock = ServerSock
         /\ Two!ClientEnd = ClientEnd /\ Two!ServerEnd = ServerEnd
         /\ Two!Sent = Sent /\ Two!Received = Received
         /\ \A h \in MCHost : \A f : Two!Committed(h, f) = Committed(h, f)
<1>1. Two!ClientSock = ClientSock /\ Two!ServerSock = ServerSock
  BY Hosts, SameState, SameConstants
     DEF Two!ClientSock, ClientSock, Two!ServerSock, ServerSock
<1>2. \A h \in MCHost : \A f : Two!Committed(h, f) = Committed(h, f)
  BY SameState DEF Two!Committed, Committed
<1>3. Two!ClientEnd = ClientEnd
  BY <1>2, Hosts, SameConstants, Zenon DEF Two!ClientEnd, ClientEnd
<1>4. Two!ServerEnd = ServerEnd
  BY <1>1, <1>2, Hosts, SameConstants, Zenon DEF Two!ServerEnd, ServerEnd
<1>5. Two!Sent = Sent
  BY <1>1, SameOperators DEF Two!Sent, Sent
<1>6. Two!Received = Received
  BY Hosts, SameState, SameConstants, SMTT(40) DEF Two!Received, Received
<1> QED
  BY <1>1, <1>2, <1>3, <1>4, <1>5, <1>6

\* The packets on their way are those of the two hosts.
LEMMA SameInTransit ==
  ASSUME Beside, Apart, NEW kinds
  PROVE  Two!InTransit(kinds) = InTransit(kinds)
<1> DEFINE some == 1 .. 9
           W == {x \in Host \X Host \X some :
                   LET w == wire[x[1]][x[2]]
                   IN  x[3] \in DOMAIN w /\ w[x[3]].kind \in kinds}
           W2 == {x \in MCHost \X MCHost \X some :
                    LET w == wire2[x[1]][x[2]]
                    IN  x[3] \in DOMAIN w /\ w[x[3]].kind \in kinds}
           Q == {x \in Host \X Fd \X some :
                   LET w == queue[x[1]][x[2]]
                   IN  x[3] \in DOMAIN w /\ w[x[3]].kind \in kinds}
           Q2 == {x \in MCHost \X Fd \X some :
                    LET w == queue2[x[1]][x[2]]
                    IN  x[3] \in DOMAIN w /\ w[x[3]].kind \in kinds}
           R == {h \in Host : rx[h].pc = "react" /\ rx[h].pkt.kind \in kinds}
           R2 == {h \in MCHost : rx2[h].pc = "react" /\ rx2[h].pkt.kind \in kinds}
<1>1. MCHost \subseteq Host /\ DOMAIN <<>> = {}
  BY DEF Beside
<1>2. W2 = W
  <2>1. \A x \in Host \X Host \X some :
          x[3] \in DOMAIN wire[x[1]][x[2]] => x[1] \in MCHost /\ x[2] \in MCHost
    BY <1>1 DEF Apart, Quiet
  <2>2. \A x \in MCHost \X MCHost \X some : wire2[x[1]][x[2]] = wire[x[1]][x[2]]
    BY DEF wire2
  <2> QED
    BY <1>1, <2>1, <2>2
<1>3. Q2 = Q
  <2>1. \A x \in Host \X Fd \X some : x[3] \in DOMAIN queue[x[1]][x[2]] => x[1] \in MCHost
    BY <1>1 DEF Apart
  <2>2. \A x \in MCHost \X Fd \X some : queue2[x[1]][x[2]] = queue[x[1]][x[2]]
    BY DEF queue2
  <2> QED
    BY <1>1, <2>1, <2>2
<1>4. R2 = R
  BY <1>1, SMTT(40) DEF Apart, rx2
<1>5. Cardinality(W2) + Cardinality(Q2) + Cardinality(R2)
        = Cardinality(W) + Cardinality(Q) + Cardinality(R)
  BY <1>2, <1>3, <1>4, Zenon
<1>6. InTransit(kinds) = Cardinality(W) + Cardinality(Q) + Cardinality(R)
  BY DEF InTransit
<1>7. \A S : Two!Cardinality(S) = Cardinality(S)
  BY SMTT(40) DEF Two!Cardinality, Cardinality
<1>8. Two!InTransit(kinds) = Cardinality(W2) + Cardinality(Q2) + Cardinality(R2)
  BY <1>7, SameConstants, ZenonT(40) DEF Two!InTransit
<1> QED
  BY <1>5, <1>6, <1>8, Zenon

\* Also after a step.
LEMMA SameSocketsAfter ==
  ASSUME Beside
  PROVE  /\ Two!ClientEnd' = ClientEnd' /\ Two!ServerEnd' = ServerEnd'
         /\ Two!Sent' = Sent' /\ Two!Received' = Received'
         /\ Two!ServerSock'.sizep = ServerSock'.sizep
<1>1. ASSUME NEW h \in MCHost
      PROVE  sock2'[h] = sock'[h] /\ rx2'[h] = rx'[h] /\ got2'[h] = got'[h]
  BY DEF sock2, rx2, got2
<1>2. Two!ClientSock' = ClientSock' /\ Two!ServerSock' = ServerSock'
  BY <1>1, Hosts, SameConstants
     DEF Two!ClientSock, ClientSock, Two!ServerSock, ServerSock
<1>3. \A h \in MCHost : \A f : Two!Committed(h, f)' = Committed(h, f)'
  BY <1>1 DEF Two!Committed, Committed
<1>4. Two!ClientFd' = ClientFd' /\ Two!ServerFd' = ServerFd'
  BY DEF Two!ClientFd, ClientFd, Two!ServerFd, ServerFd
<1>5. Two!Committed(sender, Two!ClientFd)' = Committed(sender, ClientFd)'
  BY <1>3, Hosts DEF Two!ClientFd, ClientFd
<1>6. Two!Committed(recver, Two!ServerFd)' = Committed(recver, ServerFd)'
  BY <1>3, Hosts DEF Two!ServerFd, ServerFd
<1>7. Two!ClientEnd' = ClientEnd'
  BY <1>5, Zenon DEF Two!ClientEnd, ClientEnd
<1>8. Two!ServerEnd' = ServerEnd'
  BY <1>2, <1>6, Zenon DEF Two!ServerEnd, ServerEnd
<1>9. Two!Sent' = Sent'
  BY <1>2, SameOperators DEF Two!Sent, Sent
<1>10. Two!Received' = Received'
  BY <1>1, Hosts, SameConstants DEF Two!Received, Received, Two!ServerFd, ServerFd
<1> QED
  BY <1>2, <1>7, <1>8, <1>9, <1>10

\* The stream is the one between the two hosts.
LEMMA SameStream ==
  ASSUME Beside
  PROVE  /\ Two!Stream!Init => Stream!Init
         /\ [Two!Stream!Next]_(Two!Stream!vars) => [Stream!Next]_(Stream!vars)
<1>1. /\ Two!ClientEnd = ClientEnd /\ Two!ServerEnd = ServerEnd
      /\ Two!Sent = Sent /\ Two!Received = Received
      /\ Two!ServerSock.sizep = ServerSock.sizep
  BY SameSockets
<1>2. /\ Two!ClientEnd' = ClientEnd' /\ Two!ServerEnd' = ServerEnd'
      /\ Two!Sent' = Sent' /\ Two!Received' = Received'
      /\ Two!ServerSock'.sizep = ServerSock'.sizep
  BY SameSocketsAfter
<1>3. Two!Stream!Init => Stream!Init
  BY <1>1 DEF Two!Stream!Init, Stream!Init
<1>4. UNCHANGED Two!Stream!vars => UNCHANGED Stream!vars
  BY <1>1, <1>2 DEF Two!Stream!vars, Stream!vars
<1>5. /\ \A s, t : Two!Stream!IsPrefix(s, t) <=> Stream!IsPrefix(s, t)
      /\ \A s, t : Two!Stream!IsStrictPrefix(s, t) <=> Stream!IsStrictPrefix(s, t)
  BY SMTT(40) DEF Two!Stream!IsPrefix, Stream!IsPrefix, Two!Stream!IsStrictPrefix,
     Stream!IsStrictPrefix
<1>6. Two!Stream!Write => Stream!Write
  BY <1>1, <1>2, <1>5 DEF Two!Stream!Write, Stream!Write
<1>7. Two!Stream!Receive => Stream!Receive
  BY <1>1, <1>2, <1>5 DEF Two!Stream!Receive, Stream!Receive
<1>8. Two!Stream!Arrive => Stream!Arrive
  BY <1>1, <1>2 DEF Two!Stream!Arrive, Stream!Arrive
<1>9. /\ Two!Stream!ClientOpens => Stream!ClientOpens
      /\ Two!Stream!ServerOpens => Stream!ServerOpens
      /\ Two!Stream!ClientCloses => Stream!ClientCloses
      /\ Two!Stream!ServerCloses => Stream!ServerCloses
      /\ Two!Stream!ClientClosed => Stream!ClientClosed
      /\ Two!Stream!ServerClosed => Stream!ServerClosed
  BY <1>1, <1>2 DEF Two!Stream!ClientOpens, Stream!ClientOpens,
     Two!Stream!ServerOpens, Stream!ServerOpens,
     Two!Stream!ClientCloses, Stream!ClientCloses,
     Two!Stream!ServerCloses, Stream!ServerCloses,
     Two!Stream!ClientClosed, Stream!ClientClosed,
     Two!Stream!ServerClosed, Stream!ServerClosed
<1>10. Two!Stream!Next => Stream!Next
  BY <1>6, <1>7, <1>8, <1>9 DEF Two!Stream!Next, Stream!Next
<1> QED
  BY <1>3, <1>4, <1>10
-----------------------------------------------------------------------------
(* A third program that makes one socket more than its table has room for. *)

\* The hosts of MCTcpMany, with room for one socket each; `other` runs Overfull.
FillsItsTable ==
  /\ Host = ManyHost /\ Endpoint = ManyEndpoint /\ HostOf = ManyHostOf
  /\ NoEndpoint = none
  /\ sender # recver /\ cport # sport /\ other \notin MCHost /\ oport \notin MCEndpoint
  /\ FirstFd = LastFd
  /\ Two!ClientScript(Script[sender]) /\ Two!ServerScript(Script[recver])
  /\ Script[other] = Overfull

LEMMA FillsBeside ==
  ASSUME FillsItsTable
  PROVE  Beside /\ Host \ MCHost = {other} /\ other \in Host
  BY DEF FillsItsTable, Beside, ManyHost, ManyEndpoint, ManyHostOf, MCEndpoint

LEMMA OverfullCalls ==
  ASSUME FillsItsTable
  PROVE  /\ Len(Script[other]) = 5
         /\ Script[other][1].op = "socket" /\ Script[other][2].op = "bind"
         /\ Script[other][3].op = "listen" /\ Script[other][4].op = "socket"
         /\ Script[other][5].op = "connect"
<1>1. PICK a, b, c, d : /\ a = MakeSocket /\ b = [op |-> "bind", at |-> oport]
                        /\ c = [op |-> "listen"]
                        /\ d = [op |-> "connect", from |-> oport, to |-> sport]
  BY Zenon
<1>2. a.op = "socket" /\ b.op = "bind" /\ c.op = "listen" /\ d.op = "connect"
  BY <1>1 DEF MakeSocket
<1>3. Script[other] = <<a, b, c>> \o <<a, d>>
  BY <1>1 DEF FillsItsTable, Overfull, Rival
<1>4. PICK s : s = <<a, b, c>> \o <<a, d>>
  BY Zenon
<1>5. /\ Len(s) = 5 /\ s[1] = a /\ s[2] = b /\ s[3] = c /\ s[4] = a /\ s[5] = d
  BY <1>4
<1> QED
  BY <1>2, <1>3, <1>4, <1>5

\* Where the third program is, and the only socket it can have. It never waits.
OtherInv ==
  /\ app[other].pc = "call" /\ app[other].ip \in 1 .. 5
  /\ app[other].lfd = app[other].cfd
  /\ app[other].ip < 5 => app[other].cfd = FirstFd /\ up[other]
  /\ app[other].ip = 5 => app[other].cfd = LastFd + 1
  /\ \A f \in Fd \ {FirstFd} : sock[other][f].status = "FREE"
  /\ app[other].ip = 1 <=> sock[other][FirstFd].status = "FREE"

\* What it can do next.
LEMMA OtherCalls ==
  ASSUME FillsItsTable, TypeOK, OtherInv, AppStep(other) \/ SpuriousWakeup(other)
  PROVE  \/ SocketCreate(other) /\ app[other].ip \in {1, 4}
         \/ SocketBind(other) /\ app[other].ip = 2
         \/ SocketListen(other) /\ app[other].ip = 3
         \/ CallOnMissingSocket(other) /\ app[other].ip = 5
<1>1. app[other].ip \in 1 .. 5 /\ app[other].pc = "call"
  BY DEF OtherInv
<1>2. \A pc : At(other, pc) => pc = "call"
  BY <1>1 DEF At
<1>3. /\ AtCall(other, "socket") => app[other].ip \in {1, 4}
      /\ AtCall(other, "bind") => app[other].ip = 2
      /\ AtCall(other, "listen") => app[other].ip = 3
      /\ AtCall(other, "connect") => app[other].ip = 5
      /\ \A op \in {"accept", "read", "write", "close"} : ~AtCall(other, op)
  <2>1. \A op : AtCall(other, op) => Script[other][app[other].ip].op = op
    BY Zenon DEF AtCall, Call
  <2>2. \/ app[other].ip = 1 \/ app[other].ip = 2 \/ app[other].ip = 3
        \/ app[other].ip = 4 \/ app[other].ip = 5
    BY <1>1
  <2> QED
    BY <2>1, <2>2, OverfullCalls, SMTT(40)
<1>4. app[other].ip = 5 => Conn(other).status = "FREE"
  BY TcpAssumption DEF OtherInv, Conn, Fd, TcpAssumption
<1>5. app[other].ip = 3 => Listener(other).status # "FREE"
  BY DEF OtherInv, Listener
<1>6. ~Connect(other)
  BY <1>3, <1>4 DEF Connect
<1>7. ~(\/ AcceptCreate(other) \/ Read(other) \/ WriteAppend(other)
        \/ CloseServer(other) \/ CloseSendFin(other))
  BY <1>3 DEF AcceptCreate, Read, WriteAppend, CloseServer, CloseSendFin
<1>8. ~(\/ ConnectReturn(other) \/ AcceptDemote(other) \/ AcceptPromote(other)
        \/ AcceptAwaitAck(other) \/ AcceptReturn(other) \/ TestCondition(other)
        \/ Block(other) \/ SpuriousWakeup(other) \/ ReadReturn(other)
        \/ WriteSend(other) \/ WriteReturn(other) \/ CloseStore(other)
        \/ CloseReturn(other))
  BY <1>2, Zenon DEF ConnectReturn, AcceptDemote, AcceptPromote, AcceptAwaitAck,
     AcceptReturn, TestCondition, Block, SpuriousWakeup, ReadReturn, WriteSend,
     WriteReturn, CloseStore, CloseReturn
<1>9. CallOnMissingSocket(other) => app[other].ip = 5
  BY <1>3, <1>5 DEF CallOnMissingSocket
<1> QED
  BY <1>3, <1>6, <1>7, <1>8, <1>9 DEF AppStep, SocketCreate, SocketBind, SocketListen

\* Its first socket() gets the only descriptor, its second one none.
LEMMA OtherFreshFd ==
  ASSUME FillsItsTable, OtherInv
  PROVE  FreshFd(other) = IF app[other].ip = 1 THEN FirstFd ELSE LastFd + 1
<1>1. FirstFd \in Nat /\ LastFd = FirstFd /\ FirstFd \in Fd
  BY TcpAssumption DEF FillsItsTable, TcpAssumption, Fd
<1>2. CASE app[other].ip = 1
  <2> DEFINE free == {f \in FirstFd .. LastFd : f \notin Opened(other)}
  <2>1. free = {FirstFd}
    BY <1>1, <1>2 DEF Opened, OtherInv
  <2>2. Min({FirstFd}) = FirstFd
    BY <1>1 DEF Min
  <2>3. FreshFd(other) = IF free = {} THEN LastFd + 1 ELSE Min(free)
    BY DEF FreshFd
  <2> HIDE DEF free
  <2> QED
    BY <1>2, <2>1, <2>2, <2>3
<1>3. CASE app[other].ip # 1
  <2>1. {f \in FirstFd .. LastFd : f \notin Opened(other)} = {}
    BY <1>1, <1>3 DEF Opened, OtherInv
  <2> QED
    BY <1>3, <2>1 DEF FreshFd
<1> QED
  BY <1>2, <1>3

\* Its last call finds no socket, and it sends nothing.
LEMMA OtherStep ==
  ASSUME FillsItsTable, TypeOK, OtherInv, AppStep(other) \/ SpuriousWakeup(other)
  PROVE  OtherInv' /\ UNCHANGED wire
<1>1. /\ other \in Host /\ FirstFd \in Nat /\ LastFd = FirstFd
      /\ Fd = {FirstFd, FirstFd + 1} /\ Fd' = Fd
  BY FillsBeside, TcpAssumption, SMTT(40) DEF FillsItsTable, TcpAssumption, Fd
<1>2. /\ sock \in [Host -> [Fd -> SafeSocket]] /\ app \in [Host -> AppThread]
      /\ up \in [Host -> BOOLEAN]
  BY DEF TypeOK
<1>3. CASE SocketCreate(other) /\ app[other].ip \in {1, 4}
  <2> DEFINE f == FreshFd(other)
  <2>1. f = IF app[other].ip = 1 THEN FirstFd ELSE LastFd + 1
    BY OtherFreshFd
  <2>2. /\ IF f <= LastFd THEN \E g \in Garbage : Put(other, f, NewSocket(g))
           ELSE UNCHANGED sock
        /\ app' = [app EXCEPT ![other].lfd = f, ![other].cfd = f, ![other].ip = @ + 1]
        /\ UNCHANGED <<wire, up>>
    BY <1>3 DEF SocketCreate
  <2> HIDE DEF f
  <2>3. /\ app'[other].pc = "call" /\ app'[other].ip = app[other].ip + 1
        /\ app'[other].lfd = f /\ app'[other].cfd = f
    BY <1>1, <1>2, <2>2 DEF OtherInv, AppThread
  <2>4. CASE app[other].ip = 1
    <3>1. PICK g \in Garbage : Put(other, FirstFd, NewSocket(g))
      BY <1>1, <2>1, <2>2, <2>4
    <3>2. NewSocket(g).status = "NONE"
      BY DEF NewSocket, NoSocket
    <3>3. /\ sock'[other][FirstFd].status = "NONE"
          /\ sock'[other][FirstFd + 1] = sock[other][FirstFd + 1]
      BY <1>1, <1>2, <3>1, <3>2 DEF Put
    <3> QED
      BY <1>1, <2>1, <2>2, <2>3, <2>4, <3>3 DEF OtherInv
  <2>5. CASE app[other].ip = 4
    <3>1. UNCHANGED sock
      BY <1>1, <2>1, <2>2, <2>5
    <3> QED
      BY <1>1, <2>1, <2>2, <2>3, <2>5, <3>1 DEF OtherInv
  <2> QED
    BY <1>3, <2>4, <2>5
<1>4. CASE \/ SocketBind(other) /\ app[other].ip = 2
           \/ SocketListen(other) /\ app[other].ip = 3
  <2>1. Return(other) /\ UNCHANGED <<wire, up>>
    BY <1>4 DEF SocketBind, SocketListen
  <2>2. /\ app'[other].pc = "call" /\ app'[other].ip = app[other].ip + 1
        /\ app'[other].lfd = app[other].lfd /\ app'[other].cfd = app[other].cfd
    BY <1>1, <1>2, <2>1 DEF Return, AppThread
  <2>3. app[other].lfd = FirstFd /\ app[other].cfd = FirstFd
    BY <1>4 DEF OtherInv
  <2>4. \/ UNCHANGED sock
        \/ \E s : Put(other, FirstFd, s) /\ s.status # "FREE"
    <3>1. Listener(other) \in SafeSocket
      BY <1>1, OwnSockets
    <3>2. CASE SocketBind(other)
      <4> DEFINE s == Listener(other)
                 t == [s EXCEPT !.role = "server", !.tcbRole = "server",
                                !.status = "CLOSED", !.local = Call(other).at,
                                !.remote = NoEndpoint]
      <4>1. t.status = "CLOSED"
        BY <3>1 DEF SafeSocket, Socket
      <4>2. UNCHANGED sock \/ Put(other, FirstFd, t)
        BY <2>3, <3>2 DEF SocketBind
      <4> HIDE DEF t
      <4> QED
        BY <4>1, <4>2
    <3>3. CASE SocketListen(other)
      <4> DEFINE t == [Listener(other) EXCEPT !.status = "LISTEN"]
      <4>1. t.status = "LISTEN"
        BY <3>1 DEF SafeSocket, Socket
      <4>2. Put(other, FirstFd, t)
        BY <2>3, <3>3 DEF SocketListen
      <4> HIDE DEF t
      <4> QED
        BY <4>1, <4>2
    <3> QED
      BY <1>4, <3>2, <3>3
  <2>5. /\ sock'[other][FirstFd + 1] = sock[other][FirstFd + 1]
        /\ sock'[other][FirstFd].status # "FREE"
    BY <1>1, <1>2, <1>4, <2>4 DEF Put, OtherInv
  <2> QED
    BY <1>1, <1>4, <2>1, <2>2, <2>3, <2>5 DEF OtherInv
<1>5. CASE CallOnMissingSocket(other) /\ app[other].ip = 5
  <2>1. UNCHANGED <<sock, app, wire>>
    BY <1>5 DEF CallOnMissingSocket
  <2> QED
    BY <1>1, <1>5, <2>1 DEF OtherInv
<1> QED
  BY <1>3, <1>4, <1>5, OtherCalls

\* So that nothing is ever on its way to or from it.
LEMMA ThirdStep ==
  ASSUME FillsItsTable, ManyInv, OtherInv, [Next]_vars
  PROVE  OtherInv' /\ Quiet'
<1>1. /\ Beside /\ Host \ MCHost = {other} /\ TypeOK /\ Two!TypeOK /\ Apart
      /\ MCHost' = MCHost /\ Fd' = Fd
  BY FillsBeside DEF ManyInv, IInv, Two!IInv, MCHost, Fd
<1>2. CASE TwoMove
  <2>1. OuterWires /\ OthersStay
    BY <1>1, <1>2, TwoMoveAlone
  <2>2. Quiet'
    BY <1>1, <2>1 DEF Apart, Quiet, OuterWires
  <2>3. sock'[other] = sock[other] /\ app'[other] = app[other] /\ up'[other] = up[other]
    BY <1>1, <2>1 DEF OthersStay
  <2>4. OtherInv'
    BY <1>1, <2>3 DEF OtherInv
  <2> QED
    BY <2>2, <2>4
<1>3. CASE AppStep(other) \/ SpuriousWakeup(other)
  <2>1. OtherInv' /\ UNCHANGED wire
    BY <1>1, <1>3, OtherStep
  <2> QED
    BY <1>1, <2>1 DEF Apart, Quiet
<1>4. CASE UNCHANGED vars
  <2>1. UNCHANGED <<sock, wire, app, up>>
    BY <1>4 DEF vars
  <2> QED
    BY <1>1, <2>1 DEF Apart, Quiet, OtherInv
<1> QED
  BY <1>1, <1>2, <1>3, <1>4, Moving
-----------------------------------------------------------------------------
(* The theorems. *)

LEMMA ManyHolds ==
  ASSUME Beside
  PROVE  Spec /\ []Quiet => []ManyInv
<1>1. Init => ManyInv
  BY ManyInit
<1>2. ManyInv /\ Quiet' /\ [Next]_vars => ManyInv'
  BY ManyStep
<1> QED
  BY <1>1, <1>2, PTL DEF Spec

\* Beside hosts that send nothing, whatever calls those make and whatever
\* becomes of their processes, two programs whose writes are all longer than a
\* segment implement Connection, with one packet at a time, all of it sent
\* before close().
THEOREM ConnectionBeside ==
  ASSUME Beside, Two!Orderly
  PROVE  Spec /\ []Quiet =>
           ImplementsConnection /\ []StopAndWait /\ []AllSentBeforeClose
<1>1. Two!TcpAssumption /\ Two!OneWay
  BY TwoAssumption, TwoOneWay
<1>2. Two!Spec => Two!ImplementsConnection
  BY <1>1, Two!ImplementsOneConnection
<1>3. Two!Spec => []Two!StopAndWait
  BY <1>1, Two!OneAtATime
<1>4. Two!Spec => []Two!AllSentBeforeClose
  BY <1>1, Two!ClosesAfterTheLastByte
<1>5. Two!Stream!Init => Stream!Init
  BY SameStream
<1>6. [Two!Stream!Next]_(Two!Stream!vars) => [Stream!Next]_(Stream!vars)
  BY SameStream
<1>7. ManyInv /\ Two!StopAndWait => StopAndWait
  <2>1. ASSUME ManyInv PROVE Two!InTransit({"DATA", "ACK"}) = InTransit({"DATA", "ACK"})
    BY <2>1, SameInTransit DEF ManyInv
  <2> QED
    BY <2>1, SameSockets DEF Two!StopAndWait, StopAndWait
<1>8. Two!AllSentBeforeClose => AllSentBeforeClose
  BY SameSockets DEF Two!AllSentBeforeClose, AllSentBeforeClose
<1> QED
  BY <1>2, <1>3, <1>4, <1>5, <1>6, <1>7, <1>8, TwoAlone, ManyHolds, PTL
     DEF Two!ImplementsConnection, ImplementsConnection, Two!Stream!Spec, Stream!Spec

LEMMA ThirdHolds ==
  ASSUME FillsItsTable
  PROVE  Spec => [](ManyInv /\ OtherInv)
<1>1. Init => ManyInv
  BY ManyInit, FillsBeside
<1>2. Init => OtherInv
  <2> SUFFICES ASSUME Init PROVE OtherInv
    OBVIOUS
  <2>1. other \in Host /\ FirstFd \in Fd
    BY FillsBeside, TcpAssumption DEF TcpAssumption, Fd
  <2>2. \A f \in Fd : sock[other][f].status = "FREE"
    BY <2>1 DEF Init, NoSocket
  <2> QED
    BY <2>1, <2>2 DEF Init, OtherInv
<1>3. ManyInv /\ OtherInv /\ [Next]_vars => ManyInv' /\ OtherInv'
  BY FillsBeside, ThirdStep, ManyStep
<1> QED
  BY <1>1, <1>2, <1>3, PTL DEF Spec

\* A program to which socket() has returned a number without a socket, because
\* its table is full (core.h:347), sends nothing when it connects through it.
THEOREM ThirdIsQuiet ==
  ASSUME FillsItsTable
  PROVE  Spec => []Quiet
<1>1. ManyInv => Quiet
  BY DEF ManyInv, Apart
<1> QED
  BY <1>1, ThirdHolds, PTL

\* So the failure of its socket() does not reach the connection of the others.
THEOREM ConnectionBesideFullTable ==
  ASSUME FillsItsTable, Two!Orderly
  PROVE  Spec => ImplementsConnection /\ []StopAndWait /\ []AllSentBeforeClose
  BY FillsBeside, ThirdIsQuiet, ConnectionBeside, PTL

\* accept() returns a socket whose peer has finished the handshake, on every host.
THEOREM AcceptAgreesBesideFullTable ==
  ASSUME FillsItsTable, Garbage = {FALSE}
  PROVE  Spec => []AcceptAgreement
<1>1. /\ Beside /\ Two!TcpAssumption /\ Two!OneWay /\ Host \ MCHost = {other}
      /\ MCHost \subseteq Host
  BY FillsBeside, TwoAssumption, TwoOneWay DEF Beside
<1>2. Two!Spec => []Two!AcceptAgreement
  BY <1>1, Two!AcceptedHasPeer
<1>3. Spec /\ []Quiet => Two!Spec
  BY <1>1, TwoAlone
<1>4. ASSUME Two!AcceptAgreement, OtherInv PROVE AcceptAgreement
  <2>1. ~JustAccepted(other)
    <3>1. app[other].ip > 1 => app[other].ip - 1 \in 1 .. 4
      BY <1>4 DEF OtherInv
    <3> QED
      BY <3>1, OverfullCalls DEF JustAccepted
  <2>2. ASSUME NEW h \in MCHost, JustAccepted(h)
        PROVE  /\ Conn(h).status \in {"ESTAB", "LASTACK", "CLOSED"}
               /\ \E g \in Host, f \in Fd :
                    /\ sock[g][f].local = Conn(h).remote
                    /\ sock[g][f].remote = Conn(h).local
                    /\ Committed(g, f) \notin {"FREE", "NONE", "SYNSENT"}
    <3>1. Two!JustAccepted(h) /\ Two!Conn(h) = Conn(h)
      BY <2>2, SameState DEF JustAccepted, Two!JustAccepted
    <3>2. /\ Conn(h).status \in {"ESTAB", "LASTACK", "CLOSED"}
          /\ \E g \in MCHost, f \in Fd :
               /\ sock2[g][f].local = Conn(h).remote
               /\ sock2[g][f].remote = Conn(h).local
               /\ Two!Committed(g, f) \notin {"FREE", "NONE", "SYNSENT"}
      BY <1>4, <3>1, SameConstants DEF Two!AcceptAgreement
    <3>3. PICK g \in MCHost, f \in Fd :
               /\ sock2[g][f].local = Conn(h).remote
               /\ sock2[g][f].remote = Conn(h).local
               /\ Two!Committed(g, f) \notin {"FREE", "NONE", "SYNSENT"}
      BY <3>2
    <3>4. sock2[g] = sock[g] /\ Two!Committed(g, f) = Committed(g, f) /\ g \in Host
      BY <1>1, SameState, SameSockets
    <3> QED
      BY <3>2, <3>3, <3>4
  <2> QED
    BY <1>1, <2>1, <2>2, SMTT(40) DEF AcceptAgreement
<1> QED
  BY <1>2, <1>3, <1>4, ThirdHolds, ThirdIsQuiet, PTL
=============================================================================
