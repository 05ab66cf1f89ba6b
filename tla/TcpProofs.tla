----------------------------- MODULE TcpProofs ------------------------------
(***************************************************************************)
(* The invariants of the transport layer, for all hosts, endpoints, sizes, *)
(* scripts, scheduling windows and network faults:                         *)
(*   TypeOK              every copy into and out of databuf stays in it,   *)
(*   ReadWithinArrived   read() returns only bytes that have arrived,      *)
(*   PendingSocketsExist processip never works on a missing socket.        *)
(* TypeOK is not inductive alone: that a read stays inside databuf needs   *)
(* ReadWithinArrived.                                                      *)
(***************************************************************************)
EXTENDS Tcp, SequenceTheorems, FiniteSetTheorems, WellFoundedInduction, TLAPS

(***************************************************************************)
(* Lemmas on the operators of the model.                                   *)
(***************************************************************************)

\* A set of descriptors has a least one: the intervals from 0 to its members
\* are well-founded under strict inclusion.
LEMMA MinOfBoundedSet ==
  ASSUME NEW N \in Nat, NEW S \in SUBSET (0 .. N), S # {}
  PROVE  Min(S) \in S /\ \A y \in S : Min(S) <= y
<1> DEFINE T == {0 .. x : x \in S}
<1>1. IsFiniteSet(0 .. N)
  BY FS_Interval
<1>2. IsWellFoundedOn(StrictSubsetOrdering(0 .. N), SUBSET (0 .. N))
  BY <1>1, FS_StrictSubsetOrderingWellFounded, FS_FiniteSubsetsOfFinite, Zenon
<1>3. T \subseteq SUBSET (0 .. N) /\ T # {}
  <2>1. \A x \in S : 0 .. x \in SUBSET (0 .. N)
    OBVIOUS
  <2>2. PICK x \in S : TRUE
    BY Zenon
  <2>3. 0 .. x \in T
    BY <2>2
  <2> QED
    BY <2>1, <2>3
<1>4. PICK U \in T : \A V \in T : <<V, U>> \notin StrictSubsetOrdering(0 .. N)
  BY <1>2, <1>3, WFMin, Zenon
<1>5. PICK x \in S : U = 0 .. x
  BY <1>4
<1>6. ASSUME NEW y \in S, y < x
      PROVE  FALSE
  <2>1. x \in 0 .. x /\ x \notin 0 .. y /\ 0 .. y \subseteq 0 .. x
    BY <1>6
  <2>2. <<0 .. y, U>> \in StrictSubsetOrdering(0 .. N)
    BY <1>3, <1>5, <2>1 DEF StrictSubsetOrdering
  <2> QED
    BY <1>4, <2>2, Zenon
<1>7. \A y \in S : x <= y
  BY <1>6
<1> QED
  BY <1>7, Zenon DEF Min

LEMMA FdRange == LastFd + 1 \in Nat /\ Fd \subseteq 0 .. (LastFd + 1)
  BY TcpAssumption DEF TcpAssumption, Fd

\* The search for a free descriptor ends inside the table or just after it.
LEMMA FreshFdIsFd ==
  ASSUME NEW h
  PROVE  FreshFd(h) \in Fd
<1> DEFINE free == {f \in FirstFd .. LastFd : f \notin Opened(h)}
<1>1. LastFd \in Nat /\ free \in SUBSET (0 .. LastFd)
  BY TcpAssumption DEF TcpAssumption
<1>2. CASE free = {}
  BY <1>2, TcpAssumption DEF FreshFd, Fd, TcpAssumption
<1>3. CASE free # {}
  <2>1. Min(free) \in free
    BY <1>1, <1>3, MinOfBoundedSet, Zenon
  <2>2. FreshFd(h) = Min(free)
    BY <1>3 DEF FreshFd
  <2> QED
    BY <2>1, <2>2, TcpAssumption DEF Fd, TcpAssumption
<1> QED
  BY <1>2, <1>3

\* Bytes cut out of a buffer are a sequence of its bytes.
LEMMA SliceType ==
  ASSUME NEW buf \in [0 .. (BufSize - 1) -> Content],
         NEW at \in Nat, NEW n \in Nat, at + n <= BufSize
  PROVE  /\ Slice(buf, at, n) \in Seq(Content)
         /\ Len(Slice(buf, at, n)) = n
<1>1. \A k \in 1 .. n : at + k - 1 \in 0 .. (BufSize - 1)
  BY TcpAssumption DEF TcpAssumption
<1>2. Slice(buf, at, n) \in [1 .. n -> Content]
  BY <1>1, Zenon DEF Slice
<1> QED
  BY <1>2

\* Copying into a buffer leaves a buffer.
LEMMA CopyInType ==
  ASSUME NEW buf \in [0 .. (BufSize - 1) -> Content],
         NEW at \in Nat, NEW data \in Seq(Content)
  PROVE  CopyIn(buf, at, data) \in [0 .. (BufSize - 1) -> Content]
<1>1. \A i \in 0 .. (BufSize - 1) :
        (at <= i /\ i < at + Len(data)) => i - at + 1 \in 1 .. Len(data)
  BY TcpAssumption DEF TcpAssumption
<1> QED
  BY <1>1 DEF CopyIn

\* What a rule sends is answers, never data.
LEMMA RuleType ==
  ASSUME NEW r \in Rules \cup {NoRule}
  PROVE  /\ r.send \in Seq(Kind \ {"DATA"})
         /\ r.to \in Status
         /\ r.wake \in SUBSET Flag
         /\ r \in Rules => r.to # "FREE"
<1>1. \A q \in Rules : q.send \in Seq(Kind \ {"DATA"})
  <2>1. \A q \in Rules :
          q.send \in {<<>>, <<"ACK">>, <<"SYNACK">>, <<"ACK", "FIN">>}
    BY DEF Rules, Rule
  <2>2. {<<>>, <<"ACK">>, <<"SYNACK">>, <<"ACK", "FIN">>}
          \subseteq Seq(Kind \ {"DATA"})
    BY DEF Kind
  <2> QED
    BY <2>1, <2>2, Zenon
<1>2. \A q \in Rules : q.to \in Status /\ q.to # "FREE"
  BY DEF Rules, Rule, Status
<1>3. \A q \in Rules : q.wake \in SUBSET Flag
  BY DEF Rules, Rule, Flag
<1>4. /\ NoRule.send \in Seq(Kind \ {"DATA"})
      /\ NoRule.to \in Status
      /\ NoRule.wake \in SUBSET Flag
  BY DEF NoRule, Rule, Status
<1>5. NoRule \notin Rules
  BY DEF NoRule, Rules, Rule
<1> QED
  BY <1>1, <1>2, <1>3, <1>4, <1>5

\* Packets that are well formed.
LEMMA ControlType ==
  ASSUME NEW kind \in Kind \ {"DATA"}, NEW src \in Address, NEW dst \in Address,
         NEW seq \in Nat, NEW ack \in Nat
  PROVE  Segment(kind, src, dst, seq, ack, <<>>) \in SafePacket
  BY DEF Segment, SafePacket, Packet

LEMMA DataType ==
  ASSUME NEW src \in Address, NEW dst \in Address, NEW seq \in Nat,
         NEW data \in Seq(Content), seq + Len(data) <= BufSize
  PROVE  Segment("DATA", src, dst, seq, 0, data) \in SafePacket
  BY DEF Segment, SafePacket, Packet, Kind

(***************************************************************************)
(* Type correctness, one lemma for each part of the state a step changes.  *)
(***************************************************************************)

LEMMA SendType ==
  ASSUME TypeOK, NEW h \in Host, NEW dst, NEW ps \in Seq(SafePacket),
         SendTCPPackets(h, dst, ps)
  PROVE  wire' \in [Host -> [Host -> Seq(SafePacket)]]
<1>1. CASE dst \in Endpoint
  <2>1. HostOf[dst] \in Host
    BY <1>1, TcpAssumption DEF TcpAssumption
  <2>2. wire[h][HostOf[dst]] \o ps \in Seq(SafePacket)
    BY <2>1 DEF TypeOK
  <2> QED
    BY <1>1, <2>1, <2>2 DEF SendTCPPackets, TypeOK
<1>2. CASE dst \notin Endpoint
  BY <1>2 DEF SendTCPPackets, TypeOK
<1> QED
  BY <1>1, <1>2

LEMMA PutType ==
  ASSUME TypeOK, NEW h \in Host, NEW f \in Fd, NEW s \in SafeSocket, Put(h, f, s)
  PROVE  sock' \in [Host -> [Fd -> SafeSocket]]
  BY DEF Put, TypeOK

\* The application thread's state is well formed after each kind of move.
LEMMA MoveType ==
  ASSUME TypeOK, NEW h \in Host
  PROVE  /\ \A pc \in {"demote", "promote", "test", "block", "wait", "ready",
                       "send", "spin", "finsent", "closing"} :
              Goto(h, pc) => app' \in [Host -> AppThread]
         /\ \A cv \in Flag \cup {"read"} :
              AwaitFlag(h, cv) => app' \in [Host -> AppThread]
         /\ Return(h) => app' \in [Host -> AppThread]
         /\ \A f, cvs : NotifyAll(h, f, cvs) => app' \in [Host -> AppThread]
<1>1. app[h] \in AppThread /\ app \in [Host -> AppThread]
  BY DEF TypeOK
<1>2. ASSUME NEW pc \in {"demote", "promote", "test", "block", "wait", "ready",
                         "send", "spin", "finsent", "closing"}, Goto(h, pc)
      PROVE  app' \in [Host -> AppThread]
  BY <1>1, <1>2 DEF Goto, AppThread
<1>3. ASSUME NEW cv \in Flag \cup {"read"}, AwaitFlag(h, cv)
      PROVE  app' \in [Host -> AppThread]
  BY <1>1, <1>3, Zenon DEF AwaitFlag, AppThread
<1>4. ASSUME Return(h) PROVE app' \in [Host -> AppThread]
  BY <1>1, <1>4 DEF Return, AppThread
<1>5. ASSUME NEW f, NEW cvs, NotifyAll(h, f, cvs)
      PROVE  app' \in [Host -> AppThread]
  BY <1>1, <1>5 DEF NotifyAll, AppThread
<1> QED
  BY <1>2, <1>3, <1>4, <1>5

\* The call at hand has the arguments of its kind.
LEMMA CallType ==
  ASSUME TypeOK, NEW h \in Host, app[h].ip <= Len(Script[h])
  PROVE  /\ Call(h).op = "bind" => Call(h).at \in Endpoint
         /\ Call(h).op = "connect" =>
              Call(h).from \in Endpoint /\ Call(h).to \in Endpoint
         /\ Call(h).op = "write" => Call(h).data \in Seq(Byte)
         /\ Call(h).op = "read" => Call(h).n \in Nat
<1>1. Script[h] \in Seq(Calls) /\ app[h].ip \in Nat \ {0}
  BY TcpAssumption DEF TcpAssumption, TypeOK, AppThread
<1>2. Call(h) \in Calls
  BY <1>1 DEF Call
<1> QED
  BY <1>2 DEF Calls

\* The sockets a thread works on.
LEMMA OwnSockets ==
  ASSUME TypeOK, NEW h \in Host
  PROVE  /\ app[h].lfd \in Fd /\ app[h].cfd \in Fd /\ rx[h].fd \in Fd
         /\ Listener(h) \in SafeSocket
         /\ Conn(h) \in SafeSocket
         /\ RxSock(h) \in SafeSocket
<1>1. app[h].lfd \in Fd /\ app[h].cfd \in Fd
  BY DEF TypeOK, AppThread
<1>2. rx[h].fd \in Fd
  BY DEF TypeOK, RxThread
<1> QED
  BY <1>1, <1>2, SMTT(40) DEF TypeOK, Listener, Conn, RxSock

\* A socket stays one when its status, flags or addresses are replaced.
LEMMA SocketUpdate ==
  ASSUME NEW s \in SafeSocket
  PROVE  /\ \A st \in Status : [s EXCEPT !.status = st] \in SafeSocket
         /\ \A st \in Status, fs \in SUBSET Flag :
              [s EXCEPT !.status = st, !.ready = @ \cup fs] \in SafeSocket
         /\ \A l, r \in Address :
              [s EXCEPT !.local = l, !.remote = r] \in SafeSocket
         /\ \A st \in Status, l, r \in Address :
              [s EXCEPT !.tcbRole = "client", !.status = st,
                        !.local = l, !.remote = r] \in SafeSocket
         /\ \A st \in Status, l, r \in Address :
              [s EXCEPT !.role = "server", !.tcbRole = "server", !.status = st,
                        !.local = l, !.remote = r] \in SafeSocket
         /\ \A n \in Nat : [s EXCEPT !.readp = n] \in SafeSocket
         /\ \A n \in Nat : [s EXCEPT !.writep = n] \in SafeSocket
         /\ \A b \in [0 .. (BufSize - 1) -> Content], n \in Nat :
              n <= BufSize =>
                [s EXCEPT !.databuf = b, !.sizep = n] \in SafeSocket
  BY ZenonT(40) DEF SafeSocket, Socket, Role

LEMMA EmptySocketType ==
  /\ NoSocket \in SafeSocket
  /\ \A g \in BOOLEAN : NewSocket(g) \in SafeSocket
<1>1. [i \in 0 .. (BufSize - 1) |-> Zero] \in [0 .. (BufSize - 1) -> Content]
  BY DEF Content
<1>2. NoSocket \in SafeSocket
  <2>1. NoSocket \in Socket
    BY <1>1 DEF NoSocket, Socket, Role, Status, Address
  <2>2. NoSocket.sizep = 0 /\ BufSize \in Nat
    BY TcpAssumption DEF NoSocket, TcpAssumption
  <2> QED
    BY <2>1, <2>2 DEF SafeSocket
<1>3. ASSUME NEW g \in BOOLEAN
      PROVE  NewSocket(g) \in SafeSocket
  BY <1>2, Zenon DEF NewSocket, SafeSocket, Socket, Status, Flag
<1> QED
  BY <1>2, <1>3

LEMMA AppType ==
  ASSUME TypeOK, ReadWithinArrived, NEW h \in Host, AppStep(h)
  PROVE  TypeOK'
<1> USE OwnSockets
<1> DEFINE SockOK == sock \in [Host -> [Fd -> SafeSocket]]
           AppOK == app \in [Host -> AppThread]
<1>1. CASE SocketCreate(h)
  <2>1. SockOK'
    <3>1. CASE FreshFd(h) <= LastFd
      BY <1>1, <3>1, FreshFdIsFd, EmptySocketType, PutType, TcpAssumption
      DEF SocketCreate, TcpAssumption
    <3>2. CASE ~(FreshFd(h) <= LastFd)
      BY <1>1, <3>2 DEF SocketCreate, TypeOK
    <3> QED
      BY <3>1, <3>2
  <2>2. AppOK'
    <3>1. app' = [app EXCEPT ![h].lfd = FreshFd(h), ![h].cfd = FreshFd(h),
                             ![h].ip = @ + 1]
      BY <1>1 DEF SocketCreate
    <3>2. app \in [Host -> AppThread] /\ app[h].ip + 1 \in Nat \ {0}
      BY SMTT(40) DEF TypeOK, AppThread
    <3>3. FreshFd(h) \in Fd
      BY FreshFdIsFd
    <3> QED
      BY <3>1, <3>2, <3>3 DEF AppThread
  <2> QED
    BY <1>1, <2>1, <2>2, Zenon DEF SocketCreate, TypeOK
<1>2. CASE SocketBind(h)
  <2>1. Call(h).at \in Endpoint
    BY <1>2, CallType DEF SocketBind, AtCall
  <2>2. SockOK'
    BY <1>2, <2>1, SocketUpdate, PutType, ZenonT(40) DEF SocketBind, Status, Address, TypeOK
  <2> QED
    BY <1>2, <2>2, MoveType DEF SocketBind, TypeOK
<1>3. CASE SocketListen(h)
  <2>1. SockOK'
    BY <1>3, SocketUpdate, PutType, Zenon DEF SocketListen, Status
  <2> QED
    BY <1>3, <2>1, MoveType, Zenon DEF SocketListen, TypeOK
<1>4. CASE Connect(h)
  <2>1. Call(h).from \in Endpoint /\ Call(h).to \in Endpoint
    BY <1>4, CallType, SMTT(40) DEF Connect, AtCall
  <2>2. SockOK'
    BY <1>4, <2>1, SocketUpdate, PutType, Zenon DEF Connect, Connfd, Status, Address
  <2>3. wire' \in [Host -> [Host -> Seq(SafePacket)]]
    <3>1. Segment("SYN", Call(h).from, Call(h).to, 0, 0, <<>>) \in SafePacket
      BY <2>1, ControlType DEF Kind, Address
    <3> DEFINE syn == Segment("SYN", Call(h).from, Call(h).to, 0, 0, <<>>)
    <3>2. <<syn>> \in Seq(SafePacket)
      BY <3>1
    <3>3. SendTCPPackets(h, Call(h).to, <<syn>>)
      BY <1>4 DEF Connect
    <3> QED
      BY <3>2, <3>3, SendType, Zenon
  <2>4. AppOK'
    BY <1>4, MoveType DEF Connect, Flag
  <2> QED
    BY <1>4, <2>2, <2>3, <2>4 DEF Connect, TypeOK
<1>5. CASE ConnectReturn(h)
  BY <1>5, MoveType DEF ConnectReturn, TypeOK
<1>6. CASE AcceptCreate(h)
  <2>1. SockOK'
    BY <1>6, FreshFdIsFd, PutType, Zenon DEF AcceptCreate, TypeOK
  <2>2. AppOK'
    <3>1. PICK f \in Fd : app' = [app EXCEPT ![h].cfd = f, ![h].pc = "demote"]
      BY <1>6, FreshFdIsFd, Zenon DEF AcceptCreate
    <3>2. app[h] \in AppThread /\ app \in [Host -> AppThread]
      BY DEF TypeOK
    <3>3. [app[h] EXCEPT !.cfd = f, !.pc = "demote"] \in AppThread
      BY <3>2, Zenon DEF AppThread
    <3>4. app' = [app EXCEPT ![h] = [app[h] EXCEPT !.cfd = f, !.pc = "demote"]]
      BY <3>1, <3>2, Zenon
    <3> QED
      BY <3>2, <3>3, <3>4
  <2> QED
    BY <1>6, <2>1, <2>2 DEF AcceptCreate, TypeOK
<1>7. CASE AcceptDemote(h)
  <2>1. SockOK'
    BY <1>7, SocketUpdate, PutType, Zenon DEF AcceptDemote, Status
  <2> QED
    BY <1>7, <2>1, MoveType, SMTT(40) DEF AcceptDemote, TypeOK
<1>8. CASE AcceptPromote(h)
  <2>1. SockOK'
    BY <1>8, SocketUpdate, PutType, Zenon DEF AcceptPromote, Connfd, Status
  <2>2. AppOK'
    BY <1>8, MoveType DEF AcceptPromote, Flag
  <2> QED
    BY <1>8, <2>1, <2>2, SMTT(40) DEF AcceptPromote, TypeOK
<1>9. CASE AcceptAwaitAck(h)
  <2>1. AppOK'
    BY <1>9, MoveType DEF AcceptAwaitAck, Flag
  <2> QED
    BY <1>9, <2>1 DEF AcceptAwaitAck, TypeOK
<1>10. CASE AcceptReturn(h)
  <2>1. SockOK'
    BY <1>10, SocketUpdate, PutType, Zenon DEF AcceptReturn, Status
  <2> QED
    BY <1>10, <2>1, MoveType, SMTT(40) DEF AcceptReturn, TypeOK
<1>11. CASE TestCondition(h)
  BY <1>11, MoveType DEF TestCondition, TypeOK
<1>12. CASE Block(h)
  BY <1>12, MoveType DEF Block, TypeOK
<1>13. CASE Read(h)
  <2>1. AppOK'
    BY <1>13, MoveType DEF Read
  <2> QED
    BY <1>13, <2>1 DEF Read, TypeOK
<1>14. CASE ReadReturn(h)
  <2> DEFINE s == Conn(h)
             n == Call(h).n
  <2>1. n \in Nat /\ s.readp + n <= s.sizep
    BY <1>14, CallType DEF ReadReturn, At, ReadWithinArrived,
                              WithinArrived, ReadWaits
  <2>2. /\ s.readp \in Nat /\ s.sizep \in Nat /\ s.sizep <= BufSize
        /\ s.databuf \in [0 .. (BufSize - 1) -> Content]
    BY DEF SafeSocket, Socket
  <2>3. SockOK'
    <3>1. [s EXCEPT !.readp = s.readp + n] \in SafeSocket
      <4>1. s \in SafeSocket /\ s.readp + n \in Nat
        BY <2>1, <2>2
      <4> HIDE DEF s, n
      <4> QED
        BY <4>1, SocketUpdate, Zenon
    <3> QED
      BY <1>14, <3>1, PutType DEF ReadReturn, Connfd
  <2>4. got' \in [Host -> [Fd -> Seq(Content)]]
    <3>1. s.readp + n <= BufSize
      BY <2>1, <2>2, TcpAssumption DEF TcpAssumption
    <3>2. Slice(s.databuf, s.readp, n) \in Seq(Content)
      BY <2>1, <2>2, <3>1, SliceType
    <3>3. got[h][Connfd(h)] \o Slice(s.databuf, s.readp, n) \in Seq(Content)
      BY <3>2 DEF TypeOK, Connfd
    <3> QED
      BY <1>14, <3>3 DEF ReadReturn, TypeOK, Connfd
  <2> QED
    BY <1>14, <2>3, <2>4, MoveType, Zenon DEF ReadReturn, TypeOK
<1>15. CASE WriteAppend(h)
  <2> DEFINE s == Conn(h)
             d == Call(h).data
  <2>1. d \in Seq(Byte) /\ d \in Seq(Content) /\ s.sizep + Len(d) <= BufSize
    BY <1>15, CallType DEF WriteAppend, AtCall, Content
  <2>2. s.sizep \in Nat /\ s.databuf \in [0 .. (BufSize - 1) -> Content]
    BY DEF SafeSocket, Socket
  <2>3. CopyIn(s.databuf, s.sizep, d) \in [0 .. (BufSize - 1) -> Content]
    BY <2>1, <2>2, CopyInType
  <2>4. [s EXCEPT !.databuf = CopyIn(s.databuf, s.sizep, d),
                  !.sizep = s.sizep + Len(d)] \in SafeSocket
    <3>1. s \in SafeSocket /\ s.sizep + Len(d) \in Nat
      BY <2>1, <2>2
    <3> HIDE DEF s, d
    <3> QED
      BY <2>1, <2>3, <3>1, SocketUpdate, Zenon
  <2>5. SockOK'
    BY <1>15, <2>4, PutType DEF WriteAppend, Connfd
  <2>6. AppOK'
    BY <1>15, MoveType DEF WriteAppend
  <2> QED
    BY <1>15, <2>5, <2>6 DEF WriteAppend, TypeOK
<1>16. CASE WriteSend(h)
  <2> DEFINE s == Conn(h)
             n == IF s.writep + MSS > s.sizep THEN s.sizep - s.writep ELSE MSS
             seg == Segment("DATA", s.local, s.remote, s.writep, 0,
                            Slice(s.databuf, s.writep, n))
  <2>1. /\ s.writep \in Nat /\ s.sizep \in Nat /\ s.sizep <= BufSize
        /\ s.databuf \in [0 .. (BufSize - 1) -> Content]
        /\ s.local \in Address /\ s.remote \in Address
    BY DEF SafeSocket, Socket
  <2>2. n \in Int /\ (n >= 0 => s.writep + n <= BufSize)
    BY <2>1, TcpAssumption, SMTT(40) DEF TcpAssumption
  <2>3. AppOK'
    BY <1>16, MoveType DEF WriteSend
  <2>4. CASE n >= 0
    <3>1. n \in Nat /\ s.writep + n <= BufSize
      BY <2>2, <2>4
    <3>2. seg \in SafePacket
      BY <2>1, <3>1, SliceType, DataType, Zenon
    <3>3. [s EXCEPT !.writep = s.writep + n] \in SafeSocket
      <4>1. s \in SafeSocket /\ s.writep + n \in Nat
        BY <2>1, <3>1
      <4> HIDE DEF s, n
      <4> QED
        BY <4>1, SocketUpdate, Zenon
    <3>4. <<seg>> \in Seq(SafePacket)
      BY <3>2
    <3>5. /\ SendTCPPackets(h, s.remote, <<seg>>)
          /\ Put(h, Connfd(h), [s EXCEPT !.writep = s.writep + n])
          /\ UNCHANGED up
      BY <1>16, <2>4 DEF WriteSend
    <3>6. wire' \in [Host -> [Host -> Seq(SafePacket)]]
      BY <3>4, <3>5, SendType, Zenon
    <3>7. SockOK'
      BY <3>3, <3>5, PutType DEF Connfd
    <3> QED
      BY <1>16, <2>3, <3>5, <3>6, <3>7, Zenon DEF WriteSend, TypeOK
  <2>5. CASE ~(n >= 0)
    BY <1>16, <2>3, <2>5, Zenon DEF WriteSend, TypeOK
  <2> QED
    BY <2>4, <2>5
<1>17. CASE WriteReturn(h)
  BY <1>17, MoveType DEF WriteReturn, TypeOK
<1>18. CASE CloseServer(h)
  <2>1. AppOK'
    BY <1>18, MoveType DEF CloseServer
  <2> QED
    BY <1>18, <2>1 DEF CloseServer, TypeOK
<1>19. CASE CloseSendFin(h)
  <2> DEFINE fin == Segment("FIN", Conn(h).local, Conn(h).remote, 0, 0, <<>>)
  <2>1. Conn(h).local \in Address /\ Conn(h).remote \in Address
    BY DEF SafeSocket, Socket
  <2>2. fin \in SafePacket
    BY <2>1, ControlType DEF Kind
  <2>3. <<fin>> \in Seq(SafePacket)
    BY <2>2
  <2>4. SendTCPPackets(h, Conn(h).remote, <<fin>>)
    BY <1>19 DEF CloseSendFin
  <2>5. wire' \in [Host -> [Host -> Seq(SafePacket)]]
    BY <2>3, <2>4, SendType, Zenon
  <2>6. AppOK' /\ SockOK'
    <3>1. CASE "close" \in Races
      BY <1>19, <3>1, MoveType DEF CloseSendFin, TypeOK
    <3>2. CASE "close" \notin Races
      BY <1>19, <3>2, MoveType, SocketUpdate, PutType, Zenon
      DEF CloseSendFin, Connfd, Status
    <3> QED
      BY <3>1, <3>2
  <2> QED
    BY <1>19, <2>5, <2>6 DEF CloseSendFin, TypeOK
<1>20. CASE CloseStore(h)
  <2>1. SockOK'
    BY <1>20, SocketUpdate, PutType, Zenon DEF CloseStore, Connfd, Status
  <2>2. AppOK'
    BY <1>20, MoveType DEF CloseStore
  <2> QED
    BY <1>20, <2>1, <2>2, SMTT(40) DEF CloseStore, TypeOK
<1>21. CASE CloseReturn(h)
  BY <1>21, MoveType, SMTT(40) DEF CloseReturn, TypeOK
<1>22. CASE CallOnMissingSocket(h)
  BY <1>22 DEF CallOnMissingSocket, TypeOK
<1> QED
  BY <1>1, <1>2, <1>3, <1>4, <1>5, <1>6, <1>7, <1>8, <1>9, <1>10, <1>11, <1>12,
     <1>13, <1>14, <1>15, <1>16, <1>17, <1>18, <1>19, <1>20, <1>21, <1>22
  DEF AppStep

LEMMA RecvType ==
  ASSUME TypeOK, NEW g \in Host, NEW h \in Host,
         RecvIPPacket(g, h) \/ RecvUnmatchedPacket(g, h)
  PROVE  TypeOK'
<1> DEFINE p == Head(wire[g][h])
           f == Destination(h, p)
<1>1. wire[g][h] # <<>> /\ Arrives(g, h)
  BY Zenon DEF RecvIPPacket, RecvUnmatchedPacket
<1>2. p \in SafePacket /\ Tail(wire[g][h]) \in Seq(SafePacket)
  BY <1>1 DEF TypeOK
<1>3. wire' \in [Host -> [Host -> Seq(SafePacket)]]
  BY <1>1, <1>2, SMTT(40) DEF Arrives, TypeOK
<1>4. CASE RecvIPPacket(g, h)
  <2>1. f \in Fd
    BY <1>4 DEF RecvIPPacket
  <2>2. sock' \in [Host -> [Fd -> SafeSocket]]
    <3>1. p.src \in Address /\ p.dst \in Address
      BY <1>2, SMTT(40) DEF SafePacket, Packet
    <3>2. sock[h][f] \in SafeSocket
      BY <2>1 DEF TypeOK
    <3>3. [sock[h][f] EXCEPT !.local = p.dst, !.remote = p.src] \in SafeSocket
      <4> HIDE DEF p, f
      <4> QED
        BY <3>1, <3>2, SocketUpdate, ZenonT(40)
    <3>4. CASE p.kind = "SYN"
      BY <1>4, <2>1, <3>3, <3>4, PutType, Zenon DEF RecvIPPacket
    <3>5. CASE p.kind # "SYN"
      BY <1>4, <3>5 DEF RecvIPPacket, TypeOK
    <3> QED
      BY <3>4, <3>5
  <2>3. queue' \in [Host -> [Fd -> Seq(SafePacket)]]
    <3>1. Append(queue[h][f], p) \in Seq(SafePacket)
      BY <1>2, <2>1 DEF TypeOK
    <3>2. queue' = [queue EXCEPT ![h][f] = Append(queue[h][f], p)]
      BY <1>4 DEF RecvIPPacket
    <3> HIDE DEF p, f
    <3> QED
      BY <2>1, <3>1, <3>2, SMTT(40) DEF TypeOK
  <2>4. unsolved' \in [Host -> Seq(Fd)]
    <3>1. Append(unsolved[h], f) \in Seq(Fd)
      BY <2>1, SMTT(40) DEF TypeOK
    <3>2. unsolved' = [unsolved EXCEPT ![h] = Append(unsolved[h], f)]
      BY <1>4 DEF RecvIPPacket
    <3> HIDE DEF f
    <3> QED
      BY <3>1, <3>2 DEF TypeOK
  <2> QED
    BY <1>3, <1>4, <2>2, <2>3, <2>4, Zenon DEF RecvIPPacket, TypeOK
<1>5. CASE RecvUnmatchedPacket(g, h)
  BY <1>3, <1>5, Zenon DEF RecvUnmatchedPacket, TypeOK
<1> QED
  BY <1>4, <1>5

LEMMA RxType ==
  ASSUME TypeOK, NEW h \in Host, RxStep(h)
  PROVE  TypeOK'
<1> DEFINE s == RxSock(h)
           p == rx[h].pkt
<1>1. s \in SafeSocket /\ rx[h].fd \in Fd
  BY OwnSockets
<1>2. /\ s.writep \in Nat /\ s.sizep \in Nat /\ s.sizep <= BufSize
      /\ s.databuf \in [0 .. (BufSize - 1) -> Content]
  BY <1>1 DEF SafeSocket, Socket
<1>3. p \in SafePacket /\ rx \in [Host -> RxThread] /\ rx[h] \in RxThread
  BY DEF TypeOK, RxThread
<1>4. /\ p.src \in Address /\ p.dst \in Address /\ p.seq \in Nat /\ p.ack \in Nat
      /\ p.data \in Seq(Content)
      /\ p.kind = "DATA" => p.seq + Len(p.data) <= BufSize
  BY <1>3 DEF SafePacket, Packet
<1>5. Idle(h) => rx' \in [Host -> RxThread]
  BY <1>3 DEF Idle, RxThread
<1>6. CASE Pop(h)
  <2> DEFINE f == Head(unsolved[h])
  <2>1. f \in Fd /\ Tail(unsolved[h]) \in Seq(Fd)
    BY <1>6 DEF Pop, TypeOK
  <2>2. /\ Head(queue[h][f]) \in SafePacket
        /\ Tail(queue[h][f]) \in Seq(SafePacket)
    BY <1>6, <2>1 DEF Pop, TypeOK
  <2>3. sock[h][f].status \in Status
    BY <2>1, Zenon DEF TypeOK, SafeSocket, Socket
  <2>4. rx' = [rx EXCEPT ![h] =
                 [rx[h] EXCEPT !.pc = "react", !.fd = f,
                               !.pkt = Head(queue[h][f]),
                               !.seen = sock[h][f].status]]
    BY <1>3, <1>6, Zenon DEF Pop
  <2>5. rx' \in [Host -> RxThread]
    <3> DEFINE q == Head(queue[h][f])
               st == sock[h][f].status
    <3>1. [rx[h] EXCEPT !.pc = "react", !.fd = f, !.pkt = q, !.seen = st]
            \in RxThread
      <4>1. f \in Fd /\ q \in SafePacket /\ st \in Status
        BY <2>1, <2>2, <2>3
      <4> HIDE DEF f, q, st
      <4> QED
        BY <1>3, <4>1, Zenon DEF RxThread
    <3> QED
      BY <1>3, <2>4, <3>1
  <2>6. queue' \in [Host -> [Fd -> Seq(SafePacket)]]
    BY <1>6, <2>1, <2>2, Zenon DEF Pop, TypeOK
  <2>7. unsolved' \in [Host -> Seq(Fd)]
    BY <1>6, <2>1 DEF Pop, TypeOK
  <2> QED
    BY <1>6, <2>5, <2>6, <2>7, Zenon DEF Pop, TypeOK
<1>7. CASE React(h)
  <2>1. PICK r \in Rules :
          /\ SendTCPPackets(h, p.src,
               [i \in DOMAIN r.send |-> Reply(p, r.send[i])])
          /\ rx' = [rx EXCEPT ![h].pc = "store", ![h].rule = r]
    BY <1>7, Zenon DEF React, Applicable
  <2>2. r.send \in Seq(Kind \ {"DATA"})
    BY RuleType
  <2>3. \A i \in DOMAIN r.send : Reply(p, r.send[i]) \in SafePacket
    <3> TAKE i \in DOMAIN r.send
    <3>1. r.send[i] \in Kind \ {"DATA"} /\ p.seq + 1 \in Nat
      BY <1>4, <2>2
    <3> QED
      BY <1>4, <3>1, ControlType, Zenon DEF Reply
  <2>4. [i \in DOMAIN r.send |-> Reply(p, r.send[i])] \in Seq(SafePacket)
    <3>1. DOMAIN r.send = 1 .. Len(r.send) /\ Len(r.send) \in Nat
      BY <2>2
    <3> QED
      BY <2>3, <3>1
  <2>5. wire' \in [Host -> [Host -> Seq(SafePacket)]]
    BY <2>1, <2>4, SendType
  <2>6. rx' \in [Host -> RxThread]
    BY <1>3, <2>1, Zenon DEF RxThread
  <2> QED
    BY <1>7, <2>5, <2>6 DEF React, TypeOK
<1>8. CASE Store(h)
  <2> DEFINE r == rx[h].rule
  <2>1. r.to \in Status /\ r.wake \in SUBSET Flag
    BY <1>3, RuleType DEF RxThread
  <2>2. [s EXCEPT !.status = r.to, !.ready = @ \cup r.wake] \in SafeSocket
    BY <1>1, <2>1, SocketUpdate, Zenon
  <2>3. sock' \in [Host -> [Fd -> SafeSocket]]
    BY <1>1, <1>8, <2>2, PutType DEF Store
  <2>4. app' \in [Host -> AppThread]
    BY <1>8, MoveType DEF Store
  <2> QED
    BY <1>5, <1>8, <2>3, <2>4 DEF Store, TypeOK
<1>9. CASE RecvTCPAck(h)
  <2> DEFINE n == Lesser(MSS, s.sizep - p.ack)
             seg == Segment("DATA", p.dst, p.src, p.ack, 0,
                            Slice(s.databuf, p.ack, n))
  <2>1. CASE s.role = "server"
    BY <1>5, <1>9, <2>1 DEF RecvTCPAck, TypeOK
  <2>2. CASE s.role # "server"
    <3>1. [s EXCEPT !.writep = p.ack] \in SafeSocket
      BY <1>1, <1>4, SocketUpdate, Zenon
    <3>2. sock' \in [Host -> [Fd -> SafeSocket]]
      BY <1>1, <1>9, <2>2, <3>1, PutType DEF RecvTCPAck
    <3>3. wire' \in [Host -> [Host -> Seq(SafePacket)]]
      <4>1. CASE p.ack >= s.sizep
        BY <1>9, <2>2, <4>1 DEF RecvTCPAck, TypeOK
      <4>2. CASE ~(p.ack >= s.sizep)
        <5>1. n \in Nat /\ p.ack + n <= BufSize
          BY <1>2, <1>4, <4>2, TcpAssumption, SMTT(40) DEF Lesser, TcpAssumption
        <5>2. seg \in SafePacket
          BY <1>2, <1>4, <5>1, SliceType, DataType, ZenonT(40)
        <5>3. <<seg>> \in Seq(SafePacket)
          BY <5>2
        <5>4. SendTCPPackets(h, p.src, <<seg>>)
          BY <1>9, <2>2, <4>2 DEF RecvTCPAck
        <5> QED
          BY <5>3, <5>4, SendType, Zenon
      <4> QED
        BY <4>1, <4>2
    <3> QED
      BY <1>5, <1>9, <3>2, <3>3 DEF RecvTCPAck, TypeOK
  <2> QED
    BY <2>1, <2>2
<1>10. CASE RecvTCPData(h)
  <2> DEFINE end == p.seq + Len(p.data)
             ack == Segment("ACK", p.dst, p.src, 0, end, <<>>)
             size == IF end > s.sizep THEN end ELSE s.sizep
             buf == CopyIn(s.databuf, p.seq, p.data)
  <2>1. p.kind = "DATA" /\ end \in Nat /\ end <= BufSize
    BY <1>4, <1>10 DEF RecvTCPData
  <2>2. size \in Nat /\ size <= BufSize
    BY <1>2, <2>1
  <2>3. buf \in [0 .. (BufSize - 1) -> Content]
    BY <1>2, <1>4, CopyInType
  <2>4. [s EXCEPT !.databuf = buf, !.sizep = size] \in SafeSocket
    <3> HIDE DEF s, buf, size
    <3> QED
      BY <1>1, <2>2, <2>3, SocketUpdate, Zenon
  <2>5. sock' \in [Host -> [Fd -> SafeSocket]]
    BY <1>1, <1>10, <2>4, PutType DEF RecvTCPData
  <2>6. app' \in [Host -> AppThread]
    BY <1>10, MoveType DEF RecvTCPData, TypeOK
  <2>7. ack \in SafePacket
    <3>1. "ACK" \in Kind \ {"DATA"}
      BY DEF Kind
    <3> HIDE DEF end
    <3> QED
      BY <1>4, <2>1, <3>1, ControlType
  <2>8. <<ack>> \in Seq(SafePacket)
    BY <2>7
  <2>9. SendTCPPackets(h, p.src, <<ack>>)
    BY <1>10 DEF RecvTCPData
  <2>10. wire' \in [Host -> [Host -> Seq(SafePacket)]]
    BY <2>8, <2>9, SendType, Zenon
  <2> QED
    BY <1>5, <1>10, <2>5, <2>6, <2>10, Zenon DEF RecvTCPData, TypeOK
<1>11. CASE Ignore(h)
  BY <1>5, <1>11 DEF Ignore, TypeOK
<1> QED
  BY <1>6, <1>7, <1>8, <1>9, <1>10, <1>11 DEF RxStep

-----------------------------------------------------------------------------
IInv == TypeOK /\ ReadWithinArrived /\ PendingSocketsExist

-----------------------------------------------------------------------------
(* The rest of type correctness. *)

LEMMA InitType ==
  ASSUME Init
  PROVE  TypeOK
<1>1. FirstFd \in Fd
  BY TcpAssumption DEF Fd, TcpAssumption
<1>2. sock \in [Host -> [Fd -> SafeSocket]]
  BY EmptySocketType DEF Init
<1>3. NoPacket \in SafePacket
  BY TcpAssumption DEF NoPacket, SafePacket, Packet, Kind, Address, TcpAssumption
<1>4. app \in [Host -> AppThread]
  BY <1>1 DEF Init, AppThread, Flag
<1>5. rx \in [Host -> RxThread]
  BY <1>1, <1>3 DEF Init, RxThread, Status
<1> QED
  BY <1>2, <1>4, <1>5, TcpAssumption DEF Init, TypeOK, TcpAssumption

\* Faults reorder, repeat or drop packets and invent none.
LEMMA FaultType ==
  ASSUME TypeOK, NEW g \in Host, NEW h \in Host,
         Lose(g, h) \/ Duplicate(g, h) \/ Reorder(g, h)
  PROVE  TypeOK'
<1> DEFINE w == wire[g][h]
<1>1. w \in Seq(SafePacket) /\ \A i \in DOMAIN w : w[i] \in SafePacket
  BY DEF TypeOK
<1>2. faults' \in 0 .. MaxFaults
  BY TcpAssumption, SMTT(40) DEF TypeOK, Lose, Duplicate, Reorder, Fault, TcpAssumption
<1>3. wire' \in [Host -> [Host -> Seq(SafePacket)]]
  <2>1. CASE Lose(g, h)
    <3>1. PICK i \in DOMAIN w : wire' = [wire EXCEPT ![g][h] = RemoveAt(@, i)]
      BY <2>1, Zenon DEF Lose
    <3>2. RemoveAt(w, i) \in Seq(SafePacket)
      BY <1>1 DEF RemoveAt
    <3> QED
      BY <3>1, <3>2 DEF TypeOK
  <2>2. CASE Duplicate(g, h)
    <3>1. PICK i \in DOMAIN w : wire' = [wire EXCEPT ![g][h] = Append(@, w[i])]
      BY <2>2, Zenon DEF Duplicate
    <3>2. Append(w, w[i]) \in Seq(SafePacket)
      BY <1>1
    <3> QED
      BY <3>1, <3>2 DEF TypeOK
  <2>3. CASE Reorder(g, h)
    <3>1. PICK i \in DOMAIN w :
            /\ i + 1 \in DOMAIN w
            /\ wire' = [wire EXCEPT ![g][h][i] = w[i + 1], ![g][h][i + 1] = w[i]]
      BY <2>3, Zenon DEF Reorder
    <3>2. [w EXCEPT ![i] = w[i + 1], ![i + 1] = w[i]] \in Seq(SafePacket)
      BY <1>1, <3>1
    <3> QED
      BY <3>1, <3>2, SMTT(40) DEF TypeOK
  <2> QED
    BY <2>1, <2>2, <2>3
<1> QED
  BY <1>2, <1>3, Zenon DEF TypeOK, Lose, Duplicate, Reorder, Fault

LEMMA StepType ==
  ASSUME TypeOK, ReadWithinArrived, [Next]_vars
  PROVE  TypeOK'
<1>1. CASE UNCHANGED vars
  BY <1>1 DEF vars, TypeOK
<1>2. ASSUME NEW h \in Host, SpuriousWakeup(h) PROVE TypeOK'
  BY <1>2, MoveType, SMTT(40) DEF SpuriousWakeup, TypeOK
<1> QED
  BY <1>1, <1>2, AppType, RxType, RecvType, FaultType DEF Next, Terminated

-----------------------------------------------------------------------------
(* Sockets that exist. *)

\* A step of one host's threads leaves the other hosts' threads and sockets.
LEMMA OthersUnchanged ==
  ASSUME TypeOK, NEW h \in Host, NEW g \in Host \ {h},
         AppStep(h) \/ SpuriousWakeup(h) \/ RxStep(h)
  PROVE  /\ sock'[g] = sock[g] /\ unsolved'[g] = unsolved[g]
         /\ app'[g] = app[g] /\ rx'[g] = rx[g]
<1>1. sock'[g] = sock[g]
  BY Zenon DEF TypeOK, AppStep, SocketCreate, SocketBind, SocketListen, Connect,
         ConnectReturn, AcceptCreate, AcceptDemote, AcceptPromote,
         AcceptAwaitAck, AcceptReturn, TestCondition, Block, SpuriousWakeup,
         Read, ReadReturn, WriteAppend, WriteSend, WriteReturn, CloseServer,
         CloseSendFin, CloseStore, CloseReturn, CallOnMissingSocket,
         RxStep, Pop, React, Store, RecvTCPAck, RecvTCPData, Ignore, Put
<1>2. unsolved'[g] = unsolved[g]
  BY Zenon DEF TypeOK, AppStep, SocketCreate, SocketBind, SocketListen, Connect,
         ConnectReturn, AcceptCreate, AcceptDemote, AcceptPromote,
         AcceptAwaitAck, AcceptReturn, TestCondition, Block, SpuriousWakeup,
         Read, ReadReturn, WriteAppend, WriteSend, WriteReturn, CloseServer,
         CloseSendFin, CloseStore, CloseReturn, CallOnMissingSocket,
         RxStep, Pop, React, Store, RecvTCPAck, RecvTCPData, Ignore
<1>3. app'[g] = app[g]
  BY ZenonT(40) DEF TypeOK, AppStep, SocketCreate, SocketBind, SocketListen, Connect,
         ConnectReturn, AcceptCreate, AcceptDemote, AcceptPromote,
         AcceptAwaitAck, AcceptReturn, TestCondition, Block, SpuriousWakeup,
         Read, ReadReturn, WriteAppend, WriteSend, WriteReturn, CloseServer,
         CloseSendFin, CloseStore, CloseReturn, CallOnMissingSocket,
         RxStep, Pop, React, Store, RecvTCPAck, RecvTCPData, Ignore,
         Goto, AwaitFlag, Return, NotifyAll
<1>4. rx'[g] = rx[g]
  BY Zenon DEF TypeOK, AppStep, SocketCreate, SocketBind, SocketListen, Connect,
         ConnectReturn, AcceptCreate, AcceptDemote, AcceptPromote,
         AcceptAwaitAck, AcceptReturn, TestCondition, Block, SpuriousWakeup,
         Read, ReadReturn, WriteAppend, WriteSend, WriteReturn, CloseServer,
         CloseSendFin, CloseStore, CloseReturn, CallOnMissingSocket,
         RxStep, Pop, React, Store, RecvTCPAck, RecvTCPData, Ignore, Idle
<1> QED
  BY <1>1, <1>2, <1>3, <1>4

\* A packet goes to a socket that exists.
LEMMA DestinationOpened ==
  ASSUME NEW h \in Host, NEW p, Destination(h, p) \in Fd
  PROVE  Destination(h, p) \in Opened(h)
<1>1. Matching(h, p) \in SUBSET (0 .. (LastFd + 1))
  BY FdRange, Zenon DEF Matching, Opened
<1>2. Matching(h, p) \subseteq Opened(h)
  BY DEF Matching
<1>3. CASE Matching(h, p) # {}
  <2>1. Min(Matching(h, p)) \in Matching(h, p)
    BY <1>1, <1>3, FdRange, MinOfBoundedSet, Zenon
  <2> QED
    BY <1>2, <1>3, <2>1 DEF Destination
<1>4. CASE Matching(h, p) = {}
  <2>1. LastFd + 2 \notin Fd
    BY TcpAssumption DEF Fd, TcpAssumption
  <2> QED
    BY <1>4, <2>1 DEF Destination
<1> QED
  BY <1>3, <1>4

\* A socket whose replacement exists keeps the table at least as full.
LEMMA PutOpened ==
  ASSUME TypeOK, NEW h \in Host, NEW f \in Fd, NEW s, Put(h, f, s),
         s.status # "FREE"
  PROVE  \A g \in Host : Opened(g) \subseteq Opened(g)'
  BY DEF Put, Opened, TypeOK

\* The updates of sockets that keep or set a status.
LEMMA StatusAfter ==
  ASSUME NEW s \in SafeSocket
  PROVE  /\ \A st : [s EXCEPT !.status = st].status = st
         /\ \A st, fs : [s EXCEPT !.status = st, !.ready = fs].status = st
         /\ \A st, l, r :
              /\ [s EXCEPT !.local = l, !.remote = r].status = s.status
              /\ [s EXCEPT !.tcbRole = "client", !.status = st,
                           !.local = l, !.remote = r].status = st
              /\ [s EXCEPT !.role = "server", !.tcbRole = "server",
                           !.status = st, !.local = l, !.remote = r].status = st
         /\ \A n : [s EXCEPT !.readp = n].status = s.status
         /\ \A n : [s EXCEPT !.writep = n].status = s.status
         /\ \A b, n : [s EXCEPT !.databuf = b, !.sizep = n].status = s.status
  BY DEF SafeSocket, Socket

\* A socket is never destroyed.
LEMMA SocketsStay ==
  ASSUME TypeOK, PendingSocketsExist, NEW h \in Host,
         AppStep(h) \/ RxStep(h)
  PROVE  \A g \in Host : Opened(g) \subseteq Opened(g)'
<1> DEFINE Stay == \A g \in Host : Opened(g) \subseteq Opened(g)'
<1>1. ASSUME UNCHANGED sock PROVE Stay
  BY <1>1 DEF Opened
<1> USE OwnSockets
<1>2. CASE SocketCreate(h)
  <2>1. \A b \in BOOLEAN : NewSocket(b).status # "FREE"
    BY DEF NewSocket, NoSocket
  <2>2. CASE FreshFd(h) <= LastFd
    <3>1. PICK b \in Garbage : Put(h, FreshFd(h), NewSocket(b))
      BY <1>2, <2>2 DEF SocketCreate
    <3>2. b \in BOOLEAN
      BY TcpAssumption DEF TcpAssumption
    <3> QED
      BY <2>1, <3>1, <3>2, FreshFdIsFd, PutOpened
  <2>3. CASE ~(FreshFd(h) <= LastFd)
    BY <1>1, <1>2, <2>3 DEF SocketCreate
  <2> QED
    BY <2>2, <2>3
<1>3. CASE AcceptCreate(h)
  BY <1>1, <1>3, FreshFdIsFd, PutOpened DEF AcceptCreate
<1>4. CASE SocketBind(h)
  <2> DEFINE s == Listener(h)
             t == [s EXCEPT !.role = "server", !.tcbRole = "server",
                            !.status = "CLOSED", !.local = Call(h).at,
                            !.remote = NoEndpoint]
  <2>1. CASE s.status # "FREE" /\ s.role = "none"
    <3>1. Put(h, app[h].lfd, t)
      BY <1>4, <2>1 DEF SocketBind
    <3>2. t.status = "CLOSED"
      BY StatusAfter
    <3> HIDE DEF t
    <3> QED
      BY <3>1, <3>2, PutOpened
  <2>2. CASE ~(s.status # "FREE" /\ s.role = "none")
    BY <1>1, <1>4, <2>2 DEF SocketBind
  <2> QED
    BY <2>1, <2>2
<1>5. CASE SocketListen(h)
  BY <1>5, StatusAfter DEF SocketListen, Put, Opened, TypeOK, Listener
<1>6. CASE Connect(h)
  BY <1>6, StatusAfter DEF Connect, Connfd, Put, Opened, TypeOK, Conn
<1>7. CASE AcceptDemote(h)
  BY <1>7, StatusAfter DEF AcceptDemote, Put, Opened, TypeOK, Listener
<1>8. CASE AcceptPromote(h)
  BY <1>8, StatusAfter DEF AcceptPromote, Connfd, Put, Opened, TypeOK, Conn
<1>9. CASE AcceptReturn(h)
  BY <1>9, StatusAfter, SMTT(40) DEF AcceptReturn, Put, Opened, TypeOK, Listener
<1>10. CASE ReadReturn(h)
  BY <1>10, StatusAfter DEF ReadReturn, Connfd, Put, Opened, TypeOK, Conn
<1>11. CASE WriteAppend(h)
  BY <1>11, StatusAfter DEF WriteAppend, Connfd, Put, Opened, TypeOK, Conn
<1>12. CASE WriteSend(h)
  <2> DEFINE s == Conn(h)
             n == IF s.writep + MSS > s.sizep THEN s.sizep - s.writep ELSE MSS
  <2>1. CASE n >= 0
    <3>1. Put(h, Connfd(h), [s EXCEPT !.writep = s.writep + n])
      BY <1>12, <2>1 DEF WriteSend
    <3> HIDE DEF n
    <3> QED
      BY <3>1, StatusAfter DEF Connfd, Put, Opened, TypeOK, Conn
  <2>2. CASE ~(n >= 0)
    BY <1>1, <1>12, <2>2 DEF WriteSend
  <2> QED
    BY <2>1, <2>2
<1>13. CASE CloseServer(h)
  BY <1>1, <1>13 DEF CloseServer
<1>14. CASE CloseSendFin(h)
  <2>1. CASE "close" \in Races
    BY <1>1, <1>14, <2>1 DEF CloseSendFin
  <2>2. CASE "close" \notin Races
    <3>1. Put(h, Connfd(h), [Conn(h) EXCEPT !.status = "FINWAIT1"])
      BY <1>14, <2>2 DEF CloseSendFin
    <3> QED
      BY <3>1, StatusAfter DEF Connfd, Put, Opened, TypeOK, Conn
  <2> QED
    BY <2>1, <2>2
<1>15. CASE CloseStore(h)
  BY <1>15, StatusAfter DEF CloseStore, Connfd, Put, Opened, TypeOK, Conn
<1>16. CASE Store(h)
  <2>1. rx[h].rule \in Rules
    BY <1>16 DEF Store, RxAt, PendingSocketsExist, PendingExist
  <2>2. rx[h].rule.to # "FREE"
    BY <2>1, RuleType
  <2> QED
    BY <1>16, <2>2, StatusAfter DEF Store, Put, Opened, TypeOK, RxSock
<1>17. CASE RecvTCPAck(h)
  <2>1. CASE RxSock(h).role = "server"
    BY <1>1, <1>17, <2>1 DEF RecvTCPAck
  <2>2. CASE RxSock(h).role # "server"
    <3>1. Put(h, rx[h].fd, [RxSock(h) EXCEPT !.writep = rx[h].pkt.ack])
      BY <1>17, <2>2 DEF RecvTCPAck
    <3> QED
      BY <3>1, StatusAfter DEF Put, Opened, TypeOK, RxSock
  <2> QED
    BY <2>1, <2>2
<1>18. CASE RecvTCPData(h)
  BY <1>18, StatusAfter, SMTT(40) DEF RecvTCPData, Put, Opened, TypeOK, RxSock
<1>19. CASE \/ ConnectReturn(h) \/ AcceptAwaitAck(h) \/ TestCondition(h)
             \/ Block(h) \/ Read(h) \/ WriteReturn(h) \/ CloseReturn(h)
             \/ CallOnMissingSocket(h) \/ Pop(h) \/ React(h) \/ Ignore(h)
  BY <1>1, <1>19 DEF ConnectReturn, AcceptAwaitAck, TestCondition, Block, Read,
     WriteReturn, CloseReturn, CallOnMissingSocket, Pop, React, Ignore
<1> QED
  BY <1>2, <1>3, <1>4, <1>5, <1>6, <1>7, <1>8, <1>9, <1>10, <1>11, <1>12, <1>13,
     <1>14, <1>15, <1>16, <1>17, <1>18, <1>19 DEF AppStep, RxStep

LEMMA PendingStep ==
  ASSUME IInv, [Next]_vars
  PROVE  PendingSocketsExist'
<1> USE DEF IInv
<1> SUFFICES ASSUME NEW k \in Host PROVE PendingExist(k)'
  BY DEF PendingSocketsExist
<1>1. PendingExist(k) /\ unsolved[k] \in Seq(Fd) /\ rx \in [Host -> RxThread]
  BY DEF PendingSocketsExist, TypeOK
<1>2. ASSUME UNCHANGED <<sock, unsolved, rx>> PROVE PendingExist(k)'
  BY <1>1, <1>2 DEF PendingExist, Opened
<1>3. ASSUME NEW h \in Host, AppStep(h) PROVE PendingExist(k)'
  <2>1. UNCHANGED <<unsolved, rx>>
    BY <1>3, Zenon DEF AppStep, SocketCreate, SocketBind, SocketListen, Connect,
       ConnectReturn, AcceptCreate, AcceptDemote, AcceptPromote, AcceptAwaitAck,
       AcceptReturn, TestCondition, Block, Read, ReadReturn, WriteAppend,
       WriteSend, WriteReturn, CloseServer, CloseSendFin, CloseStore,
       CloseReturn, CallOnMissingSocket
  <2>2. Opened(k) \subseteq Opened(k)'
    BY <1>3, SocketsStay
  <2> QED
    BY <1>1, <2>1, <2>2 DEF PendingExist
<1>4. ASSUME NEW h \in Host, RxStep(h) PROVE PendingExist(k)'
  <2>1. Opened(k) \subseteq Opened(k)'
    BY <1>4, SocketsStay
  <2>2. CASE h # k
    <3>1. unsolved'[k] = unsolved[k] /\ rx'[k] = rx[k]
      BY <1>4, <2>2, OthersUnchanged
    <3> QED
      BY <1>1, <2>1, <3>1 DEF PendingExist
  <2>3. CASE h = k
    <3>1. CASE Pop(h)
      <4>1. /\ unsolved[k] # <<>>
            /\ unsolved'[k] = Tail(unsolved[k])
            /\ rx'[k].pc = "react" /\ rx'[k].fd = Head(unsolved[k])
        BY <1>1, <2>3, <3>1 DEF Pop, TypeOK, RxThread
      <4>2. Head(unsolved[k]) \in Opened(k)
        BY <1>1, <4>1 DEF PendingExist
      <4>3. \A i \in DOMAIN Tail(unsolved[k]) :
              Tail(unsolved[k])[i] = unsolved[k][i + 1] /\ i + 1 \in DOMAIN unsolved[k]
        BY <1>1, <4>1
      <4> QED
        BY <1>1, <2>1, <4>1, <4>2, <4>3 DEF PendingExist
    <3>2. CASE React(h)
      <4>1. /\ unsolved' = unsolved /\ rx[k].pc = "react"
            /\ rx'[k].fd = rx[k].fd /\ rx'[k].rule \in Rules
        BY <1>1, <2>3, <3>2 DEF React, Applicable, RxAt, RxThread
      <4> QED
        BY <1>1, <2>1, <4>1 DEF PendingExist
    <3>3. CASE Store(h) \/ RecvTCPAck(h) \/ RecvTCPData(h) \/ Ignore(h)
      <4>1. unsolved' = unsolved /\ rx'[k].pc = "pop"
        BY <1>1, <2>3, <3>3
        DEF Store, RecvTCPAck, RecvTCPData, Ignore, Idle, RxThread
      <4> QED
        BY <1>1, <2>1, <4>1 DEF PendingExist
    <3> QED
      BY <1>4, <3>1, <3>2, <3>3 DEF RxStep
  <2> QED
    BY <2>2, <2>3
<1>5. ASSUME NEW g \in Host, NEW h \in Host, RecvIPPacket(g, h)
      PROVE  PendingExist(k)'
  <2> DEFINE p == Head(wire[g][h])
             f == Destination(h, p)
  <2>1. f \in Fd /\ f \in Opened(h)
    BY <1>5, DestinationOpened, SMTT(40) DEF RecvIPPacket
  <2>2. rx' = rx /\ unsolved' = [unsolved EXCEPT ![h] = Append(@, f)]
    BY <1>5 DEF RecvIPPacket
  <2>3. Opened(k) \subseteq Opened(k)'
    <3>1. CASE p.kind = "SYN"
      <4>1. Put(h, f, [sock[h][f] EXCEPT !.local = p.dst, !.remote = p.src])
        BY <1>5, <3>1, Zenon DEF RecvIPPacket
      <4>2. sock[h][f] \in SafeSocket
        BY <2>1 DEF TypeOK
      <4> HIDE DEF p, f
      <4> QED
        BY <2>1, <4>1, <4>2, StatusAfter, SMTT(40) DEF Put, Opened, TypeOK
    <3>2. CASE p.kind # "SYN"
      BY <1>5, <3>2 DEF RecvIPPacket, Opened
    <3> QED
      BY <3>1, <3>2
  <2>4. CASE h # k
    <3>1. unsolved'[k] = unsolved[k]
      BY <2>2, <2>4 DEF TypeOK
    <3> QED
      BY <1>1, <2>2, <2>3, <3>1, Zenon DEF PendingExist
  <2>5. CASE h = k
    <3>1. unsolved'[k] = Append(unsolved[k], f)
      BY <2>2, <2>5 DEF TypeOK
    <3>2. \A i \in DOMAIN unsolved'[k] :
            \/ unsolved'[k][i] = f
            \/ i \in DOMAIN unsolved[k] /\ unsolved'[k][i] = unsolved[k][i]
      <4>1. unsolved[k] \in Seq(Fd) /\ f \in Fd
        BY <1>1, <2>1
      <4>2. /\ DOMAIN unsolved'[k] = 1 .. (Len(unsolved[k]) + 1)
            /\ DOMAIN unsolved[k] = 1 .. Len(unsolved[k])
            /\ Len(unsolved[k]) \in Nat
        BY <3>1, <4>1
      <4>3. /\ unsolved'[k][Len(unsolved[k]) + 1] = f
            /\ \A i \in 1 .. Len(unsolved[k]) :
                 unsolved'[k][i] = unsolved[k][i]
        BY <3>1, <4>1, AppendProperties
      <4>4. \A i \in 1 .. (Len(unsolved[k]) + 1) :
              i = Len(unsolved[k]) + 1 \/ i \in 1 .. Len(unsolved[k])
        BY <4>2
      <4> QED
        BY <4>2, <4>3, <4>4
    <3>3. f \in Opened(k)
      BY <2>1, <2>5
    <3> HIDE DEF f
    <3> QED
      BY <1>1, <2>2, <2>3, <3>1, <3>2, <3>3 DEF PendingExist
  <2> QED
    BY <2>4, <2>5, SMTT(40)
<1> QED
  BY <1>2, <1>3, <1>4, <1>5 DEF Next, Terminated, vars, SpuriousWakeup,
     RecvUnmatchedPacket, Lose, Duplicate, Reorder, Fault
-----------------------------------------------------------------------------
(* Reads. *)

\* The sizes of a buffer after the updates the library threads make.
LEMMA SizesAfter ==
  ASSUME NEW s \in SafeSocket
  PROVE  /\ \A st, fs : LET t == [s EXCEPT !.status = st, !.ready = fs]
                       IN  t.readp = s.readp /\ t.sizep = s.sizep
         /\ \A l, r : LET t == [s EXCEPT !.local = l, !.remote = r]
                     IN  t.readp = s.readp /\ t.sizep = s.sizep
         /\ \A n : LET t == [s EXCEPT !.writep = n]
                  IN  t.readp = s.readp /\ t.sizep = s.sizep
         /\ \A b, n : LET t == [s EXCEPT !.databuf = b, !.sizep = n]
                     IN  t.readp = s.readp /\ t.sizep = n
  BY DEF SafeSocket, Socket

\* Packets only add to what a program may read.
LEMMA OnlyAdded ==
  ASSUME TypeOK, NEW h \in Host, NEW f \in Fd,
         RxStep(h) \/ (\E g \in Host : RecvIPPacket(g, h))
  PROVE  /\ sock'[h][f].readp = sock[h][f].readp
         /\ sock[h][f].sizep <= sock'[h][f].sizep
<1> DEFINE Kept == /\ sock'[h][f].readp = sock[h][f].readp
                   /\ sock[h][f].sizep <= sock'[h][f].sizep
<1> USE OwnSockets
<1>1. sock[h][f] \in SafeSocket /\ sock[h][f].sizep \in Nat
  <2>1. sock[h][f] \in SafeSocket
    BY DEF TypeOK
  <2> QED
    BY <2>1, Zenon DEF SafeSocket, Socket
<1>2. ASSUME UNCHANGED sock PROVE Kept
  BY <1>1, <1>2
<1>3. CASE Store(h)
  <2>1. Put(h, rx[h].fd, [RxSock(h) EXCEPT !.status = rx[h].rule.to,
                            !.ready = RxSock(h).ready \cup rx[h].rule.wake])
    BY <1>3 DEF Store
  <2> QED
    BY <1>1, <2>1, SizesAfter DEF Put, TypeOK, RxSock
<1>4. CASE RecvTCPAck(h)
  <2>1. CASE RxSock(h).role = "server"
    BY <1>2, <1>4, <2>1 DEF RecvTCPAck
  <2>2. CASE RxSock(h).role # "server"
    <3>1. Put(h, rx[h].fd, [RxSock(h) EXCEPT !.writep = rx[h].pkt.ack])
      BY <1>4, <2>2 DEF RecvTCPAck
    <3> QED
      BY <1>1, <3>1, SizesAfter, SMTT(40) DEF Put, TypeOK, RxSock
  <2> QED
    BY <2>1, <2>2
<1>5. CASE RecvTCPData(h)
  <2> DEFINE s == RxSock(h)
             p == rx[h].pkt
             end == p.seq + Len(p.data)
             size == IF end > s.sizep THEN end ELSE s.sizep
             buf == CopyIn(s.databuf, p.seq, p.data)
  <2>1. Put(h, rx[h].fd, [s EXCEPT !.databuf = buf, !.sizep = size])
    BY <1>5 DEF RecvTCPData
  <2>2. end \in Nat /\ s.sizep \in Nat
    <3>1. p \in SafePacket /\ s \in SafeSocket
      BY SMTT(40) DEF TypeOK, RxThread
    <3> HIDE DEF p, s
    <3> QED
      BY <3>1, SMTT(40) DEF SafePacket, Packet, SafeSocket, Socket
  <2>3. s.sizep <= size
    BY <2>2
  <2>4. s \in SafeSocket
    OBVIOUS
  <2> HIDE DEF size, buf
  <2> QED
    <3>1. /\ [s EXCEPT !.databuf = buf, !.sizep = size].readp = s.readp
          /\ [s EXCEPT !.databuf = buf, !.sizep = size].sizep = size
      BY <2>4, SizesAfter
    <3> DEFINE t == [s EXCEPT !.databuf = buf, !.sizep = size]
    <3>2. sock' = [sock EXCEPT ![h][rx[h].fd] = t]
      BY <2>1 DEF Put
    <3>3. t.readp = sock[h][rx[h].fd].readp /\ sock[h][rx[h].fd].sizep <= t.sizep
      BY <2>3, <3>1 DEF RxSock
    <3> HIDE DEF t
    <3> QED
      BY <1>1, <3>2, <3>3, SMTT(40) DEF TypeOK
<1>6. CASE Pop(h) \/ React(h) \/ Ignore(h)
  BY <1>2, <1>6 DEF Pop, React, Ignore
<1>7. ASSUME NEW g \in Host, RecvIPPacket(g, h) PROVE Kept
  <2> DEFINE p == Head(wire[g][h])
             d == Destination(h, p)
  <2>1. CASE p.kind = "SYN"
    <3>1. /\ Put(h, d, [sock[h][d] EXCEPT !.local = p.dst, !.remote = p.src])
          /\ d \in Fd
      BY <1>7, <2>1, Zenon DEF RecvIPPacket
    <3>2. sock[h][d] \in SafeSocket
      BY <3>1, SMTT(40) DEF TypeOK
    <3> HIDE DEF p, d
    <3> QED
      BY <1>1, <3>1, <3>2, SizesAfter, SMTT(40) DEF Put, TypeOK
  <2>2. CASE p.kind # "SYN"
    BY <1>2, <1>7, <2>2, Zenon DEF RecvIPPacket
  <2> QED
    BY <2>1, <2>2
<1> QED
  BY <1>3, <1>4, <1>5, <1>6, <1>7 DEF RxStep

\* What a thread waits for stays true while the other threads run.
LEMMA ArrivedStays ==
  ASSUME TypeOK, NEW k \in Host, WithinArrived(k),
         app'[k].ip = app[k].ip, app'[k].cv = app[k].cv,
         app'[k].cfd = app[k].cfd,
         app'[k].pc = app[k].pc \/ (app[k].pc = "wait" /\ app'[k].pc = "test"),
         sock'[k][app[k].cfd].readp = sock[k][app[k].cfd].readp,
         sock[k][app[k].cfd].sizep <= sock'[k][app[k].cfd].sizep,
         sock' \in [Host -> [Fd -> SafeSocket]]
  PROVE  WithinArrived(k)'
<1> SUFFICES ASSUME ReadWaits(k)' PROVE WithinArrived(k)'
  BY DEF WithinArrived
<1>1. /\ ReadWaits(k)
      /\ app[k].ip <= Len(Script[k]) /\ Call(k).op = "read"
  BY SMTT(40) DEF ReadWaits, WithinArrived
<1>2. Call(k)' = Call(k) /\ Call(k).n \in Nat
  BY <1>1, CallType, Zenon DEF Call
<1>3. app'[k].pc = "ready" => Conn(k)'.readp + Call(k)'.n <= Conn(k)'.sizep
  <2>1. app[k].cfd \in Fd
    BY OwnSockets
  <2>2. /\ sock[k][app[k].cfd].readp \in Nat
        /\ sock[k][app[k].cfd].sizep \in Nat
        /\ sock'[k][app[k].cfd].sizep \in Nat
    BY <2>1 DEF TypeOK, SafeSocket, Socket
  <2>3. app'[k].pc = "ready" =>
          sock[k][app[k].cfd].readp + Call(k).n <= sock[k][app[k].cfd].sizep
    BY <1>1 DEF WithinArrived, Conn
  <2> QED
    BY <1>2, <2>2, <2>3 DEF Conn
<1> QED
  BY <1>1, <1>2, <1>3 DEF WithinArrived

LEMMA ArrivedStep ==
  ASSUME IInv, [Next]_vars
  PROVE  ReadWithinArrived'
<1> USE DEF IInv
<1> USE OwnSockets
<1> SUFFICES ASSUME NEW k \in Host PROVE WithinArrived(k)'
  BY DEF ReadWithinArrived
<1>1. /\ WithinArrived(k) /\ app \in [Host -> AppThread] /\ app[k].cfd \in Fd
      /\ sock[k][app[k].cfd].sizep \in Nat
      /\ sock' \in [Host -> [Fd -> SafeSocket]]
  <2>1. TypeOK'
    BY StepType
  <2>2. sock[k][app[k].cfd] \in SafeSocket
    BY DEF Conn
  <2>3. sock[k][app[k].cfd].sizep \in Nat
    BY <2>2, Zenon DEF SafeSocket, Socket
  <2> QED
    BY <2>1, <2>3, Zenon DEF ReadWithinArrived, TypeOK
<1>2. ASSUME app'[k] = app[k], sock'[k] = sock[k] PROVE WithinArrived(k)'
  BY <1>1, <1>2, ArrivedStays
<1>3. ASSUME NEW h \in Host, AppStep(h) PROVE WithinArrived(k)'
  <2>1. CASE h # k
    BY <1>2, <1>3, <2>1, OthersUnchanged
  <2>2. CASE h = k
    <3>1. CASE Read(k)
      BY <1>1, <3>1 DEF Read, AtCall, AwaitFlag, WithinArrived, ReadWaits, Call,
                        AppThread
    <3>2. CASE TestCondition(k)
      BY <1>1, <3>2 DEF TestCondition, At, Goto, Awaited, WithinArrived,
                        ReadWaits, Call, Conn, AppThread
    <3>3. CASE Block(k)
      BY <1>1, <3>3 DEF Block, At, Goto, WithinArrived, ReadWaits, Call, Conn,
                        AppThread
    <3>4. CASE \/ Connect(k) \/ AcceptPromote(k) \/ AcceptAwaitAck(k)
      <4>1. app'[k].cv # "read"
        BY <1>1, <3>4 DEF Connect, AcceptPromote, AcceptAwaitAck, AwaitFlag,
                          AppThread
      <4> QED
        BY <4>1 DEF WithinArrived, ReadWaits
    <3>5. CASE CallOnMissingSocket(k)
      BY <1>2, <3>5 DEF CallOnMissingSocket
    <3>6. CASE \/ SocketCreate(k) \/ SocketBind(k) \/ SocketListen(k)
               \/ ConnectReturn(k) \/ AcceptCreate(k) \/ AcceptDemote(k)
               \/ AcceptReturn(k) \/ ReadReturn(k) \/ WriteAppend(k)
               \/ WriteSend(k) \/ WriteReturn(k) \/ CloseServer(k)
               \/ CloseSendFin(k) \/ CloseStore(k) \/ CloseReturn(k)
      <4>1. Return(k) => app'[k].pc = "call"
        BY <1>1 DEF Return, AppThread
      <4>2. \A pc \in {"promote", "send", "spin", "finsent", "closing"} :
              Goto(k, pc) => app'[k].pc = pc
        BY <1>1 DEF Goto, AppThread
      <4>3. SocketCreate(k) => app'[k].pc = "call"
        BY <1>1 DEF SocketCreate, AtCall, AppThread
      <4>4. AcceptCreate(k) => app'[k].pc = "demote"
        BY <1>1 DEF AcceptCreate, AppThread
      <4>5. \/ Return(k) \/ SocketCreate(k) \/ AcceptCreate(k)
            \/ \E pc \in {"promote", "send", "spin", "finsent", "closing"} :
                 Goto(k, pc)
        BY <3>6, Zenon DEF SocketBind, SocketListen, ConnectReturn, AcceptDemote,
           AcceptReturn, ReadReturn, WriteAppend, WriteSend, WriteReturn,
           CloseServer, CloseSendFin, CloseStore, CloseReturn
      <4>6. app'[k].pc \notin {"test", "block", "wait", "ready"}
        BY <4>1, <4>2, <4>3, <4>4, <4>5
      <4> QED
        BY <4>6 DEF WithinArrived, ReadWaits
    <3> QED
      BY <1>3, <2>2, <3>1, <3>2, <3>3, <3>4, <3>5, <3>6 DEF AppStep
  <2> QED
    BY <2>1, <2>2
<1>4. ASSUME NEW h \in Host, SpuriousWakeup(h) PROVE WithinArrived(k)'
  <2>1. CASE h # k
    BY <1>2, <1>4, <2>1, OthersUnchanged
  <2>2. CASE h = k
    BY <1>1, <1>4, <2>2, ArrivedStays DEF SpuriousWakeup, At, Goto, AppThread
  <2> QED
    BY <2>1, <2>2
<1>5. ASSUME NEW h \in Host, RxStep(h) PROVE WithinArrived(k)'
  <2>1. CASE h # k
    BY <1>2, <1>5, <2>1, OthersUnchanged
  <2>2. CASE h = k
    <3>1. /\ app'[k].ip = app[k].ip /\ app'[k].cv = app[k].cv
          /\ app'[k].cfd = app[k].cfd
          /\ app'[k].pc = app[k].pc \/ (app[k].pc = "wait" /\ app'[k].pc = "test")
      <4>1. app' = app \/ \E f, cvs : NotifyAll(k, f, cvs)
        BY <1>5, <2>2, Zenon
        DEF RxStep, Pop, React, Store, RecvTCPAck, RecvTCPData, Ignore
      <4> QED
        BY <1>1, <4>1 DEF NotifyAll, AppThread
    <3> QED
      BY <1>1, <1>5, <2>2, <3>1, OnlyAdded, ArrivedStays, SMTT(40)
  <2> QED
    BY <2>1, <2>2
<1>6. ASSUME NEW g \in Host, NEW h \in Host, RecvIPPacket(g, h)
      PROVE  WithinArrived(k)'
  <2>1. app' = app
    BY <1>6 DEF RecvIPPacket
  <2>2. CASE h # k
    <3>1. sock'[k] = sock[k]
      BY <1>6, <2>2, Zenon DEF RecvIPPacket, Put, TypeOK
    <3> QED
      BY <1>2, <2>1, <3>1
  <2>3. CASE h = k
    BY <1>1, <1>6, <2>1, <2>3, OnlyAdded, ArrivedStays, Zenon
  <2> QED
    BY <2>2, <2>3, SMTT(40)
<1>7. ASSUME UNCHANGED <<sock, app>> PROVE WithinArrived(k)'
  BY <1>2, <1>7
<1> QED
  BY <1>3, <1>4, <1>5, <1>6, <1>7 DEF Next, Terminated, vars,
     RecvUnmatchedPacket, Lose, Duplicate, Reorder, Fault
-----------------------------------------------------------------------------
(* The theorems. *)

\* It holds initially.
LEMMA InitHolds ==
  ASSUME Init
  PROVE  IInv
<1>1. ReadWithinArrived
  BY DEF Init, ReadWithinArrived, WithinArrived, ReadWaits
<1>2. PendingSocketsExist
  BY DEF Init, PendingSocketsExist, PendingExist
<1> QED
  BY <1>1, <1>2, InitType DEF IInv

\* The invariant holds initially and every step keeps it.
THEOREM Inductive == Spec => []IInv
<1>1. Init => IInv
  BY InitHolds
<1>2. IInv /\ [Next]_vars => IInv'
  BY StepType, PendingStep, ArrivedStep DEF IInv
<1> QED
  BY <1>1, <1>2, PTL DEF Spec

\* State and packets are always well formed; in particular no packet and no
\* write puts a byte outside databuf.
THEOREM TypeCorrect == Spec => []TypeOK
<1>1. IInv => TypeOK
  BY DEF IInv
<1> QED
  BY <1>1, Inductive, PTL

\* read() copies only bytes that have arrived.
THEOREM ReadsArrived == Spec => []ReadWithinArrived
<1>1. IInv => ReadWithinArrived
  BY DEF IInv
<1> QED
  BY <1>1, Inductive, PTL

\* The processip thread works only on sockets that exist.
THEOREM PendingExists == Spec => []PendingSocketsExist
<1>1. IInv => PendingSocketsExist
  BY DEF IInv
<1> QED
  BY <1>1, Inductive, PTL
=============================================================================
