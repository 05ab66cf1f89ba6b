--------------------------- MODULE TcpOrderProofs ---------------------------
(***************************************************************************)
(* A connection of the programs of TcpStreamProofs, the order of the       *)
(* packets on their way being part of the invariant.  First over a network *)
(* that loses, repeats and reorders nothing: no data segment is ahead of   *)
(* the bytes it follows, whatever is written and whatever races, so that   *)
(* read() returns what was written.  Then over one that does so once: none *)
(* is ahead of a byte that it follows of a write longer than a segment, so *)
(* that read() returns those writes whole.                                 *)
(***************************************************************************)
EXTENDS TcpStreamProofs

-----------------------------------------------------------------------------
(* Without a fault of the network, what is read is what was written.  The  *)
(* client sends its bytes more than once and in pieces that overlap, so    *)
(* the packets are not the stream in order: what holds is that none of     *)
(* them leaves a gap, that each data segment begins at a byte that the     *)
(* server has or that a packet before it brings.                           *)

\* Packet p brings byte x of the stream.
Covers(p, x) == p.kind = "DATA" /\ p.seq <= x /\ x < p.seq + Len(p.data)

\* Byte x is below low, or one of the first n packets of line brings it.
Reaches(line, n, low, x) == x < low \/ \E i \in 1 .. n : Covers(line[i], x)

\* No data segment of line comes before the bytes it follows.
GapFree(line, low) ==
  \A j \in 1 .. Len(line) : line[j].kind = "DATA" =>
    \A x \in 0 .. (line[j].seq - 1) : Reaches(line, j - 1, low, x)

\* Packets whose bytes the line brings can join it.
LEMMA LineGrows ==
  ASSUME NEW S, NEW line \in Seq(S), NEW ps \in Seq(S), NEW low,
         GapFree(line, low),
         \A i \in 1 .. Len(ps) : ps[i].kind = "DATA" =>
           \A x \in 0 .. (ps[i].seq - 1) : Reaches(line, Len(line), low, x)
  PROVE  /\ GapFree(line \o ps, low)
         /\ \A x : Reaches(line, Len(line), low, x) =>
              Reaches(line \o ps, Len(line \o ps), low, x)
         /\ \A i \in 1 .. Len(ps) : \A x : Covers(ps[i], x) =>
              Reaches(line \o ps, Len(line \o ps), low, x)
<1> DEFINE both == line \o ps
<1>1. /\ Len(both) = Len(line) + Len(ps) /\ Len(line) \in Nat /\ Len(ps) \in Nat
      /\ \A i \in 1 .. Len(line) : both[i] = line[i]
      /\ \A i \in (Len(line) + 1) .. Len(both) : both[i] = ps[i - Len(line)]
      /\ \A i \in 1 .. Len(ps) : both[Len(line) + i] = ps[i]
  <2>1. /\ Len(both) = Len(line) + Len(ps) /\ Len(line) \in Nat /\ Len(ps) \in Nat
        /\ \A i \in 1 .. Len(line) : both[i] = line[i]
        /\ \A i \in (Len(line) + 1) .. (Len(line) + Len(ps)) :
             both[i] = ps[i - Len(line)]
    BY Appended
  <2> HIDE DEF both
  <2>2. ASSUME NEW i \in 1 .. Len(ps) PROVE both[Len(line) + i] = ps[i]
    <3>1. /\ Len(line) + i \in (Len(line) + 1) .. (Len(line) + Len(ps))
          /\ (Len(line) + i) - Len(line) = i
      BY <2>1
    <3> QED
      BY <2>1, <3>1
  <2> QED
    BY <2>1, <2>2
<1> HIDE DEF both
<1>2. ASSUME NEW x, NEW m \in Nat, NEW n \in Nat, m <= n, m <= Len(line),
             Reaches(line, m, low, x)
      PROVE  Reaches(both, n, low, x)
  BY <1>1, <1>2, SMTT(40) DEF Reaches
<1>3. GapFree(both, low)
  <2> SUFFICES ASSUME NEW j \in 1 .. Len(both), both[j].kind = "DATA",
                      NEW x \in 0 .. (both[j].seq - 1)
               PROVE  Reaches(both, j - 1, low, x)
    BY DEF GapFree
  <2>1. CASE j <= Len(line)
    <3>1. j \in 1 .. Len(line) /\ both[j] = line[j] /\ j - 1 \in Nat /\ j - 1 <= Len(line)
      BY <1>1, <2>1
    <3>2. Reaches(line, j - 1, low, x)
      BY <3>1 DEF GapFree
    <3> QED
      BY <1>2, <3>1, <3>2
  <2>2. CASE ~(j <= Len(line))
    <3>1. /\ j - Len(line) \in 1 .. Len(ps) /\ both[j] = ps[j - Len(line)]
          /\ j - 1 \in Nat /\ Len(line) <= j - 1
      BY <1>1, <2>2
    <3>2. Reaches(line, Len(line), low, x)
      BY <3>1
    <3> QED
      BY <1>1, <1>2, <3>1, <3>2
  <2> QED
    BY <2>1, <2>2
<1>4. ASSUME NEW x, Reaches(line, Len(line), low, x)
      PROVE  Reaches(both, Len(both), low, x)
  <2>1. Len(both) \in Nat /\ Len(line) <= Len(both) /\ Len(line) <= Len(line)
    BY <1>1
  <2> QED
    BY <1>1, <1>2, <1>4, <2>1
<1>5. ASSUME NEW i \in 1 .. Len(ps), NEW x, Covers(ps[i], x)
      PROVE  Reaches(both, Len(both), low, x)
  <2>1. Len(line) + i \in 1 .. Len(both)
    BY <1>1
  <2> QED
    BY <1>1, <1>5, <2>1, Zenon DEF Reaches
<1> QED
  BY <1>3, <1>4, <1>5 DEF both

\* The first packet can leave the line when the server has the bytes it brings.
LEMMA LineShrinks ==
  ASSUME NEW S, NEW line \in Seq(S), line # <<>>,
         NEW low \in Nat, NEW high \in Nat, low <= high,
         GapFree(line, low), \A p \in S : p.kind = "DATA" => p.seq \in Nat,
         \A x \in Nat : Covers(line[1], x) => x < high
  PROVE  /\ GapFree(Tail(line), high)
         /\ \A x \in Nat : Reaches(line, Len(line), low, x) =>
              Reaches(Tail(line), Len(Tail(line)), high, x)
         /\ line[1].kind = "DATA" => \A x \in 0 .. (line[1].seq - 1) : x < low
<1> DEFINE rest == Tail(line)
<1>1. /\ rest \in Seq(S) /\ Len(rest) = Len(line) - 1 /\ Len(line) \in Nat \ {0}
      /\ \A i \in 1 .. Len(rest) : rest[i] = line[i + 1]
  BY HeadTailProperties
<1> HIDE DEF rest
<1>2. ASSUME NEW x \in Nat, NEW m \in 1 .. Len(line), Reaches(line, m, low, x)
      PROVE  Reaches(rest, m - 1, high, x)
  <2>1. CASE x < low
    BY <2>1 DEF Reaches
  <2>2. CASE \E i \in 1 .. m : Covers(line[i], x)
    <3>1. PICK i \in 1 .. m : Covers(line[i], x)
      BY <2>2
    <3>2. CASE i = 1
      BY <3>1, <3>2 DEF Reaches
    <3>3. CASE i # 1
      <4>1. /\ i - 1 \in 1 .. (m - 1) /\ i - 1 \in 1 .. Len(rest) /\ (i - 1) + 1 = i
        BY <1>1, <3>3
      <4>2. rest[i - 1] = line[i]
        BY <1>1, <4>1
      <4> QED
        BY <3>1, <4>1, <4>2 DEF Reaches
    <3> QED
      BY <3>2, <3>3
  <2> QED
    BY <1>2, <2>1, <2>2 DEF Reaches
<1>3. GapFree(rest, high)
  <2> SUFFICES ASSUME NEW j \in 1 .. Len(rest), rest[j].kind = "DATA",
                      NEW x \in 0 .. (rest[j].seq - 1)
               PROVE  Reaches(rest, j - 1, high, x)
    BY DEF GapFree
  <2>1. /\ j + 1 \in 1 .. Len(line) /\ rest[j] = line[j + 1] /\ (j + 1) - 1 = j
        /\ j \in 1 .. Len(line) /\ x \in Nat
    BY <1>1
  <2>2. Reaches(line, j, low, x)
    BY <2>1 DEF GapFree
  <2> QED
    BY <1>2, <2>1, <2>2
<1>4. ASSUME NEW x \in Nat, Reaches(line, Len(line), low, x)
      PROVE  Reaches(rest, Len(rest), high, x)
  <2>1. Len(line) \in 1 .. Len(line) /\ Len(line) - 1 = Len(rest)
    BY <1>1
  <2> QED
    BY <1>2, <1>4, <2>1
<1>5. ASSUME line[1].kind = "DATA", NEW x \in 0 .. (line[1].seq - 1) PROVE x < low
  <2>1. 1 \in 1 .. Len(line)
    BY <1>1
  <2>2. Reaches(line, 1 - 1, low, x)
    BY <1>5, <2>1 DEF GapFree
  <2> QED
    BY <2>2 DEF Reaches
<1> QED
  BY <1>3, <1>4, <1>5 DEF rest

\* The packets between the client's thread and the accepted socket, the first to
\* be processed first: in processip's hands, in the socket's queue, on the wire.
HandOf(h) == IF rx[h].pc = "react" THEN <<rx[h].pkt>> ELSE <<>>
LineOf(h, f, g) == HandOf(h) \o (queue[h][f] \o wire[g][h])
Line == LineOf(recver, ServerFd, sender)

\* write() has appended and has not returned.
Sending == app[sender].pc \in {"send", "spin"}

\* Everything goes to the accepted socket.
OneSocket ==
  /\ queue[recver][FirstFd] = <<>>
  /\ rx[recver].pc # "pop" => rx[recver].fd = ServerFd
  /\ app[recver].ip >= 3 => ListenSock.remote = NoEndpoint
  /\ ListenSock.sizep = 0
  /\ Accepts => ServerSock.sizep = 0
  /\ wire[recver][recver] = <<>>

\* Every byte that counts as sent has arrived or is on its way.
SentOnWay ==
  \A x \in 0 .. (ClientSock.sizep - 1) :
    (x < ClientSock.writep \/ ~Sending) =>
      Reaches(Line, Len(Line), ServerSock.sizep, x)

\* No ACK is ahead of what has arrived, before the close.
AcksArrived ==
  \A p \in Pending(sender) :
    p.kind = "ACK" /\ ~Closing => p.ack <= ServerSock.sizep

\* What has arrived is what was written.
SameBytes ==
  \A x \in 0 .. (BufSize - 1) :
    x < ServerSock.sizep => ServerSock.databuf[x] = ClientSock.databuf[x]

NoGap ==
  GapFree(Line, ServerSock.sizep) /\ SentOnWay /\ AcksArrived /\ SameBytes

\* The parts of a line.
LEMMA LineParts ==
  ASSUME TypeOK, NEW h \in Host, NEW f \in Fd, NEW g \in Host
  PROVE  /\ HandOf(h) \in Seq(SafePacket)
         /\ queue[h][f] \in Seq(SafePacket)
         /\ wire[g][h] \in Seq(SafePacket)
         /\ LineOf(h, f, g) \in Seq(SafePacket)
<1>1. HandOf(h) \in Seq(SafePacket)
  BY DEF TypeOK, RxThread, HandOf
<1>2. queue[h][f] \in Seq(SafePacket) /\ wire[g][h] \in Seq(SafePacket)
  BY DEF TypeOK
<1>3. queue[h][f] \o wire[g][h] \in Seq(SafePacket)
  BY <1>2, ConcatProperties
<1>4. LineOf(h, f, g) \in Seq(SafePacket)
  BY <1>1, <1>3, ConcatProperties DEF LineOf
<1> QED
  BY <1>1, <1>2, <1>4

\* The server's line, and the sizes.
LEMMA LineType ==
  ASSUME OneWay, TypeOK
  PROVE  /\ wire[sender][recver] \in Seq(SafePacket)
         /\ Line \in Seq(SafePacket)
         /\ Len(Line) \in Nat
         /\ ServerSock.sizep \in Nat /\ ClientSock.sizep \in Nat
         /\ ClientSock.writep \in Nat /\ BufSize \in Nat
<1>1. recver \in Host /\ sender \in Host /\ ServerFd \in Fd
  BY Hypothesis
<1>2. Line \in Seq(SafePacket) /\ wire[sender][recver] \in Seq(SafePacket)
  BY <1>1, LineParts DEF Line
<1> QED
  BY <1>2, SocketBounds

\* What a data packet is.
LEMMA PacketFields ==
  ASSUME NEW p \in SafePacket
  PROVE  /\ p.ack \in Nat /\ p.seq \in Nat
         /\ p.data \in Seq(Content) /\ Len(p.data) \in Nat
         /\ p.kind = "DATA" => p.seq + Len(p.data) <= BufSize
<1>1. p.ack \in Nat /\ p.seq \in Nat /\ p.data \in Seq(Content)
  BY DEF SafePacket, Packet
<1>2. p.kind = "DATA" => p.seq + Len(p.data) <= BufSize
  BY DEF SafePacket
<1>3. Len(p.data) \in Nat
  BY <1>1
<1> QED
  BY <1>1, <1>2, <1>3

\* A step that sends from one of the two hosts to the other's endpoint.
LEMMA SentOnLine ==
  ASSUME OneWay, TypeOK, NEW ps
  PROVE  /\ SendTCPPackets(sender, sport, ps) =>
              /\ wire'[sender][recver] = wire[sender][recver] \o ps
              /\ wire'[recver] = wire[recver]
              /\ wire'[sender][sender] = wire[sender][sender]
         /\ SendTCPPackets(recver, cport, ps) =>
              /\ wire'[recver][sender] = wire[recver][sender] \o ps
              /\ wire'[sender] = wire[sender]
              /\ wire'[recver][recver] = wire[recver][recver]
<1>1. /\ sender \in Host /\ recver \in Host /\ sender # recver
      /\ sport \in Endpoint /\ cport \in Endpoint
      /\ HostOf[sport] = recver /\ HostOf[cport] = sender
  BY Hypothesis
<1>2. wire \in [Host -> [Host -> Seq(SafePacket)]]
  BY DEF TypeOK
<1> QED
  BY <1>1, <1>2 DEF SendTCPPackets

\* What is sent to a line's host joins the line.
LEMMA LineSent ==
  ASSUME TypeOK, NEW h \in Host, NEW f \in Fd, NEW g \in Host,
         rx'[h] = rx[h], queue'[h] = queue[h], NEW T, NEW ps \in Seq(T),
         wire'[g][h] = wire[g][h] \o ps
  PROVE  LineOf(h, f, g)' = LineOf(h, f, g) \o ps
<1>1. PICK a, b, c, S : /\ a = HandOf(h) /\ b = queue[h][f] /\ c = wire[g][h]
                        /\ S = SafePacket \cup T
  BY Zenon
<1>2. a \in Seq(S) /\ b \in Seq(S) /\ c \in Seq(S) /\ ps \in Seq(S)
  <2>1. a \in Seq(SafePacket) /\ b \in Seq(SafePacket) /\ c \in Seq(SafePacket)
    BY <1>1, LineParts
  <2> QED
    BY <1>1, <2>1
<1>3. LineOf(h, f, g) = a \o (b \o c) /\ LineOf(h, f, g)' = a \o (b \o (c \o ps))
  BY <1>1 DEF LineOf, HandOf
<1>4. b \o (c \o ps) = (b \o c) \o ps
  BY <1>2, SMTT(40)
<1>5. PICK d : d = b \o c
  BY Zenon
<1>6. d \in Seq(S)
  BY <1>2, <1>5
<1>7. a \o (d \o ps) = (a \o d) \o ps
  BY <1>2, <1>6, SMTT(40)
<1> QED
  BY <1>3, <1>4, <1>5, <1>7

\* A packet that arrives stays in its place in the line.
LEMMA LineArrives ==
  ASSUME TypeOK, NEW h \in Host, NEW f \in Fd, NEW g \in Host, Arrival(g, h),
         Destination(h, Head(wire[g][h])) = f
  PROVE  LineOf(h, f, g)' = LineOf(h, f, g)
<1>1. PICK a, b, c : a = HandOf(h) /\ b = queue[h][f] /\ c = wire[g][h]
  BY Zenon
<1>2. a \in Seq(SafePacket) /\ b \in Seq(SafePacket) /\ c \in Seq(SafePacket) /\ c # <<>>
  BY <1>1, LineParts, Zenon DEF Arrival
<1>3. PICK p, d : p = Head(c) /\ d = Tail(c)
  BY Zenon
<1>4. p \in SafePacket /\ d \in Seq(SafePacket) /\ c = <<p>> \o d
  BY <1>2, <1>3
<1>5. wire'[g][h] = d
  BY <1>1, <1>3, Zenon DEF Arrival, Arrives, TypeOK
<1>6. queue'[h][f] = Append(b, p) /\ HandOf(h)' = a
  BY <1>1, <1>3, Zenon DEF Arrival, HandOf
<1>7. Append(b, p) = b \o <<p>> /\ <<p>> \in Seq(SafePacket)
  BY <1>2, <1>4, AppendIsConcat
<1>8. (b \o <<p>>) \o d = b \o c
  BY <1>2, <1>4, <1>7, ConcatAssociative
<1> QED
  BY <1>1, <1>5, <1>6, <1>7, <1>8, Zenon DEF LineOf

\* So does a packet that processip takes.
LEMMA LinePops ==
  ASSUME TypeOK, NEW h \in Host, NEW f \in Fd, NEW g \in Host, Pops(h),
         rx'[h].fd = f
  PROVE  LineOf(h, f, g)' = LineOf(h, f, g)
<1>1. PICK b, c : b = queue[h][f] /\ c = wire[g][h]
  OBVIOUS
<1>2. b \in Seq(SafePacket) /\ c \in Seq(SafePacket) /\ b # <<>>
  BY <1>1, LineParts DEF Pops
<1>3. PICK p, d : p = Head(b) /\ d = Tail(b)
  BY Zenon
<1>4. p \in SafePacket /\ d \in Seq(SafePacket) /\ b = <<p>> \o d /\ <<p>> \in Seq(SafePacket)
  BY <1>2, <1>3
<1>5. HandOf(h) = <<>> /\ HandOf(h)' = <<p>> /\ queue'[h][f] = d /\ wire'[g][h] = c
  BY <1>1, <1>3 DEF Pops, HandOf
<1>6. (<<p>> \o d) \o c = <<p>> \o (d \o c)
  BY <1>2, <1>4, ConcatAssociative
<1>7. <<>> \o (b \o c) = b \o c
  BY <1>2, ConcatProperties, ConcatEmptySeq
<1> QED
  BY <1>1, <1>4, <1>5, <1>6, <1>7, Zenon DEF LineOf

\* A packet that processip has dealt with was the first of the line.
LEMMA LineDone ==
  ASSUME TypeOK, NEW h \in Host, NEW f \in Fd, NEW g \in Host,
         rx[h].pc = "react", rx'[h].pc # "react",
         queue'[h][f] = queue[h][f], wire'[g][h] = wire[g][h]
  PROVE  /\ LineOf(h, f, g) # <<>> /\ LineOf(h, f, g)[1] = rx[h].pkt
         /\ LineOf(h, f, g)' = Tail(LineOf(h, f, g))
<1>1. PICK b, c : b = queue[h][f] /\ c = wire[g][h]
  OBVIOUS
<1>2. b \in Seq(SafePacket) /\ c \in Seq(SafePacket)
  BY <1>1, LineParts
<1>3. PICK p, d : p = rx[h].pkt /\ d = b \o c
  BY Zenon
<1>4. p \in SafePacket /\ d \in Seq(SafePacket)
  BY <1>2, <1>3, ConcatProperties DEF TypeOK, RxThread
<1>5. LineOf(h, f, g) = <<p>> \o d
  BY <1>1, <1>3 DEF LineOf, HandOf
<1>6. LineOf(h, f, g)' = <<>> \o d
  BY <1>1, <1>3, Zenon DEF LineOf, HandOf
<1>7. <<>> \o d = d
  BY <1>4, ConcatEmptySeq
<1>8. (<<p>> \o d) # <<>> /\ (<<p>> \o d)[1] = p /\ Tail(<<p>> \o d) = d
  BY <1>4
<1> QED
  BY <1>3, <1>5, <1>6, <1>7, <1>8

\* The bytes that have arrived stay the client's when neither buffer loses any.
LEMMA BytesAgree ==
  ASSUME OneWay, StreamIInv, IInv', Grows, SameBytes,
         ServerSock'.sizep = ServerSock.sizep,
         ServerSock.sizep > 0 => ServerSock'.databuf = ServerSock.databuf
  PROVE  SameBytes'
<1>1. ServerSock.sizep \in Nat /\ ClientSock.sizep \in Nat /\ BufSize \in Nat
      /\ ServerSock.sizep <= ClientSock.sizep
  BY SocketBounds DEF StreamIInv, StreamInv, IInv, BytesInv, Copies
<1> SUFFICES ASSUME NEW x \in 0 .. (BufSize - 1), x < ServerSock'.sizep
             PROVE  ServerSock'.databuf[x] = ClientSock'.databuf[x]
  BY DEF SameBytes
<1>2. x \in Nat /\ x < ServerSock.sizep /\ x < ClientSock.sizep /\ ServerSock.sizep > 0
  BY <1>1
<1>3. ClientSock'.databuf[x] = ClientSock.databuf[x]
  BY <1>2 DEF Grows
<1> QED
  BY <1>2, <1>3 DEF SameBytes

\* ACKs that were pending before are not ahead of what has arrived.
LEMMA AcksKept ==
  ASSUME OneWay, StreamIInv, IInv', Grows, AcksArrived,
         \A p \in Pending(sender)' :
           \/ p \in Pending(sender)
           \/ p.kind # "ACK" \/ Closing \/ p.ack <= ServerSock'.sizep,
         ServerSock.sizep <= ServerSock'.sizep
  PROVE  AcksArrived'
<1>1. ServerSock.sizep \in Nat /\ ServerSock'.sizep \in Nat
  BY LineType, SocketBounds, Hypothesis, SMTT(40)
  DEF StreamIInv, IInv, TypeOK, SafeSocket, Socket, ServerSock
<1> SUFFICES ASSUME NEW p \in Pending(sender)', p.kind = "ACK", ~Closing'
             PROVE  p.ack <= ServerSock'.sizep
  BY DEF AcksArrived
<1>2. ~Closing
  BY DEF Grows
<1>3. CASE p \in Pending(sender)
  <2>1. p \in SafePacket
    BY <1>3, PendingSafe, Hypothesis DEF StreamIInv, IInv
  <2>2. p.ack \in Nat
    BY <2>1, PacketFields
  <2>3. p.ack <= ServerSock.sizep
    BY <1>2, <1>3 DEF AcksArrived
  <2> QED
    BY <1>1, <2>2, <2>3
<1> QED
  BY <1>2, <1>3

\* A step at the client that sends ps, when what then counts as sent was on its
\* way or is in ps, and ps begins where that ends.
LEMMA ClientSendsOn ==
  ASSUME OneWay, StreamIInv, IInv', Grows, KeepsServer, NoGap,
         Pending(sender)' \subseteq Pending(sender),
         NEW ps \in Seq(SafePacket),
         wire'[sender][recver] = wire[sender][recver] \o ps,
         \A i \in 1 .. Len(ps) : ps[i].kind = "DATA" =>
           \A x \in 0 .. (ps[i].seq - 1) :
             Reaches(Line, Len(Line), ServerSock.sizep, x),
         \A x \in 0 .. (ClientSock'.sizep - 1) :
           (x < ClientSock'.writep \/ ~Sending') =>
             \/ Reaches(Line, Len(Line), ServerSock.sizep, x)
             \/ \E i \in 1 .. Len(ps) : Covers(ps[i], x)
  PROVE  NoGap'
<1> USE DEF StreamIInv, StreamInv, IInv
<1>1. ServerSock' = ServerSock
  BY DEF KeepsServer, ServerSock
<1>2. SameBytes'
  BY <1>1, BytesAgree DEF NoGap
<1>3. AcksArrived'
  <2>1. ServerSock.sizep \in Nat
    BY LineType
  <2> QED
    BY <1>1, <2>1, AcksKept DEF NoGap
<1>4. PICK line, low : line = Line /\ low = ServerSock.sizep
  OBVIOUS
<1>5. line \in Seq(SafePacket) /\ GapFree(line, low)
  BY <1>4, LineType DEF NoGap
<1>6. Line' = line \o ps /\ ServerSock'.sizep = low
  <2>1. sender \in Host /\ recver \in Host /\ ServerFd \in Fd
    BY Hypothesis
  <2>2. TypeOK /\ rx'[recver] = rx[recver] /\ queue'[recver] = queue[recver]
    BY DEF KeepsServer
  <2>3. Line' = Line \o ps
    BY <2>1, <2>2, LineSent, ZenonT(40) DEF Line
  <2> QED
    BY <1>1, <1>4, <2>3
<1>7. \A i \in 1 .. Len(ps) : ps[i].kind = "DATA" =>
        \A x \in 0 .. (ps[i].seq - 1) : Reaches(line, Len(line), low, x)
  BY <1>4
<1>8. /\ GapFree(line \o ps, low)
      /\ \A x : Reaches(line, Len(line), low, x) =>
           Reaches(line \o ps, Len(line \o ps), low, x)
      /\ \A i \in 1 .. Len(ps) : \A x : Covers(ps[i], x) =>
           Reaches(line \o ps, Len(line \o ps), low, x)
  BY <1>5, <1>7, LineGrows
<1>9. GapFree(Line', ServerSock'.sizep)
  BY <1>6, <1>8
<1>10. ASSUME NEW x \in 0 .. (ClientSock'.sizep - 1), x < ClientSock'.writep \/ ~Sending'
       PROVE  Reaches(Line', Len(Line'), ServerSock'.sizep, x)
  BY <1>4, <1>6, <1>8, <1>10
<1> QED
  BY <1>2, <1>3, <1>9, <1>10 DEF NoGap, SentOnWay

\* The client's thread leaves no gap.
LEMMA ClientActsNoGap ==
  ASSUME OneWay, StreamIInv, IInv', ClientActs, NoGap
  PROVE  NoGap'
<1> USE DEF StreamIInv, StreamInv, IInv
<1> DEFINE s == ClientSock
           a == app[sender]
           Reached(x) == Reaches(Line, Len(Line), ServerSock.sizep, x)
<1>1. Grows /\ KeepsServer /\ ClientStep /\ Pending(sender)' \subseteq Pending(sender)
  BY ClientGrows, ClientActsOwnPackets DEF ClientActs
<1>2. s.sizep \in Nat /\ s.writep \in Nat /\ MSS \in Nat
  BY LineType, TcpAssumption DEF TcpAssumption
<1>3. ~Closing => s.writep <= s.sizep
  BY DEF BytesInv
<1>4. \A x \in 0 .. (s.sizep - 1) : (x < s.writep \/ ~Sending) => Reached(x)
  BY DEF NoGap, SentOnWay
<1>5. sport \in Endpoint /\ sport \in Address /\ cport \in Address /\ sender \in Host
      /\ Len(Script[sender]) \in Nat /\ a.ip \in Nat
  BY Hypothesis, Zenon DEF Address, TypeOK, AppThread
<1>6. ASSUME wire' = wire,
             \A x \in 0 .. (ClientSock'.sizep - 1) :
               (x < ClientSock'.writep \/ ~Sending') => Reached(x)
      PROVE  NoGap'
  <2>1. PICK ps : ps = <<>>
    OBVIOUS
  <2>2. ps \in Seq(SafePacket) /\ Len(ps) = 0
    BY <2>1
  <2>3. wire'[sender][recver] = wire[sender][recver] \o ps
    BY <1>6, <2>1, LineType, ConcatEmptySeq
  <2>4. \A i \in 1 .. Len(ps) : FALSE
    BY <2>2
  <2> QED
    BY <1>1, <1>6, <2>2, <2>3, <2>4, ClientSendsOn, Zenon
<1>7. ASSUME NEW q \in SafePacket, SendTCPPackets(sender, sport, <<q>>),
             q.kind = "DATA" => \A x \in 0 .. (q.seq - 1) : Reached(x),
             \A x \in 0 .. (ClientSock'.sizep - 1) :
               (x < ClientSock'.writep \/ ~Sending') => Reached(x) \/ Covers(q, x)
      PROVE  NoGap'
  <2>1. PICK ps : ps = <<q>>
    BY Zenon
  <2>2. ps \in Seq(SafePacket) /\ Len(ps) = 1 /\ ps[1] = q
    BY <2>1
  <2>3. wire'[sender][recver] = wire[sender][recver] \o ps
    BY <1>7, <2>1, SentOnLine, Zenon
  <2>4. \A i \in 1 .. Len(ps) : ps[i] = q
    BY <2>2
  <2>5. \A x : Covers(q, x) => \E i \in 1 .. Len(ps) : Covers(ps[i], x)
    BY <2>2
  <2> QED
    BY <1>1, <1>7, <2>2, <2>3, <2>4, <2>5, ClientSendsOn, Zenon
<1>8. ASSUME ~Sending, ClientSock'.sizep = s.sizep
      PROVE  \A x \in 0 .. (ClientSock'.sizep - 1) : Reached(x)
  BY <1>4, <1>8
<1> HIDE DEF Reached
<1>9. CASE ClientSocket
  <2>1. wire' = wire /\ ClientSock'.sizep = 0
    BY <1>9 DEF ClientSocket
  <2> QED
    BY <1>6, <2>1
<1>10. ASSUME ClientConnects \/ ClientCloses PROVE NoGap'
  <2>1. ~Sending /\ ClientSock'.sizep = s.sizep
    BY <1>10 DEF ClientConnects, ClientCloses, Sending, SameStream
  <2>2. PICK kind \in {"SYN", "FIN"} :
          SendTCPPackets(sender, sport, <<Segment(kind, cport, sport, 0, 0, <<>>)>>)
    BY <1>10 DEF ClientConnects, ClientCloses
  <2>3. PICK q : q = Segment(kind, cport, sport, 0, 0, <<>>)
    OBVIOUS
  <2>4. q \in SafePacket /\ q.kind # "DATA"
    BY <1>5, <2>3, ControlType DEF Segment, Kind
  <2> QED
    BY <1>7, <1>8, <2>1, <2>2, <2>3, <2>4
<1>11. ASSUME ClientWaits \/ ClientConnected \/ ClientStoresClose \/ ClientClosed
       PROVE  NoGap'
  <2>1. ~Sending /\ ClientSock'.sizep = s.sizep /\ wire' = wire
    BY <1>11 DEF ClientWaits, ClientConnected, ClientStoresClose, ClientClosed,
                 ClientMoves, Sending, SameStream, Waits, ClientSock
  <2> QED
    BY <1>6, <1>8, <2>1
<1>12. CASE ClientAppends
  <2>1. /\ ~Sending /\ Sending' /\ wire' = wire /\ ~Closing
        /\ ClientSock'.writep = s.writep
    BY <1>5, <1>12 DEF ClientAppends, AppTo, Sending, Closing
  <2>2. \A x \in 0 .. (ClientSock'.sizep - 1) : x < ClientSock'.writep => Reached(x)
    <3>1. ASSUME NEW x \in 0 .. (ClientSock'.sizep - 1), x < s.writep PROVE Reached(x)
      <4>1. x \in 0 .. (s.sizep - 1)
        BY <1>2, <1>3, <2>1, <3>1
      <4> QED
        BY <1>4, <2>1, <4>1 DEF Reached
    <3> QED
      BY <2>1, <3>1
  <2> QED
    BY <1>6, <2>1, <2>2
<1>13. CASE ClientSends
  <2>1. PICK n : n = Unsent(s)
    OBVIOUS
  <2>2. PICK d : d = Slice(s.databuf, s.writep, n)
    OBVIOUS
  <2>3. PICK q : q = Segment("DATA", cport, sport, s.writep, 0, d)
    OBVIOUS
  <2>4. /\ Sending /\ Sending' /\ ~Closing
        /\ ClientSock'.writep = s.writep + n /\ ClientSock'.sizep = s.sizep
        /\ SendTCPPackets(sender, sport, <<q>>)
    BY <1>5, <1>13, <2>1, <2>2, <2>3
    DEF ClientSends, AppTo, Sending, Closing, SameBuffer
  <2>5. n \in Nat /\ s.writep + n <= s.sizep /\ s.writep <= s.sizep
    BY <1>2, <1>3, <2>1, <2>4 DEF Unsent
  <2>6. d \in Seq(Content) /\ Len(d) = n
    <3>1. s.databuf \in [0 .. (BufSize - 1) -> Content] /\ s.sizep <= BufSize /\ BufSize \in Nat
      BY SocketBounds
    <3> QED
      BY <1>2, <2>2, <2>5, <3>1, SliceType
  <2>7. q \in SafePacket /\ q.kind = "DATA" /\ q.seq = s.writep /\ q.data = d
    <3>1. q.kind = "DATA" /\ q.seq = s.writep /\ q.data = d
      BY <2>3 DEF Segment
    <3>2. s.writep + Len(d) <= BufSize
      BY <1>2, <2>5, <2>6, SocketBounds, SMTT(40)
    <3>3. q \in SafePacket
      BY <1>2, <1>5, <2>3, <2>6, <3>2, DataType, Zenon
    <3> QED
      BY <3>1, <3>3
  <2>8. \A x \in 0 .. (s.writep - 1) : Reached(x)
    <3>1. \A x \in 0 .. (s.writep - 1) : x \in 0 .. (s.sizep - 1) /\ x < s.writep
      BY <1>2, <2>5
    <3> QED
      BY <1>4, <3>1 DEF Reached
  <2>9. ASSUME NEW x \in 0 .. (ClientSock'.sizep - 1), x < ClientSock'.writep
        PROVE  Reached(x) \/ Covers(q, x)
    <3>1. CASE x < s.writep
      BY <1>2, <2>8, <3>1
    <3>2. CASE ~(x < s.writep)
      BY <1>2, <2>4, <2>5, <2>6, <2>7, <2>9, <3>2 DEF Covers
    <3> QED
      BY <3>1, <3>2
  <2> QED
    BY <1>7, <2>4, <2>7, <2>8, <2>9
<1>14. CASE ClientWritten
  <2>1. /\ wire' = wire /\ ClientSock'.sizep = s.sizep /\ s.writep = s.sizep
    BY <1>14 DEF ClientWritten, ClientMoves, ClientSock
  <2>2. \A x \in 0 .. (s.sizep - 1) : x < s.writep
    BY <1>2, <2>1
  <2> QED
    BY <1>4, <1>6, <2>1, <2>2 DEF Reached
<1> QED
  BY <1>1, <1>9, <1>10, <1>11, <1>12, <1>13, <1>14 DEF ClientStep

\* The answers to a packet carry no data.
LEMMA AnswersDataless ==
  ASSUME TypeOK, NEW h \in Host, Reacts(h), rx[h].pkt.src \in Endpoint
  PROVE  \E ps \in Seq(SafePacket) :
           /\ SendTCPPackets(h, rx[h].pkt.src, ps)
           /\ \A i \in 1 .. Len(ps) : ps[i].kind # "DATA"
<1>1. PICK q, r : q = rx[h].pkt /\ r = rx'[h].rule
  OBVIOUS
<1>2. q \in SafePacket /\ r \in Rules
  BY <1>1 DEF Reacts, TypeOK, RxThread
<1>3. q.src \in Address /\ q.dst \in Address /\ q.seq + 1 \in Nat /\ q.ack \in Nat
  BY <1>2 DEF SafePacket, Packet
<1>4. r.send \in Seq(Kind \ {"DATA"})
  BY <1>2, RuleType
<1>5. PICK ps : ps = [i \in DOMAIN r.send |-> Reply(q, r.send[i])]
  BY Zenon
<1>6. DOMAIN r.send = 1 .. Len(r.send) /\ Len(r.send) \in Nat
  BY <1>4
<1>7. ASSUME NEW i \in DOMAIN r.send
      PROVE  Reply(q, r.send[i]) \in SafePacket /\ Reply(q, r.send[i]).kind # "DATA"
  <2>1. r.send[i] \in Kind \ {"DATA"}
    BY <1>4, <1>7
  <2> QED
    BY <1>3, <2>1, ControlType DEF Reply, Segment
<1>8. ps \in Seq(SafePacket) /\ Len(ps) = Len(r.send)
  BY <1>5, <1>6, <1>7
<1>9. \A i \in 1 .. Len(ps) : ps[i].kind # "DATA"
  BY <1>5, <1>6, <1>7, <1>8
<1> QED
  BY <1>1, <1>5, <1>8, <1>9, Zenon DEF Reacts

\* Nor does processip of the client: an ACK moves writep to a byte that has
\* arrived while write() is sending.
LEMMA ClientReceivesNoGap ==
  ASSUME OneWay, StreamIInv, IInv', ClientReceives, NoGap
  PROVE  NoGap'
<1> USE DEF StreamIInv, StreamInv, IInv
<1> DEFINE s == ClientSock
           p == rx[sender].pkt
           Reached(x) == Reaches(Line, Len(Line), ServerSock.sizep, x)
<1>1. /\ Grows /\ KeepsServer /\ RxMoves(sender) /\ rx'[sender].fd = FirstFd
      /\ Pending(sender)' \subseteq Pending(sender)
  BY ClientReceivesGrows, ClientReceivesPackets DEF ClientReceives
<1>2. s.sizep \in Nat /\ s.writep \in Nat /\ ServerSock.sizep \in Nat /\ MSS \in Nat \ {0}
  BY LineType, TcpAssumption DEF TcpAssumption
<1>3. \A x \in 0 .. (s.sizep - 1) : (x < s.writep \/ ~Sending) => Reached(x)
  BY DEF NoGap, SentOnWay
<1>4. /\ sport \in Endpoint /\ sport \in Address /\ cport \in Address
      /\ sender \in Host /\ FirstFd \in Fd
  BY Hypothesis, Zenon DEF Address
<1>5. Sending' <=> Sending
  BY <1>1, Zenon DEF RxMoves, Pops, Reacts, Stores, Ignores, StoresData, Acks, Notified, AppTo,
              Sending
<1>6. rx[sender].pc # "pop" => p.src = sport /\ p.dst = cport /\ p.kind # "DATA"
  BY InClientsHand DEF FromServer
<1> HIDE DEF Reached
<1>7. ASSUME ClientSock'.sizep = s.sizep, ClientSock'.writep = s.writep,
             NEW ps \in Seq(SafePacket), \A i \in 1 .. Len(ps) : ps[i].kind # "DATA",
             wire'[sender][recver] = wire[sender][recver] \o ps
      PROVE  NoGap'
  <2>1. \A x \in 0 .. (ClientSock'.sizep - 1) :
          (x < ClientSock'.writep \/ ~Sending') => Reached(x)
    BY <1>3, <1>5, <1>7
  <2> QED
    BY <1>1, <1>7, <2>1, ClientSendsOn, Zenon DEF Reached
<1>8. ASSUME ClientSock'.sizep = s.sizep, ClientSock'.writep = s.writep, wire' = wire
      PROVE  NoGap'
  <2>1. PICK ps : ps = <<>>
    OBVIOUS
  <2>2. ps \in Seq(SafePacket) /\ \A i \in 1 .. Len(ps) : FALSE
    BY <2>1
  <2>3. wire'[sender][recver] = wire[sender][recver] \o ps
    BY <1>8, <2>1, LineType, ConcatEmptySeq
  <2> QED
    BY <1>7, <1>8, <2>2, <2>3
<1>9. CASE Pops(sender) \/ Stores(sender) \/ Ignores(sender)
  <2>1. wire' = wire
    BY <1>9, SMTT(40) DEF Pops, Stores, Ignores
  <2>2. ClientSock'.sizep = s.sizep /\ ClientSock'.writep = s.writep
    BY <1>1, <1>9 DEF Pops, Stores, Ignores, Idles, SameStream, ClientSock, ClientFd
  <2> QED
    BY <1>8, <2>1, <2>2
<1>10. CASE Reacts(sender)
  <2>1. p.src = sport
    BY <1>6, <1>10 DEF Reacts
  <2>2. PICK ps \in Seq(SafePacket) :
          /\ SendTCPPackets(sender, sport, ps)
          /\ \A i \in 1 .. Len(ps) : ps[i].kind # "DATA"
    BY <1>4, <1>10, <2>1, AnswersDataless
  <2>3. wire'[sender][recver] = wire[sender][recver] \o ps
    BY <2>2, SentOnLine
  <2>4. ClientSock'.sizep = s.sizep /\ ClientSock'.writep = s.writep
    BY <1>10, SMTT(40) DEF Reacts, ClientSock
  <2> QED
    BY <1>7, <2>2, <2>3, <2>4, Zenon
<1>11. CASE StoresData(sender)
  BY <1>6, <1>11 DEF StoresData
<1>12. CASE Acks(sender)
  <2>1. PICK k : k = p.ack
    OBVIOUS
  <2>2. PICK n : n = Lesser(MSS, s.sizep - k)
    OBVIOUS
  <2>3. PICK d : d = Slice(s.databuf, k, n)
    BY SMTT(40)
  <2>4. rx[sender].pc = "react" /\ p.kind = "ACK" /\ rx[sender].fd = FirstFd
    BY <1>1, <1>12 DEF Acks, Idles
  <2>5. /\ ClientSock'.sizep = s.sizep /\ ClientSock'.writep = k
        /\ \/ wire' = wire
           \/ /\ k < s.sizep
              /\ SendTCPPackets(sender, sport,
                   <<Segment("DATA", cport, sport, k, 0, d)>>)
    BY <1>6, <1>12, <2>1, <2>2, <2>3, <2>4
    DEF Acks, SameBuffer, ClientSock, ClientFd
  <2>6. p \in Pending(sender) /\ k \in Nat
    <3>1. p \in Pending(sender)
      BY <2>4, PendingIs
    <3> QED
      BY <1>4, <2>1, <3>1, PendingSafe, PacketFields
  <2>7. ASSUME NEW x \in 0 .. (s.sizep - 1), x < k \/ ~Sending PROVE Reached(x)
    <3>1. CASE ~Sending
      BY <1>3, <3>1
    <3>2. CASE Sending
      <4>1. ~Closing
        BY <3>2, ClientCalls DEF Closing, Sending
      <4>2. k <= ServerSock.sizep
        BY <2>1, <2>4, <2>6, <4>1 DEF NoGap, AcksArrived
      <4> QED
        BY <1>2, <2>6, <2>7, <3>2, <4>2 DEF Reached, Reaches
    <3> QED
      BY <3>1, <3>2
  <2>8. CASE wire' = wire
    <3>1. PICK ps : ps = <<>>
      OBVIOUS
    <3>2. ps \in Seq(SafePacket) /\ \A i \in 1 .. Len(ps) : FALSE
      BY <3>1
    <3>3. wire'[sender][recver] = wire[sender][recver] \o ps
      BY <2>8, <3>1, LineType, ConcatEmptySeq
    <3>4. \A x \in 0 .. (ClientSock'.sizep - 1) :
            (x < ClientSock'.writep \/ ~Sending') => Reached(x)
      BY <1>5, <2>5, <2>7
    <3> QED
      BY <1>1, <3>2, <3>3, <3>4, ClientSendsOn DEF Reached
  <2>9. CASE k < s.sizep
             /\ SendTCPPackets(sender, sport, <<Segment("DATA", cport, sport, k, 0, d)>>)
    <3>1. PICK q : q = Segment("DATA", cport, sport, k, 0, d)
      OBVIOUS
    <3>2. PICK ps : ps = <<q>>
      BY Zenon
    <3>3. d \in Seq(Content) /\ k + Len(d) <= BufSize
      <4>1. /\ s.databuf \in [0 .. (BufSize - 1) -> Content]
            /\ s.sizep <= BufSize /\ BufSize \in Nat
        BY SocketBounds
      <4>2. n \in Nat /\ k + n <= BufSize
        BY <1>2, <2>2, <2>6, <2>9, <4>1, SMTT(40) DEF Lesser
      <4> QED
        BY <2>3, <2>6, <4>1, <4>2, SliceType
    <3>4. q \in SafePacket /\ q.seq = k
      BY <1>4, <2>6, <3>1, <3>3, DataType DEF Segment
    <3>5. ps \in Seq(SafePacket) /\ \A i \in 1 .. Len(ps) : ps[i] = q
      BY <3>2, <3>4
    <3>6. wire'[sender][recver] = wire[sender][recver] \o ps
      BY <2>9, <3>1, <3>2, SentOnLine, Zenon
    <3>7. \A x \in 0 .. (k - 1) : Reached(x)
      <4>1. \A x \in 0 .. (k - 1) : x \in 0 .. (s.sizep - 1) /\ x < k
        BY <1>2, <2>6, <2>9
      <4> QED
        BY <2>7, <4>1
    <3>8. \A i \in 1 .. Len(ps) : ps[i].kind = "DATA" =>
            \A x \in 0 .. (ps[i].seq - 1) : Reached(x)
      BY <3>4, <3>5, <3>7
    <3>9. \A x \in 0 .. (ClientSock'.sizep - 1) :
            (x < ClientSock'.writep \/ ~Sending') => Reached(x)
      BY <1>5, <2>5, <2>7
    <3> QED
      BY <1>1, <3>5, <3>6, <3>8, <3>9, ClientSendsOn, Zenon DEF Reached
  <2> QED
    BY <2>5, <2>8, <2>9
<1> QED
  BY <1>1, <1>9, <1>10, <1>11, <1>12 DEF RxMoves

\* What arrives at the server comes from the client and, a SYN apart, goes to the
\* accepted socket.
LEMMA ClientsSegment ==
  ASSUME OneWay, StreamIInv, OneSocket, NEW g \in Host, Arrival(g, recver)
  PROVE  LET p == Head(wire[sender][recver])
             f == Destination(recver, p)
         IN  /\ g = sender /\ p \in OnWires(recver) /\ FromClient(p)
             /\ app[recver].ip >= 3
             /\ \/ f = ServerFd
                \/ f = FirstFd /\ p.kind = "SYN" /\ app[recver].ip > 3
<1> USE DEF StreamIInv, StreamInv, IInv
<1>1. /\ Host = {sender, recver} /\ recver \in Host /\ FirstFd \in Nat
      /\ ServerFd = FirstFd + 1 /\ NoEndpoint # cport
  BY Hypothesis, Zenon
<1>2. wire[g][recver] # <<>> /\ g = sender
  BY <1>1, Zenon DEF Arrival, OneSocket
<1>3. PICK w \in Seq(SafePacket) : w = wire[sender][recver]
  BY LineType
<1>4. PICK p : p = Head(w)
  OBVIOUS
<1>5. p = w[1] /\ 1 \in DOMAIN w
  BY <1>2, <1>3, <1>4
<1>6. p \in Pending(recver) /\ p \in OnWires(recver)
  BY <1>1, <1>2, <1>3, <1>5, PendingIs DEF OnWires
<1>7. FromClient(p)
  BY <1>6 DEF PacketsInv
<1>8. PICK f : f = Destination(recver, p)
  BY Zenon
<1>9. f \in Fd
  BY <1>2, <1>3, <1>4, <1>8, Zenon DEF Arrival
<1>10. f \in {FirstFd, ServerFd} /\ app[recver].ip >= 3 /\ (app[recver].ip = 3 => f = ServerFd)
  BY <1>7, <1>8, <1>9, ServerDestination
<1>11. ASSUME f = FirstFd PROVE p.kind = "SYN" /\ app[recver].ip > 3
  <2>1. app[recver].ip > 3 /\ Taken
    <3>1. app[recver].ip > 3
      BY <1>1, <1>10, <1>11, ServerSockets
    <3>2. Taken
      BY <3>1 DEF HandshakeInv
    <3> QED
      BY <3>1, <3>2
  <2>2. ASSUME p.kind # "SYN" PROVE FALSE
    <3>1. PICK M : M = Matching(recver, p)
      BY Zenon
    <3>2. M = {e \in Opened(recver) : sock[recver][e].local = sport
                                        /\ sock[recver][e].remote = cport}
      BY <1>7, <2>2, <3>1 DEF Matching, FromClient
    <3>3. FirstFd \notin M /\ M \subseteq {FirstFd, ServerFd}
      BY <1>1, <1>10, <3>2, ServerSockets DEF OneSocket, ListenSock
    <3>4. ServerFd \in M
      <4>1. ServerFd \in Opened(recver) /\ ServerSock.local = sport
        BY <1>1, <2>1, ServerSockets DEF ServerInv, IsServer, Taken
      <4> QED
        BY <2>1, <3>2, <4>1 DEF Taken, ServerSock
    <3>5. M = {ServerFd} /\ f = Min(M)
      BY <1>8, <3>1, <3>3, <3>4 DEF Destination
    <3>6. f = ServerFd
      BY <1>1, <3>5 DEF Min
    <3> QED
      BY <1>1, <1>11, <3>6
  <2> QED
    BY <2>1, <2>2
<1> QED
  BY <1>2, <1>3, <1>4, <1>6, <1>7, <1>8, <1>10, <1>11

\* With the one SYN gone, all of it does.
LEMMA OneDestination ==
  ASSUME OneWay, StreamIInv, OneSyn, OneSocket, NEW g \in Host, Arrival(g, recver)
  PROVE  g = sender /\ Destination(recver, Head(wire[sender][recver])) = ServerFd
<1>1. PICK p, f : p = Head(wire[sender][recver]) /\ f = Destination(recver, p)
  BY Zenon
<1>2. /\ g = sender /\ p \in OnWires(recver)
      /\ f = ServerFd \/ (p.kind = "SYN" /\ app[recver].ip > 3)
  BY <1>1, ClientsSegment
<1>3. ~(p.kind = "SYN" /\ app[recver].ip > 3)
  <2>1. app[recver].ip > 3 => Taken
    BY DEF StreamIInv, StreamInv, HandshakeInv
  <2> QED
    BY <1>2, <2>1 DEF OneSyn
<1> QED
  BY <1>1, <1>2, <1>3

\* Without faults nothing happens to a wire but what is sent and what arrives.
LEMMA NothingFaulty ==
  ASSUME Faults = {}
  PROVE  ~Faulty
  BY DEF Faulty, Lose, Duplicate, Reorder, Fault

\* What the server does to its two sockets: the thread's steps.
LEMMA ServerActsSockets ==
  ASSUME OneWay, StreamIInv, IInv', ServerActs, OneSocket
  PROVE  /\ UNCHANGED <<queue, wire, rx>>
         /\ app'[recver].ip >= 3 => ListenSock'.remote = NoEndpoint
         /\ ListenSock'.sizep = 0
         /\ Accepts' => Accepts
         /\ ServerSock'.sizep = ServerSock.sizep
         /\ ServerSock.sizep > 0 => ServerSock'.databuf = ServerSock.databuf
<1> USE DEF StreamIInv, StreamInv, IInv
<1>1. /\ FirstFd \in Fd /\ ServerFd \in Fd /\ ServerFd # FirstFd /\ recver \in Host
      /\ app[recver].ip \in Nat /\ ServerSock.sizep \in Nat
      /\ ListenSock.sizep = 0
  BY Hypothesis, LineType, Zenon DEF TypeOK, AppThread, OneSocket
<1>2. ServerStep
  BY DEF ServerActs
<1>3. CASE ServerAccepts
  <2>1. ServerSock' = ListenSock /\ ListenSock' = ListenSock
    BY <1>1, <1>3 DEF ServerAccepts, OnlySock, ListenSock
  <2>2. app[recver].ip = 3 /\ app'[recver].ip = 3 /\ app'[recver].pc = "demote" /\ Accepts
    BY <1>3 DEF ServerAccepts, Accepts
  <2> QED
    BY <1>1, <1>2, <2>1, <2>2 DEF OneSocket, ServerStep, ServerFrame
<1>4. CASE ServerSocket \/ ServerBinds
  <2>1. ServerSock' = ServerSock /\ ListenSock'.sizep = 0
    BY <1>1, <1>4 DEF ServerSocket, ServerBinds, OnlySock, ServerSock, SameStream
  <2>2. app'[recver].ip >= 3 => ListenSock'.remote = NoEndpoint
    BY <1>4 DEF ServerSocket, ServerBinds, AppTo
  <2>3. Accepts
    BY <1>4 DEF ServerSocket, ServerBinds, Accepts
  <2> QED
    BY <1>2, <2>1, <2>2, <2>3 DEF ServerStep, ServerFrame
<1>5. CASE ServerDemotes \/ ServerPromotes \/ ServerAccepted \/ ServerHasRead
  <2>1. /\ ListenSock'.remote = ListenSock.remote /\ ListenSock'.sizep = 0
        /\ ServerSock'.sizep = ServerSock.sizep
        /\ ServerSock'.databuf = ServerSock.databuf
    BY <1>1, <1>5
    DEF ServerDemotes, ServerPromotes, ServerAccepted, ServerHasRead, OnlySock,
        SameEnds, SameStream, SameBuffer, ServerSock, ListenSock
  <2>2. app[recver].ip >= 3 /\ ~Accepts'
    BY <1>1, <1>5, SMTT(40)
    DEF ServerDemotes, ServerPromotes, ServerAccepted, ServerHasRead, AppTo, Accepts
  <2> QED
    BY <1>2, <2>1, <2>2, ZenonT(40) DEF ServerStep, ServerFrame, OneSocket
<1>6. CASE ServerWaits \/ ServerAwaitsAck \/ ServerReads \/ ServerCloses \/ ServerClosed
  <2>1. ListenSock' = ListenSock /\ ServerSock' = ServerSock
    BY <1>6 DEF ServerWaits, ServerAwaitsAck, ServerReads, ServerCloses, ServerClosed,
                ServerMoves, ListenSock, ServerSock
  <2>2. app[recver].ip >= 3
    <3>1. Len(Script[recver]) >= 4
      BY DEF OneWay, ServerScript
    <3> QED
      BY <1>1, <1>6, <3>1
      DEF ServerWaits, ServerAwaitsAck, ServerReads, ServerCloses, ServerClosed
  <2>3. Accepts' => Accepts
    BY <1>1, <1>6, <2>2
    DEF ServerWaits, ServerAwaitsAck, ServerReads, ServerCloses, ServerClosed,
        ServerMoves, AppTo, Accepts, Waits
  <2> QED
    BY <1>1, <1>2, <2>1, <2>2, <2>3 DEF ServerStep, ServerFrame, OneSocket
<1> QED
  BY <1>2, <1>3, <1>4, <1>5, <1>6 DEF ServerStep

\* Its processip works on the accepted socket alone, and answers the client.
LEMMA ServerReceivesOne ==
  ASSUME OneWay, StreamIInv, IInv', ServerReceives, OneSocket
  PROVE  /\ rx'[recver].fd = ServerFd
         /\ ListenSock' = ListenSock /\ (Accepts' <=> Accepts) /\ ~Accepts
         /\ app'[recver].ip = app[recver].ip
         /\ queue'[recver][FirstFd] = <<>>
         /\ wire'[sender][recver] = wire[sender][recver]
         /\ wire'[recver][recver] = <<>>
         /\ \/ Pops(recver) \/ Reacts(recver) \/ Stores(recver) \/ Ignores(recver)
            \/ StoresData(recver)
<1> USE DEF StreamIInv, StreamInv, IInv
<1>1. /\ FirstFd \in Fd /\ ServerFd \in Fd /\ ServerFd # FirstFd /\ recver \in Host
      /\ cport \in Endpoint
  BY Hypothesis
<1>2. RxMoves(recver) /\ rx'[recver].fd \in {FirstFd, ServerFd}
  BY DEF ServerReceives
<1>3. rx'[recver].fd = ServerFd /\ queue'[recver][FirstFd] = <<>>
  <2>1. CASE Pops(recver)
    BY <1>1, <1>2, <2>1, Zenon DEF Pops, OneSocket
  <2>2. CASE ~Pops(recver)
    BY <1>2, <2>2, Zenon
    DEF RxMoves, Reacts, Stores, Ignores, StoresData, Acks, Idles, OneSocket
  <2> QED
    BY <2>1, <2>2
<1>4. ListenSock' = ListenSock
  BY <1>1, <1>2, <1>3, Zenon
  DEF RxMoves, Pops, Reacts, Stores, Ignores, StoresData, Acks, Idles, OnlySock,
      ListenSock, OneSocket
<1>5. (Accepts' <=> Accepts) /\ app'[recver].ip = app[recver].ip
  BY <1>2, Zenon DEF RxMoves, Pops, Reacts, Stores, Ignores, StoresData, Acks, Notified,
              AppTo, Accepts
<1>6. ~Accepts
  BY ServerReceivesTaken, Hypothesis DEF ServerInv, Taken
<1>7. ~(Acks(recver) /\ RxSock(recver).role # "server")
  BY <1>3, <1>6 DEF Acks, Idles, RxSock, ServerInv, IsServer, ServerSock
<1>8. rx[recver].pc # "pop" => rx[recver].pkt.src = cport
  BY InServersHand DEF FromClient
<1>9. /\ wire'[sender][recver] = wire[sender][recver]
      /\ wire'[recver][recver] = <<>>
  <2>1. wire' = wire \/ \E ps : SendTCPPackets(recver, cport, ps)
    BY <1>2, <1>7, <1>8, Zenon DEF RxMoves, Pops, Reacts, Stores, Ignores, StoresData
  <2> QED
    BY <2>1, SentOnLine, ZenonT(40) DEF OneSocket
<1> QED
  BY <1>2, <1>3, <1>4, <1>5, <1>6, <1>7, <1>9 DEF RxMoves

\* Everything goes on going to the accepted socket, as long as what arrives does.
LEMMA OneSocketKept ==
  ASSUME OneWay, StreamIInv, IInv', OneSocket,
         \/ ClientActs \/ ServerActs \/ ClientReceives \/ ServerReceives
         \/ ClientArrival \/ UNCHANGED vars
  PROVE  OneSocket'
<1> USE DEF StreamIInv, StreamInv, IInv
<1>1. /\ FirstFd \in Fd /\ ServerFd \in Fd /\ ServerFd # FirstFd
      /\ sender \in Host /\ recver \in Host /\ sender # recver
      /\ app[recver].ip \in Nat
  BY Hypothesis DEF TypeOK, AppThread
<1>2. CASE ClientActs \/ ClientReceives
  <2>1. KeepsServer
    BY <1>2 DEF ClientActs, ClientReceives
  <2>2. wire'[recver][recver] = <<>>
    <3>1. wire' = wire \/ \E ps : SendTCPPackets(sender, sport, ps)
      <4>1. CASE ClientActs
        BY <4>1, Zenon
        DEF ClientActs, ClientStep, ClientSocket, ClientConnects, ClientWaits,
            ClientConnected, ClientAppends, ClientSends, ClientWritten, ClientCloses,
            ClientStoresClose, ClientClosed, ClientMoves
      <4>2. CASE ClientReceives
        <5>1. rx[sender].pc # "pop" => rx[sender].pkt.src = sport
          BY InClientsHand DEF FromServer
        <5> QED
          BY <4>2, <5>1, Zenon
          DEF ClientReceives, RxMoves, Pops, Reacts, Stores, Ignores, StoresData, Acks
      <4> QED
        BY <1>2, <4>1, <4>2
    <3> QED
      BY <3>1, SentOnLine DEF OneSocket
  <2> QED
    BY <2>1, <2>2 DEF OneSocket, KeepsServer, ListenSock, ServerSock, Accepts
<1>3. CASE ServerActs
  BY <1>3, ServerActsSockets DEF OneSocket
<1>4. CASE ServerReceives
  BY <1>4, ServerReceivesOne DEF OneSocket
<1>5. CASE ClientArrival
  <2>1. PICK g \in Host : Arrives(g, sender) /\ KeepsServer
    BY <1>5, Zenon DEF ClientArrival, Arrival
  <2>2. wire'[recver][recver] = wire[recver][recver]
    BY <1>1, <2>1 DEF Arrives, TypeOK
  <2> QED
    BY <2>1, <2>2, Zenon DEF OneSocket, KeepsServer, ListenSock, ServerSock, Accepts
<1>6. CASE UNCHANGED vars
  BY <1>6 DEF vars, OneSocket, ListenSock, ServerSock, Accepts
<1> QED
  BY <1>2, <1>3, <1>4, <1>5, <1>6

\* What arrives at the accepted socket changes nothing for the others.
LEMMA OneSocketArrival ==
  ASSUME OneWay, StreamIInv, IInv', OneSocket, Arrival(sender, recver),
         Destination(recver, Head(wire[sender][recver])) = ServerFd
  PROVE  OneSocket'
<1> USE DEF StreamIInv, StreamInv, IInv
<1>1. /\ FirstFd \in Fd /\ ServerFd \in Fd /\ ServerFd # FirstFd
      /\ sender \in Host /\ recver \in Host /\ sender # recver
  BY Hypothesis
<1>2. wire'[recver][recver] = wire[recver][recver]
  BY <1>1, Zenon DEF Arrival, Arrives, TypeOK
<1>3. /\ ListenSock' = ListenSock /\ ServerSock'.sizep = ServerSock.sizep
      /\ queue'[recver][FirstFd] = queue[recver][FirstFd] /\ app' = app /\ rx' = rx
  BY <1>1, Zenon DEF Arrival, OnlySock, SameStream, ListenSock, ServerSock
<1> QED
  BY <1>2, <1>3 DEF OneSocket, Accepts

\* Without faults everything goes on going there.
LEMMA OneSocketStep ==
  ASSUME OneWay, Faults = {}, StreamIInv, IInv', [Next]_vars, OneSyn, OneSocket,
         ~ServerDies
  PROVE  OneSocket'
<1>1. CASE ServerArrival
  <2>1. /\ Arrival(sender, recver)
        /\ Destination(recver, Head(wire[sender][recver])) = ServerFd
    BY <1>1, OneDestination, Zenon DEF ServerArrival
  <2> QED
    BY <2>1, OneSocketArrival
<1> QED
  BY <1>1, OneSocketKept, Steps, NothingFaulty

\* A step that leaves the line and what the client counts as sent alone.
LEMMA SameLine ==
  ASSUME OneWay, StreamIInv, IInv', Grows, NoGap, Line' = Line,
         ClientSock' = ClientSock, app'[sender] = app[sender],
         ServerSock'.sizep = ServerSock.sizep,
         ServerSock.sizep > 0 => ServerSock'.databuf = ServerSock.databuf,
         \A p \in Pending(sender)' :
           p \in Pending(sender) \/ p.kind # "ACK" \/ Closing
  PROVE  NoGap'
<1>1. SameBytes'
  BY BytesAgree DEF NoGap
<1>2. AcksArrived'
  <2>1. ServerSock.sizep \in Nat
    BY LineType DEF StreamIInv, IInv
  <2> QED
    BY <2>1, AcksKept DEF NoGap
<1>3. GapFree(Line', ServerSock'.sizep)
  BY DEF NoGap
<1>4. SentOnWay'
  BY DEF NoGap, SentOnWay, Sending
<1> QED
  BY <1>1, <1>2, <1>3, <1>4 DEF NoGap

\* The server's thread leaves no gap.
LEMMA ServerActsNoGap ==
  ASSUME OneWay, StreamIInv, IInv', ServerActs, OneSocket, NoGap
  PROVE  NoGap'
<1> USE DEF StreamIInv, StreamInv, IInv
<1>1. /\ UNCHANGED <<queue, wire, rx>>
      /\ ServerSock'.sizep = ServerSock.sizep
      /\ ServerSock.sizep > 0 => ServerSock'.databuf = ServerSock.databuf
  BY ServerActsSockets
<1>2. Grows /\ ClientSock' = ClientSock /\ app'[sender] = app[sender]
  BY ServerGrows, SameConnection DEF ServerActs, KeepsClient
<1>3. Line' = Line
  BY <1>1 DEF Line, LineOf, HandOf
<1>4. Pending(sender)' \subseteq Pending(sender)
  <2>1. sender \in Host /\ KeepsPacket
    BY <1>1, Hypothesis DEF KeepsPacket
  <2> QED
    BY <1>1, <2>1, SamePending
<1> QED
  BY <1>1, <1>2, <1>3, <1>4, SameLine

\* Nor does an arrival.
LEMMA ArrivalNoGap ==
  ASSUME OneWay, StreamIInv, IInv', ClientArrival \/ ServerArrival, OneSyn,
         OneSocket, NoGap
  PROVE  NoGap'
<1> USE DEF StreamIInv, StreamInv, IInv
<1>1. /\ FirstFd \in Fd /\ ServerFd \in Fd /\ ServerFd # FirstFd
      /\ sender \in Host /\ recver \in Host /\ sender # recver
  BY Hypothesis
<1>2. Grows /\ ClientSock' = ClientSock /\ app'[sender] = app[sender] /\ rx' = rx
  BY ArrivalGrows DEF KeepsClient, ClientSock, ClientFd
<1>3. Pending(sender)' \subseteq Pending(sender)
  BY <1>1, ArrivalPending DEF ClientArrival, ServerArrival
<1>4. CASE ClientArrival
  <2>1. PICK g \in Host : Arrives(g, sender) /\ KeepsServer
    BY <1>4, Zenon DEF ClientArrival, Arrival
  <2>2. wire'[sender][recver] = wire[sender][recver]
    BY <1>1, <2>1 DEF Arrives, TypeOK
  <2>3. Line' = Line /\ ServerSock' = ServerSock
    BY <2>1, <2>2 DEF Line, LineOf, HandOf, KeepsServer, ServerSock
  <2> QED
    BY <1>2, <1>3, <2>3, SameLine, Zenon
<1>5. CASE ServerArrival
  <2>1. /\ Arrival(sender, recver)
        /\ Destination(recver, Head(wire[sender][recver])) = ServerFd
    BY <1>5, OneDestination DEF ServerArrival
  <2>2. Line' = Line
    BY <1>1, <2>1, LineArrives, Zenon DEF Line
  <2>3. ServerSock'.sizep = ServerSock.sizep /\ ServerSock'.databuf = ServerSock.databuf
    BY <1>1, <2>1, Zenon DEF Arrival, SameStream, ServerSock
  <2> QED
    BY <1>2, <1>3, <2>2, <2>3, SameLine
<1> QED
  BY <1>4, <1>5

\* processip of the server is done with the first packet of the line.
LEMMA ServerDone ==
  ASSUME OneWay, StreamIInv, IInv', ServerReceives, OneSocket, NoGap,
         rx[recver].pc = "react", rx'[recver].pc # "react", queue' = queue,
         ServerSock.sizep <= ServerSock'.sizep, ServerSock'.sizep \in Nat,
         \A x \in Nat : Covers(rx[recver].pkt, x) => x < ServerSock'.sizep,
         SameBytes',
         \A p \in Pending(sender)' :
           \/ p \in Pending(sender)
           \/ p.kind # "ACK" \/ Closing \/ p.ack <= ServerSock'.sizep
  PROVE  NoGap'
<1> USE DEF StreamIInv, StreamInv, IInv
<1>1. Grows /\ ClientSock' = ClientSock /\ app'[sender] = app[sender]
  BY ServerReceivesGrows, SameConnection DEF ServerReceives, KeepsClient
<1>2. AcksArrived'
  BY <1>1, AcksKept DEF NoGap
<1>3. Line # <<>> /\ Line[1] = rx[recver].pkt /\ Line' = Tail(Line)
  BY ServerReceivesOne, LineDone, Hypothesis DEF Line
<1>4. PICK line, low, high :
        line = Line /\ low = ServerSock.sizep /\ high = ServerSock'.sizep
  OBVIOUS
<1>5. /\ line \in Seq(SafePacket) /\ line # <<>> /\ low \in Nat /\ high \in Nat
      /\ low <= high /\ GapFree(line, low)
      /\ \A x \in Nat : Covers(line[1], x) => x < high
  BY <1>3, <1>4, LineType DEF NoGap
<1>6. \A p \in SafePacket : p.kind = "DATA" => p.seq \in Nat
  BY PacketFields
<1>7. /\ GapFree(Tail(line), high)
      /\ \A x \in Nat : Reaches(line, Len(line), low, x) =>
           Reaches(Tail(line), Len(Tail(line)), high, x)
  BY <1>5, <1>6, LineShrinks
<1>8. GapFree(Line', ServerSock'.sizep)
  BY <1>3, <1>4, <1>7
<1>9. SentOnWay'
  <2>1. ASSUME NEW x \in 0 .. (ClientSock'.sizep - 1), x < ClientSock'.writep \/ ~Sending'
        PROVE  Reaches(Line', Len(Line'), ServerSock'.sizep, x)
    <3>1. x \in 0 .. (ClientSock.sizep - 1) /\ (x < ClientSock.writep \/ ~Sending)
      BY <1>1, <2>1 DEF Sending
    <3>2. Reaches(line, Len(line), low, x)
      BY <1>4, <3>1 DEF NoGap, SentOnWay
    <3>3. x \in Nat
      BY <3>1
    <3> QED
      BY <1>3, <1>4, <1>7, <3>2, <3>3
  <2> QED
    BY <2>1 DEF SentOnWay
<1> QED
  BY <1>2, <1>8, <1>9 DEF NoGap

\* The server's processip leaves no gap: a segment begins at a byte that has
\* arrived, and its ACK says what has.
LEMMA ServerReceivesNoGap ==
  ASSUME OneWay, StreamIInv, IInv', ServerReceives, OneSocket, NoGap
  PROVE  NoGap'
<1> USE DEF StreamIInv, StreamInv, IInv
<1>1. /\ FirstFd \in Fd /\ ServerFd \in Fd /\ ServerFd # FirstFd
      /\ sender \in Host /\ recver \in Host /\ sender # recver
      /\ cport \in Endpoint /\ sport \in Endpoint /\ HostOf[cport] = sender
  BY Hypothesis
<1>2. Grows /\ ClientSock' = ClientSock /\ app'[sender] = app[sender]
  BY ServerReceivesGrows, SameConnection DEF ServerReceives, KeepsClient
<1>3. rx'[recver].fd = ServerFd /\ ~Accepts
      /\ wire'[sender][recver] = wire[sender][recver]
  BY ServerReceivesOne
<1>4. /\ ServerSock.sizep \in Nat /\ ClientSock.sizep \in Nat /\ BufSize \in Nat
      /\ ServerSock.databuf \in [0 .. (BufSize - 1) -> Content]
  BY SocketBounds
<1>5. ASSUME ServerSock'.sizep = ServerSock.sizep,
             ServerSock'.databuf = ServerSock.databuf
      PROVE  SameBytes' /\ ServerSock.sizep <= ServerSock'.sizep
             /\ ServerSock'.sizep \in Nat
  BY <1>2, <1>4, <1>5, BytesAgree DEF NoGap
<1>6. ASSUME Idles(recver) \/ Reacts(recver) PROVE KeepsPacket /\ queue' = queue
  BY <1>6 DEF KeepsPacket, Idles, RxFrame, Reacts
<1>7. CASE Pops(recver)
  <2>1. Line' = Line /\ Pending(sender)' \subseteq Pending(sender)
    BY <1>1, <1>3, <1>7, LinePops, PopPending, Hypothesis DEF Line
  <2>2. ServerSock' = ServerSock
    BY <1>7 DEF Pops, ServerSock
  <2> QED
    BY <1>2, <2>1, <2>2, SameLine
<1>8. CASE Stores(recver)
  <2>1. rx[recver].pc = "store" /\ rx'[recver].pc = "pop" /\ wire' = wire
        /\ Idles(recver)
    BY <1>8 DEF Stores, Idles
  <2>2. Line' = Line
    BY <1>6, <2>1, Zenon DEF Line, LineOf, HandOf
  <2>3. Pending(sender)' \subseteq Pending(sender)
    BY <1>1, <1>6, <2>1, SamePending, ZenonT(40)
  <2>4. ServerSock'.sizep = ServerSock.sizep /\ ServerSock'.databuf = ServerSock.databuf
    BY <1>3, <1>8, <2>1 DEF Stores, Idles, SameStream, ServerSock
  <2> QED
    BY <1>2, <2>2, <2>3, <2>4, SameLine, SMTT(40)
<1>9. CASE Ignores(recver)
  <2>1. /\ rx[recver].pc = "react" /\ rx'[recver].pc # "react" /\ wire' = wire
        /\ Idles(recver) /\ ServerSock' = ServerSock
        /\ \A x \in Nat : ~Covers(rx[recver].pkt, x)
    BY <1>9 DEF Ignores, Idles, ServerSock, Covers
  <2>2. Pending(sender)' \subseteq Pending(sender)
    BY <1>1, <1>6, <2>1, SamePending
  <2> QED
    BY <1>5, <1>6, <2>1, <2>2, ServerDone
<1>10. CASE Reacts(recver)
  <2>1. PICK q, r : q = rx[recver].pkt /\ r = rx'[recver].rule
    BY SMTT(40)
  <2>2. FromClient(q) /\ q.src = cport
    BY <1>10, <2>1, InServersHand DEF Reacts, FromClient
  <2>3. r \in Rules /\ r.at \in ServerStatus /\ r.on = q.kind /\ rx[recver].pc = "react"
    <3>1. RxSock(recver).status \in ServerStatus
      BY <1>3, <1>10 DEF Reacts, RxSock, ServerInv, IsServer, ServerSock
    <3> QED
      BY <1>10, <2>1, <3>1, ZenonT(40) DEF Reacts, RxInv
  <2>4. \A x \in Nat : ~Covers(q, x)
    <3>1. r.on # "DATA"
      BY <2>3 DEF Rules, Rule
    <3> QED
      BY <2>3, <3>1 DEF Covers
  <2>5. ASSUME NEW p \in Pending(sender)', p \notin Pending(sender), p.kind = "ACK"
        PROVE  Closing
    <3>1. \E i \in DOMAIN rx'[recver].rule.send :
            p = Reply(q, rx'[recver].rule.send[i])
      BY <1>1, <1>10, <2>1, <2>2, <2>5, AnswersPending
    <3>2. PICK i \in DOMAIN r.send : p = Reply(q, r.send[i])
      BY <2>1, <3>1
    <3>3. r.send[i] = "ACK"
      BY <2>5, <3>2 DEF Reply, Segment
    <3>4. q.kind = "FIN"
      BY <2>3, <3>3, RuleFacts
    <3> QED
      BY <2>2, <3>4 DEF FromClient
  <2>6. rx'[recver].pc # "react" /\ ServerSock' = ServerSock
    BY <1>10 DEF Reacts, ServerSock
  <2> QED
    BY <1>5, <1>6, <1>10, <2>1, <2>3, <2>4, <2>5, <2>6, ServerDone
<1>11. CASE StoresData(recver)
  <2>1. PICK q, n, d : q = rx[recver].pkt /\ n = q.seq /\ d = q.data
    BY ZenonT(40)
  <2>2. /\ rx[recver].pc = "react" /\ rx'[recver].pc # "react"
        /\ rx[recver].fd = ServerFd /\ q.kind = "DATA" /\ Idles(recver)
        /\ ServerSock'.sizep = (IF n + Len(d) > ServerSock.sizep THEN n + Len(d)
                                ELSE ServerSock.sizep)
        /\ ServerSock'.databuf = CopyIn(ServerSock.databuf, n, d)
    BY <1>3, <1>11, <2>1 DEF StoresData, Idles, ServerSock
  <2>3. q \in SafePacket /\ FromClient(q) /\ q.src = cport /\ q.dst = sport
    BY <1>1, <2>1, <2>2, InServersHand, Zenon DEF TypeOK, RxThread, FromClient
  <2>4. n \in Nat /\ d \in Seq(Content) /\ Len(d) \in Nat
    BY <2>1, <2>3, PacketFields
  <2>5. ServerSock.sizep <= ServerSock'.sizep /\ ServerSock'.sizep \in Nat
        /\ n + Len(d) <= ServerSock'.sizep
    BY <1>4, <2>2, <2>4
  <2>6. \A x \in Nat : Covers(q, x) => x < ServerSock'.sizep
    BY <2>1, <2>4, <2>5 DEF Covers
  <2>7. \A x \in 0 .. (n - 1) : x < ServerSock.sizep
    <3>1. Line # <<>> /\ Line[1] = q
      BY <1>3, <1>6, <2>1, <2>2, LineDone, Hypothesis DEF Line
    <3>2. PICK line, low, high :
            line = Line /\ low = ServerSock.sizep /\ high = ServerSock'.sizep
      OBVIOUS
    <3>3. /\ line \in Seq(SafePacket) /\ line # <<>> /\ low \in Nat /\ high \in Nat
          /\ low <= high /\ GapFree(line, low)
          /\ \A x \in Nat : Covers(line[1], x) => x < high
      BY <2>5, <2>6, <3>1, <3>2, LineType DEF NoGap
    <3>4. \A p \in SafePacket : p.kind = "DATA" => p.seq \in Nat
      BY PacketFields
    <3>5. line[1].kind = "DATA" => \A x \in 0 .. (line[1].seq - 1) : x < low
      BY <3>3, <3>4, LineShrinks, Zenon
    <3> QED
      BY <2>1, <2>2, <3>1, <3>2, <3>5
  <2>8. SameBytes'
    <3> SUFFICES ASSUME NEW x \in 0 .. (BufSize - 1), x < ServerSock'.sizep
                 PROVE  ServerSock'.databuf[x] = ClientSock'.databuf[x]
      BY DEF SameBytes
    <3>1. CASE n <= x /\ x < n + Len(d)
      <4>1. x - n + 1 \in 1 .. Len(d) /\ n + (x - n + 1) - 1 = x
        <5>1. PICK m \in Nat : m = Len(d)
          BY <2>4
        <5>2. x \in Nat /\ n <= x /\ x < n + m
          BY <1>4, <3>1, <5>1
        <5>3. x - n + 1 \in 1 .. m /\ n + (x - n + 1) - 1 = x
          BY <2>4, <5>2
        <5> QED
          BY <5>1, <5>3
      <4>2. ServerSock'.databuf[x] = d[x - n + 1]
        BY <1>4, <2>2, <3>1 DEF CopyIn
      <4>3. d[x - n + 1] = ClientSock.databuf[n + (x - n + 1) - 1]
        BY <2>1, <2>2, <2>3, <4>1 DEF FromClient
      <4> QED
        BY <1>2, <4>1, <4>2, <4>3
    <3>2. CASE ~(n <= x /\ x < n + Len(d))
      <4>1. x < ServerSock.sizep
        <5>1. CASE x < n
          BY <1>4, <2>4, <2>7, <5>1
        <5>2. CASE ~(x < n)
          BY <1>4, <2>2, <2>4, <3>2, <5>2
        <5> QED
          BY <5>1, <5>2
      <4>2. ServerSock'.databuf[x] = ServerSock.databuf[x]
        BY <1>4, <2>2, <3>2 DEF CopyIn
      <4> QED
        BY <1>2, <4>1, <4>2 DEF NoGap, SameBytes
    <3> QED
      BY <3>1, <3>2
  <2>9. \A p \in Pending(sender)' :
          p \in Pending(sender) \/ p.ack <= ServerSock'.sizep
    <3>1. PICK u : u = Segment("ACK", sport, cport, 0, n + Len(d), <<>>)
      OBVIOUS
    <3>2. u \in SafePacket /\ u.ack = n + Len(d)
      <4>1. n + Len(d) \in Nat
        BY <2>4, SMTT(40)
      <4> QED
        BY <1>1, <3>1, <4>1, ControlType DEF Address, Kind, Segment
    <3>3. SendTCPPackets(recver, cport, <<u>>)
      BY <1>11, <2>1, <2>3, <3>1 DEF StoresData
    <3>4. \A p \in Pending(sender)' : p \in Pending(sender) \/ p = u
      BY <1>1, <1>6, <2>2, <3>2, <3>3, SendOnePending
    <3> QED
      BY <2>5, <3>2, <3>4
  <2> QED
    BY <1>6, <2>1, <2>2, <2>5, <2>6, <2>8, <2>9, ServerDone
<1> QED
  BY <1>7, <1>8, <1>9, <1>10, <1>11, ServerReceivesOne

\* And so no step leaves a gap.
LEMMA NoGapStep ==
  ASSUME OneWay, Faults = {}, StreamIInv, IInv', [Next]_vars, OneSyn, OneSocket,
         NoGap, ~ServerDies
  PROVE  NoGap'
<1>1. CASE UNCHANGED vars
  <2>1. /\ Line' = Line /\ ClientSock' = ClientSock /\ app' = app
        /\ ServerSock' = ServerSock
    BY <1>1 DEF vars, Line, LineOf, HandOf, ClientSock, ClientFd, ServerSock
  <2>2. Pending(sender)' \subseteq Pending(sender)
    BY <1>1, SamePending, Hypothesis DEF vars, KeepsPacket
  <2> QED
    BY <2>1, <2>2, GrowsStep, SameLine
<1> QED
  BY <1>1, ClientActsNoGap, ClientReceivesNoGap, ServerActsNoGap, ServerReceivesNoGap,
     ArrivalNoGap, Steps, NothingFaulty

\* What read() has returned is what was written.
ReadSame ==
  \A k \in 1 .. Len(Received) : Received[k] = ClientSock.databuf[k - 1]

\* The server's process has met one SYN, and its line has no gap.
InOrder == up[recver] => OneSyn /\ OneSocket /\ NoGap

\* Only read() returns bytes.
LEMMA OnlyReads ==
  ASSUME OneWay, StreamIInv, IInv', [Next]_vars
  PROVE  Received' = Received \/ (ServerHasRead /\ up[recver])
<1> USE DEF StreamIInv, StreamInv, IInv
<1>1. CASE ClientActs \/ ClientReceives
  BY <1>1 DEF ClientActs, ClientReceives, KeepsServer, Received
<1>2. CASE ServerActs
  BY <1>2, Zenon
  DEF ServerActs, ServerStep, ServerSocket, ServerBinds, ServerAccepts, ServerDemotes,
      ServerPromotes, ServerWaits, ServerAwaitsAck, ServerAccepted, ServerReads,
      ServerCloses, ServerClosed, ServerMoves, Received
<1>3. CASE ServerReceives
  BY <1>3, Zenon
  DEF ServerReceives, RxMoves, Pops, Reacts, Stores, Ignores, StoresData, Acks, Idles,
      RxFrame, Received
<1>4. CASE ClientArrival \/ ServerArrival
  BY <1>4, ArrivalGrows DEF Received
<1>5. CASE ServerDies \/ Faulty \/ UNCHANGED vars
  BY <1>5, QuietSteps DEF Received
<1> QED
  BY <1>1, <1>2, <1>3, <1>4, <1>5, Steps

\* What read() takes from the buffer: where its bytes are those that were written,
\* so are those that it returns.
LEMMA ReadNext ==
  ASSUME OneWay, StreamIInv, IInv', [Next]_vars, NEW X \in SUBSET Nat,
         \A k \in 1 .. Len(Received) :
           k - 1 \in X => Received[k] = ClientSock.databuf[k - 1],
         up[recver] => \A x \in X :
           x < ServerSock.sizep => ServerSock.databuf[x] = ClientSock.databuf[x]
  PROVE  \A k \in 1 .. Len(Received') :
           /\ k - 1 \in Nat /\ k - 1 < ClientSock.sizep
           /\ k - 1 \in X => Received'[k] = ClientSock'.databuf[k - 1]
<1> USE DEF StreamIInv, StreamInv, IInv
<1> DEFINE s == ServerSock
           c == ClientSock
<1>1. PICK u : u = Received
  OBVIOUS
<1>2. u \in Seq(Content) /\ Len(u) = s.readp
  <2>1. u \in Seq(Content)
    BY <1>1, Hypothesis DEF TypeOK, Received
  <2>2. Len(u) = s.readp
    BY <1>1 DEF BytesInv
  <2> QED
    BY <2>1, <2>2
<1>3. /\ s.readp \in Nat /\ s.sizep \in Nat /\ s.sizep <= BufSize /\ BufSize \in Nat
      /\ s.databuf \in [0 .. (BufSize - 1) -> Content] /\ c.sizep \in Nat
      /\ s.sizep <= c.sizep
  BY SocketBounds DEF BytesInv, Copies
<1>4. \A k \in 1 .. Len(u) : k - 1 \in Nat /\ k - 1 < c.sizep
  <2>1. \A k \in 1 .. Len(u) : k <= c.sizep
    BY <1>1 DEF BytesInv
  <2> QED
    BY <1>2, <1>3, <2>1
<1>5. \A x \in Nat : x < c.sizep => c'.databuf[x] = c.databuf[x]
  BY GrowsStep DEF Grows
<1>6. \A k \in 1 .. Len(u) : k - 1 \in X => u[k] = c'.databuf[k - 1]
  BY <1>1, <1>4, <1>5
<1>7. CASE Received' = Received
  BY <1>1, <1>4, <1>6, <1>7
<1>8. CASE ServerHasRead /\ up[recver]
  <2>1. PICK n \in Nat :
          /\ s.readp + n <= s.sizep
          /\ Received' = Received \o Slice(s.databuf, s.readp, n)
    BY <1>8 DEF ServerHasRead
  <2>2. PICK w : w = Slice(s.databuf, s.readp, n)
    OBVIOUS
  <2>3. w \in Seq(Content) /\ Len(w) = n
    <3>1. s.readp + n <= BufSize
      BY <1>3, <2>1
    <3>2. Slice(s.databuf, s.readp, n) \in Seq(Content) /\ Len(Slice(s.databuf, s.readp, n)) = n
      BY <1>3, <3>1, SliceType, Zenon
    <3> QED
      BY <2>2, <3>2
  <2>4. \A k \in 1 .. n : w[k] = s.databuf[s.readp + k - 1]
    BY <2>2 DEF Slice
  <2>5. Received' = u \o w
    BY <1>1, <2>1, <2>2
  <2>6. /\ Len(u \o w) = s.readp + n
        /\ \A k \in 1 .. Len(u) : (u \o w)[k] = u[k]
        /\ \A k \in (Len(u) + 1) .. (Len(u) + n) : (u \o w)[k] = w[k - Len(u)]
    <3>1. u \in Seq(Content) /\ w \in Seq(Content) /\ Len(u) = s.readp /\ Len(w) = n
      BY <1>2, <2>3
    <3>2. /\ Len(u \o w) = Len(u) + Len(w)
          /\ \A k \in 1 .. Len(u) : (u \o w)[k] = u[k]
          /\ \A k \in (Len(u) + 1) .. (Len(u) + Len(w)) : (u \o w)[k] = w[k - Len(u)]
      BY <3>1, Appended, Zenon
    <3> QED
      BY <3>1, <3>2
  <2>7. \A x \in X : x < s.sizep => s.databuf[x] = c.databuf[x]
    BY <1>8
  <2>8. ASSUME NEW k \in 1 .. (s.readp + n)
        PROVE  k - 1 \in Nat /\ k - 1 < s.sizep /\ k - 1 < c.sizep
    BY <1>3, <2>1, SMTT(40)
  <2>9. ASSUME NEW k \in 1 .. (s.readp + n), k - 1 \in X
        PROVE  (u \o w)[k] = c'.databuf[k - 1]
    <3>1. CASE k <= s.readp
      BY <1>2, <1>3, <1>6, <2>6, <2>9, <3>1
    <3>2. CASE ~(k <= s.readp)
      <4>1. (u \o w)[k] = w[k - s.readp] /\ k - s.readp \in 1 .. n
        <5>1. Len(u) = s.readp /\ k \in (s.readp + 1) .. (s.readp + n)
          BY <1>2, <1>3, <3>2
        <5> QED
          BY <1>3, <2>6, <5>1, SMTT(40)
      <4>2. s.readp + (k - s.readp) - 1 = k - 1
        BY <1>3
      <4>3. w[k - s.readp] = s.databuf[k - 1]
        BY <2>4, <4>1, <4>2
      <4>4. k - 1 \in Nat /\ k - 1 < s.sizep /\ k - 1 < c.sizep
        BY <2>8
      <4>5. s.databuf[k - 1] = c.databuf[k - 1]
        BY <2>7, <2>9, <4>4
      <4>6. c'.databuf[k - 1] = c.databuf[k - 1]
        BY <1>5, <4>4
      <4> QED
        BY <4>1, <4>3, <4>5, <4>6
    <3> QED
      BY <3>1, <3>2, Zenon
  <2> QED
    BY <2>5, <2>6, <2>8, <2>9
<1> QED
  BY <1>7, <1>8, OnlyReads

\* Without a gap it is all that was written.
LEMMA ReadSameStep ==
  ASSUME OneWay, StreamIInv, IInv', [Next]_vars, ReadSame, InOrder
  PROVE  ReadSame'
<1>1. up[recver] => \A x \in Nat :
        x < ServerSock.sizep => ServerSock.databuf[x] = ClientSock.databuf[x]
  <2>1. ServerSock.sizep \in Nat /\ ServerSock.sizep <= BufSize /\ BufSize \in Nat
    BY SocketBounds DEF StreamIInv, IInv
  <2> QED
    BY <2>1 DEF InOrder, NoGap, SameBytes
<1>2. \A k \in 1 .. Len(Received) : k - 1 \in Nat => Received[k] = ClientSock.databuf[k - 1]
  BY DEF ReadSame
<1>3. \A k \in 1 .. Len(Received') : Received'[k] = ClientSock'.databuf[k - 1]
  BY <1>1, <1>2, ReadNext
<1> QED
  BY <1>3 DEF ReadSame

\* The server's process lives after a step only if it did before.
LEMMA StaysUp ==
  ASSUME OneWay, StreamIInv, IInv', [Next]_vars, up'[recver]
  PROVE  up[recver] /\ ~ServerDies
<1> USE DEF StreamIInv, IInv
<1>1. ~ServerDies
  BY Hypothesis DEF ServerDies, RecvUnmatchedPacket, TypeOK
<1>2. CASE ClientActs \/ ClientReceives
  BY <1>1, <1>2 DEF ClientActs, ClientReceives, KeepsServer
<1>3. CASE ServerActs \/ ServerReceives
  BY <1>1, <1>3 DEF ServerActs, ServerReceives
<1>4. CASE ClientArrival \/ ServerArrival
  BY <1>1, <1>4, ArrivalGrows
<1>5. CASE Faulty \/ UNCHANGED vars
  BY <1>1, <1>5, QuietSteps
<1> QED
  BY <1>1, <1>2, <1>3, <1>4, <1>5, Steps

\* Without faults all of it stays as it is while the process lives.
LEMMA InOrderStep ==
  ASSUME OneWay, Faults = {}, StreamIInv, IInv', [Next]_vars, InOrder
  PROVE  InOrder'
<1> SUFFICES ASSUME up'[recver] PROVE OneSyn' /\ OneSocket' /\ NoGap'
  BY DEF InOrder
<1>1. ~ServerDies /\ up[recver]
  BY StaysUp
<1>2. OneSyn /\ OneSocket /\ NoGap
  BY <1>1 DEF InOrder
<1>3. OneSyn'
  BY <1>1, <1>2, OneSynStep, Zenon
<1>4. OneSocket'
  BY <1>1, <1>2, OneSocketStep
<1>5. NoGap'
  BY <1>1, <1>2, NoGapStep
<1> QED
  BY <1>3, <1>4, <1>5

\* In the beginning nothing is on its way.
LEMMA InOrderInit ==
  ASSUME OneWay, Init
  PROVE  ReadSame /\ InOrder
<1>1. /\ FirstFd \in Fd /\ ServerFd \in Fd /\ sender \in Host /\ recver \in Host
  BY Hypothesis
<1>2. /\ \A h \in Host : \A f \in Fd : sock[h][f] = NoSocket /\ queue[h][f] = <<>>
      /\ \A h \in Host : \A g \in Host : wire[g][h] = <<>>
      /\ \A h \in Host : rx[h].pc = "pop" /\ app[h].ip = 1
      /\ Received = <<>>
  BY <1>1 DEF Init, Received
<1>3. /\ ClientSock = NoSocket /\ ServerSock = NoSocket /\ ListenSock = NoSocket
      /\ NoSocket.sizep = 0
  BY <1>1, <1>2, Zenon DEF ClientSock, ClientFd, ServerSock, ListenSock, NoSocket
<1>4. OneSyn
  BY <1>1, <1>2 DEF OneSyn, OnWires
<1>5. OneSocket
  BY <1>1, <1>2, <1>3 DEF OneSocket
<1>6. Line = <<>> /\ Len(Line) = 0
  <2>1. HandOf(recver) = <<>> /\ queue[recver][ServerFd] = <<>> /\ wire[sender][recver] = <<>>
    BY <1>1, <1>2 DEF HandOf
  <2>2. Line = <<>>
    BY <2>1 DEF Line, LineOf
  <2> QED
    BY <2>2
<1>7. NoGap
  <2>1. GapFree(Line, ServerSock.sizep)
    BY <1>6 DEF GapFree
  <2>2. SentOnWay
    BY <1>3 DEF SentOnWay
  <2>3. AcksArrived
    BY <1>1, <1>2 DEF AcksArrived, Pending, OnWires, InQueues, InHand
  <2>4. SameBytes
    BY <1>3 DEF SameBytes
  <2> QED
    BY <2>1, <2>2, <2>3, <2>4 DEF NoGap
<1>8. ReadSame
  BY <1>2 DEF ReadSame
<1> QED
  BY <1>4, <1>5, <1>7, <1>8 DEF InOrder

\* What was written and what was read, as sequences.
StreamSeqs ==
  /\ Sent \in Seq(Content) /\ Len(Sent) = ClientSock.sizep
  /\ \A k \in 1 .. ClientSock.sizep : Sent[k] = ClientSock.databuf[k - 1]
  /\ Received \in Seq(Content) /\ Len(Received) <= ClientSock.sizep
  /\ ServerSock.sizep \in Nat /\ ServerSock.sizep <= ClientSock.sizep

\* They are, because one is a piece of the client's buffer and the other no longer.
LEMMA SeqsOfStream ==
  ASSUME OneWay, StreamIInv
  PROVE  StreamSeqs
<1>1. PICK u, w : u = Received /\ w = Sent
  OBVIOUS
<1>2. /\ ClientSock.sizep \in Nat /\ ClientSock.sizep <= BufSize /\ BufSize \in Nat
      /\ ClientSock.databuf \in [0 .. (BufSize - 1) -> Content]
      /\ ServerSock.sizep \in Nat
  BY SocketBounds DEF StreamIInv, IInv
<1>3. w \in Seq(Content) /\ Len(w) = ClientSock.sizep
  <2>1. 0 \in Nat /\ 0 + ClientSock.sizep <= BufSize
    BY <1>2
  <2>2. /\ Slice(ClientSock.databuf, 0, ClientSock.sizep) \in Seq(Content)
        /\ Len(Slice(ClientSock.databuf, 0, ClientSock.sizep)) = ClientSock.sizep
    BY <1>2, <2>1, SliceType, Zenon
  <2> QED
    BY <1>1, <2>2 DEF Sent
<1>4. \A k \in 1 .. ClientSock.sizep : w[k] = ClientSock.databuf[k - 1]
  BY <1>1, <1>2 DEF Sent, Slice
<1>5. u \in Seq(Content) /\ Len(u) <= ClientSock.sizep
  <2>1. u \in Seq(Content)
    BY <1>1, Hypothesis DEF StreamIInv, IInv, TypeOK, Received
  <2>2. \A k \in 1 .. Len(u) : k <= ClientSock.sizep
    BY <1>1 DEF StreamIInv, StreamInv, BytesInv
  <2> QED
    BY <1>2, <2>1, <2>2
<1>6. ServerSock.sizep <= ClientSock.sizep
  BY DEF StreamIInv, StreamInv, BytesInv, Copies
<1> QED
  BY <1>1, <1>2, <1>3, <1>4, <1>5, <1>6 DEF StreamSeqs

\* A sequence that agrees with another as far as it goes.
LEMMA PrefixIs ==
  ASSUME NEW S, NEW s \in Seq(S), NEW t \in Seq(S), Len(s) <= Len(t),
         \A k \in 1 .. Len(s) : s[k] = t[k]
  PROVE  SubSeq(s, 1, Len(s)) = SubSeq(t, 1, Len(s))
  OBVIOUS

\* Where the network loses, repeats and reorders nothing, read() returns what
\* the peer wrote, in order and without gaps, whatever is written and read in
\* whatever pieces, however many segments are under way and the threads race,
\* an end that closes early and a process that dies included.
THEOREM ReadsWhatWasWritten ==
  ASSUME OneWay, Faults = {}
  PROVE  Spec => []ReadIntegrity
<1> DEFINE Reads == ReadSame /\ InOrder
<1>1. Init => Reads
  BY InOrderInit
<1>2. ASSUME StreamIInv, IInv', [Next]_vars, Reads PROVE Reads'
  BY <1>2, ReadSameStep, InOrderStep
<1>3. ASSUME StreamIInv, Reads PROVE ReadIntegrity
  <2>1. PICK u, w : u = Received /\ w = Sent
    OBVIOUS
  <2>2. /\ u \in Seq(Content) /\ w \in Seq(Content) /\ Len(u) <= Len(w)
        /\ \A k \in 1 .. Len(w) : w[k] = ClientSock.databuf[k - 1]
    BY <1>3, <2>1, SeqsOfStream DEF StreamSeqs
  <2>3. \A k \in 1 .. Len(u) : u[k] = w[k]
    BY <1>3, <2>1, <2>2 DEF ReadSame
  <2>4. SubSeq(u, 1, Len(u)) = SubSeq(w, 1, Len(u))
    BY <2>2, <2>3, PrefixIs
  <2> QED
    BY <2>1, <2>2, <2>4 DEF ReadIntegrity, IsPrefix
<1>4. StreamIInv => IInv
  BY DEF StreamIInv
<1> HIDE DEF Reads
<1> QED
  BY <1>1, <1>2, <1>3, <1>4, StreamInductive, PTL DEF Spec

-----------------------------------------------------------------------------
(* One fault of the network.  A write that returns before it is            *)
(* acknowledged may then be lost, one that is longer than a segment and    *)
(* waits for its ACKs may not: before the fault every byte of it that has  *)
(* not arrived is brought by two packets, unless the write is waiting for  *)
(* the ACK of the only one, and is not over then.                          *)

\* One of the first n packets of line brings byte x of the stream; two do.
Brought(line, n, twice, x) ==
  \E i, j \in 1 .. n :
    (twice => i # j) /\ Covers(line[i], x) /\ Covers(line[j], x)

\* No data segment of line comes before the bytes of M that it follows, nor does
\* it when one of the others is lost, if twice.
Intact(line, twice, M) ==
  \A j \in 1 .. Len(line) : line[j].kind = "DATA" =>
    \A x \in M : x < line[j].seq => Brought(line, j - 1, twice, x)

\* A longer line with the same beginning brings as much, and once is less than
\* twice.
LEMMA BroughtMore ==
  ASSUME NEW line, NEW line2, NEW n \in Nat, NEW m \in Nat, n <= m,
         \A i \in 1 .. n : line2[i] = line[i]
  PROVE  \A x : \A t, t2 \in BOOLEAN :
           Brought(line, n, t, x) /\ (t2 => t) => Brought(line2, m, t2, x)
<1> SUFFICES ASSUME NEW x, NEW t \in BOOLEAN, NEW t2 \in BOOLEAN,
                    Brought(line, n, t, x), t2 => t
             PROVE  Brought(line2, m, t2, x)
  OBVIOUS
<1>1. PICK i \in 1 .. n, j \in 1 .. n :
        (t => i # j) /\ Covers(line[i], x) /\ Covers(line[j], x)
  BY DEF Brought
<1>2. i \in 1 .. m /\ j \in 1 .. m /\ line2[i] = line[i] /\ line2[j] = line[j]
  OBVIOUS
<1>3. (t2 => i # j) /\ Covers(line2[i], x) /\ Covers(line2[j], x)
  BY <1>1, <1>2
<1> QED
  BY <1>2, <1>3 DEF Brought

\* Less is missing, or less is asked.
LEMMA IntactLess ==
  ASSUME NEW S, NEW line \in Seq(S), NEW t \in BOOLEAN, NEW t2 \in BOOLEAN, t2 => t,
         NEW M, NEW N, N \subseteq M, Intact(line, t, M)
  PROVE  Intact(line, t2, N)
<1> SUFFICES ASSUME NEW j \in 1 .. Len(line), line[j].kind = "DATA",
                    NEW x \in N, x < line[j].seq
             PROVE  Brought(line, j - 1, t2, x)
  BY DEF Intact
<1>1. Brought(line, j - 1, t, x)
  BY DEF Intact
<1>2. j - 1 \in Nat /\ \A i \in 1 .. (j - 1) : line[i] = line[i]
  OBVIOUS
<1> QED
  BY <1>1, <1>2, BroughtMore

\* Packets whose bytes the line brings can join it.
LEMMA IntactGrows ==
  ASSUME NEW S, NEW line \in Seq(S), NEW ps \in Seq(S), NEW t \in BOOLEAN, NEW M,
         Intact(line, t, M),
         \A i \in 1 .. Len(ps) : ps[i].kind = "DATA" =>
           \A x \in M : x < ps[i].seq => Brought(line, Len(line), t, x)
  PROVE  /\ Intact(line \o ps, t, M)
         /\ \A x : \A t2 \in BOOLEAN :
              Brought(line, Len(line), t2, x) =>
                Brought(line \o ps, Len(line \o ps), t2, x)
         /\ \A i \in 1 .. Len(ps) : \A x : Covers(ps[i], x) =>
              /\ Brought(line \o ps, Len(line \o ps), FALSE, x)
              /\ Brought(line, Len(line), FALSE, x) =>
                   Brought(line \o ps, Len(line \o ps), TRUE, x)
<1>1. PICK all : all = line \o ps
  OBVIOUS
<1>2. /\ Len(all) = Len(line) + Len(ps) /\ Len(line) \in Nat /\ Len(ps) \in Nat
      /\ \A i \in 1 .. Len(line) : all[i] = line[i]
      /\ \A i \in (Len(line) + 1) .. (Len(line) + Len(ps)) : all[i] = ps[i - Len(line)]
  BY <1>1, Appended
<1>3. ASSUME NEW n \in 0 .. Len(line), NEW m \in Nat, n <= m, NEW t2 \in BOOLEAN,
             NEW x, Brought(line, n, t2, x)
      PROVE  Brought(all, m, t2, x)
  <2>1. PICK i \in 1 .. n, j \in 1 .. n :
          (t2 => i # j) /\ Covers(line[i], x) /\ Covers(line[j], x)
    BY <1>3 DEF Brought
  <2>2. i \in 1 .. m /\ j \in 1 .. m /\ i \in 1 .. Len(line) /\ j \in 1 .. Len(line)
    BY <1>2, <1>3
  <2>3. all[i] = line[i] /\ all[j] = line[j]
    BY <1>2, <2>2
  <2> QED
    BY <2>1, <2>2, <2>3 DEF Brought
<1>4. Intact(all, t, M)
  <2> SUFFICES ASSUME NEW j \in 1 .. Len(all), all[j].kind = "DATA",
                      NEW x \in M, x < all[j].seq
               PROVE  Brought(all, j - 1, t, x)
    BY DEF Intact
  <2>1. CASE j <= Len(line)
    <3>1. j \in 1 .. Len(line) /\ all[j] = line[j] /\ j - 1 \in 0 .. Len(line)
      BY <1>2, <2>1
    <3>2. Brought(line, j - 1, t, x)
      BY <3>1 DEF Intact
    <3> QED
      BY <1>3, <3>1, <3>2
  <2>2. CASE ~(j <= Len(line))
    <3>1. /\ j - Len(line) \in 1 .. Len(ps) /\ all[j] = ps[j - Len(line)]
          /\ Len(line) \in 0 .. Len(line) /\ Len(line) <= j - 1 /\ j - 1 \in Nat
      BY <1>2, <2>2
    <3>2. Brought(line, Len(line), t, x)
      BY <3>1
    <3> QED
      BY <1>3, <3>1, <3>2
  <2> QED
    BY <2>1, <2>2
<1>5. ASSUME NEW x, NEW t2 \in BOOLEAN, Brought(line, Len(line), t2, x)
      PROVE  Brought(all, Len(all), t2, x)
  BY <1>2, <1>3, <1>5
<1>6. ASSUME NEW i \in 1 .. Len(ps), NEW x, Covers(ps[i], x)
      PROVE  /\ Brought(all, Len(all), FALSE, x)
             /\ Brought(line, Len(line), FALSE, x) => Brought(all, Len(all), TRUE, x)
  <2>1. /\ Len(line) + i \in 1 .. Len(all) /\ all[Len(line) + i] = ps[i]
        /\ Len(line) + i > Len(line)
    <3>1. Len(line) + i \in (Len(line) + 1) .. (Len(line) + Len(ps))
          /\ (Len(line) + i) - Len(line) = i
      BY <1>2
    <3> QED
      BY <1>2, <3>1
  <2>2. Brought(all, Len(all), FALSE, x)
    BY <1>6, <2>1 DEF Brought
  <2>3. ASSUME Brought(line, Len(line), FALSE, x) PROVE Brought(all, Len(all), TRUE, x)
    <3>1. PICK d \in 1 .. Len(line) : Covers(line[d], x)
      BY <2>3 DEF Brought
    <3>2. d \in 1 .. Len(all) /\ Covers(all[d], x) /\ d # Len(line) + i
      BY <1>2, <2>1, <3>1
    <3> QED
      BY <1>6, <2>1, <3>2 DEF Brought
  <2> QED
    BY <2>2, <2>3
<1> QED
  BY <1>1, <1>4, <1>5, <1>6

\* Without its first packet a line brings what that one did not.
LEMMA IntactShrinks ==
  ASSUME NEW S, NEW line \in Seq(S), line # <<>>, NEW t \in BOOLEAN, NEW M,
         Intact(line, t, M), NEW N, N \subseteq M,
         \A x \in N : ~Covers(line[1], x)
  PROVE  /\ Intact(Tail(line), t, N)
         /\ \A x \in N : \A t2 \in BOOLEAN :
              Brought(line, Len(line), t2, x) =>
                Brought(Tail(line), Len(Tail(line)), t2, x)
         /\ line[1].kind = "DATA" => \A x \in M : ~(x < line[1].seq)
<1>1. PICK rest : rest = Tail(line)
  OBVIOUS
<1>2. /\ Len(line) \in Nat \ {0} /\ Len(rest) = Len(line) - 1
      /\ \A j \in 1 .. Len(rest) : rest[j] = line[j + 1]
  BY <1>1
<1>3. ASSUME NEW n \in 1 .. Len(line), NEW t2 \in BOOLEAN, NEW x \in N,
             Brought(line, n, t2, x)
      PROVE  Brought(rest, n - 1, t2, x)
  <2>1. PICK i \in 1 .. n, j \in 1 .. n :
          (t2 => i # j) /\ Covers(line[i], x) /\ Covers(line[j], x)
    BY <1>3 DEF Brought
  <2>2. i # 1 /\ j # 1
    BY <2>1
  <2>3. /\ i - 1 \in 1 .. (n - 1) /\ j - 1 \in 1 .. (n - 1)
        /\ rest[i - 1] = line[i] /\ rest[j - 1] = line[j]
        /\ i # j => i - 1 # j - 1
    BY <1>2, <2>2
  <2> QED
    BY <2>1, <2>3 DEF Brought
<1>4. Intact(rest, t, N)
  <2> SUFFICES ASSUME NEW j \in 1 .. Len(rest), rest[j].kind = "DATA",
                      NEW x \in N, x < rest[j].seq
               PROVE  Brought(rest, j - 1, t, x)
    BY DEF Intact
  <2>1. /\ j + 1 \in 1 .. Len(line) /\ rest[j] = line[j + 1] /\ (j + 1) - 1 = j
        /\ j \in 1 .. Len(line)
    BY <1>2
  <2>2. Brought(line, j, t, x)
    BY <2>1 DEF Intact
  <2> QED
    BY <1>3, <2>1, <2>2
<1>5. ASSUME NEW x \in N, NEW t2 \in BOOLEAN, Brought(line, Len(line), t2, x)
      PROVE  Brought(rest, Len(rest), t2, x)
  <2>1. Len(line) \in 1 .. Len(line)
    BY <1>2
  <2> QED
    BY <1>2, <1>3, <1>5, <2>1
<1>6. ASSUME line[1].kind = "DATA", NEW x \in M, x < line[1].seq PROVE FALSE
  <2>1. 1 \in 1 .. Len(line)
    BY <1>2
  <2>2. Brought(line, 1 - 1, t, x)
    BY <1>6, <2>1 DEF Intact
  <2> QED
    BY <2>2 DEF Brought
<1> QED
  BY <1>1, <1>4, <1>5, <1>6

\* The beginning of a line.
LEMMA IntactPrefix ==
  ASSUME NEW S, NEW u \in Seq(S), NEW w \in Seq(S), NEW t \in BOOLEAN, NEW M,
         Intact(u \o w, t, M)
  PROVE  Intact(u, t, M)
<1>1. PICK all : all = u \o w
  OBVIOUS
<1>2. /\ Len(all) = Len(u) + Len(w) /\ Len(u) \in Nat /\ Len(w) \in Nat
      /\ \A i \in 1 .. Len(u) : all[i] = u[i]
  BY <1>1, Appended
<1> SUFFICES ASSUME NEW j \in 1 .. Len(u), u[j].kind = "DATA",
                    NEW x \in M, x < u[j].seq
             PROVE  Brought(u, j - 1, t, x)
  BY DEF Intact
<1>3. /\ j \in 1 .. Len(all) /\ all[j] = u[j] /\ j - 1 \in Nat /\ j - 1 <= j - 1
      /\ \A i \in 1 .. (j - 1) : u[i] = all[i]
  BY <1>2
<1>4. Brought(all, j - 1, t, x)
  BY <1>1, <1>3 DEF Intact
<1>5. PICK i \in 1 .. (j - 1), e \in 1 .. (j - 1) :
        (t => i # e) /\ Covers(all[i], x) /\ Covers(all[e], x)
  BY <1>4 DEF Brought
<1> QED
  BY <1>3, <1>5 DEF Brought

\* Line2 is line after a fault: every packet is one of line, behind all that it
\* was behind but the k-th, and all but the k-th are there.
Harmed(line, line2, k) ==
  /\ \A j \in 1 .. Len(line2) : \E i \in 1 .. Len(line) :
       /\ line2[j] = line[i]
       /\ \A e \in 1 .. (i - 1) : e # k => \E d \in 1 .. (j - 1) : line2[d] = line[e]
  /\ \A e \in 1 .. Len(line) : e # k => \E d \in 1 .. Len(line2) : line2[d] = line[e]

\* A line from which the k-th packet is lost, or is delayed, or to which one is
\* added: what was brought twice is brought once.
LEMMA IntactHarmed ==
  ASSUME NEW S, NEW line \in Seq(S), NEW line2 \in Seq(S), NEW k, NEW M,
         Intact(line, TRUE, M), Harmed(line, line2, k)
  PROVE  /\ Intact(line2, FALSE, M)
         /\ \A x : Brought(line, Len(line), TRUE, x) =>
                    Brought(line2, Len(line2), FALSE, x)
<1>1. ASSUME NEW n, NEW m, NEW x, Brought(line, n, TRUE, x),
             \A e \in 1 .. n : e # k => \E d \in 1 .. m : line2[d] = line[e]
      PROVE  Brought(line2, m, FALSE, x)
  <2>1. PICK i \in 1 .. n, j \in 1 .. n :
          i # j /\ Covers(line[i], x) /\ Covers(line[j], x)
    BY <1>1 DEF Brought
  <2>2. PICK e \in {i, j} : e # k
    BY <2>1
  <2>3. PICK d \in 1 .. m : line2[d] = line[e]
    BY <1>1, <2>2
  <2> QED
    BY <2>1, <2>2, <2>3 DEF Brought
<1>2. ASSUME NEW j \in 1 .. Len(line2), line2[j].kind = "DATA",
             NEW x \in M, x < line2[j].seq
      PROVE  Brought(line2, j - 1, FALSE, x)
  <2>1. PICK i \in 1 .. Len(line) :
          /\ line2[j] = line[i]
          /\ \A e \in 1 .. (i - 1) : e # k =>
               \E d \in 1 .. (j - 1) : line2[d] = line[e]
    BY DEF Harmed
  <2>2. Brought(line, i - 1, TRUE, x)
    BY <1>2, <2>1 DEF Intact
  <2> QED
    BY <1>1, <2>1, <2>2, Zenon
<1>3. ASSUME NEW x, Brought(line, Len(line), TRUE, x)
      PROVE  Brought(line2, Len(line2), FALSE, x)
  BY <1>1, <1>3 DEF Harmed
<1> QED
  BY <1>2, <1>3 DEF Intact

\* The bytes of writes longer than a segment that the server lacks.
Missing ==
  {x \in 0 .. (ClientSock.sizep - 1) :
     ClientSock.databuf[x] \in Acknowledged /\ ServerSock.databuf[x] = Zero}

\* A write waits for an ACK to send its next segment.
Stuck == app[sender].pc = "spin" /\ ClientSock.writep < ClientSock.sizep

\* Where the bytes of the present write begin.
Begin == ClientSock.sizep - Len(Call(sender).data)

\* Byte x counts as sent, or belongs to a write that has returned.
Due(x) ==
  x < ClientSock.writep \/ ~Sending \/ (app[sender].pc = "send" /\ x < Begin)

\* What is on its way brings byte x, or brings it twice.
Ahead(twice, x) == Brought(Line, Len(Line), twice, x)

\* What the accepted socket will be given brings what it lacks.  Of what the
\* present write has to send, an ACK of an earlier write may have had processip
\* send the next segment already: it will be sent once more.
DueAhead ==
  \A x \in Missing : Due(x) => Ahead(FALSE, x) \/ (faults # 0 /\ Stuck)
DueTwice ==
  faults = 0 => \A x \in Missing : Due(x) => Ahead(TRUE, x) \/ Stuck
NextAhead ==
  faults = 0 /\ app[sender].pc = "send" /\ ClientSock.writep > Begin =>
    \A x \in Missing :
      ClientSock.writep <= x /\ x < ClientSock.writep + MSS => Ahead(FALSE, x)
ShortReturns ==
  app[sender].pc = "send" /\ Len(Call(sender).data) <= MSS =>
    \A x \in Missing : x < Begin
AcksBelow ==
  \A p \in Pending(sender) : p.kind = "ACK" /\ ~Closing =>
    \A x \in Missing : x >= p.ack
Supplied ==
  /\ Intact(Line, faults = 0, Missing)
  /\ DueAhead /\ DueTwice /\ NextAhead /\ ShortReturns /\ AcksBelow

\* No byte that read() may take is missing.
NoneBelow == \A x \in Missing : x >= ServerSock.sizep

\* No byte of a write that fits a segment looks like one of a longer write.
SeparateBytes ==
  \A k \in 1 .. Len(Script[sender]) :
    Script[sender][k].op = "write" /\ Len(Script[sender][k].data) <= MSS =>
      \A i \in 1 .. Len(Script[sender][k].data) :
        Script[sender][k].data[i] \notin Acknowledged

\* What is on its way to the accepted socket is pending.
LEMMA OnLinePending ==
  ASSUME TypeOK, NEW h \in Host, NEW f \in Fd, NEW g \in Host
  PROVE  \A j \in 1 .. Len(LineOf(h, f, g)) : LineOf(h, f, g)[j] \in Pending(h)
<1>1. PICK a, b, c : a = HandOf(h) /\ b = queue[h][f] /\ c = wire[g][h]
  BY Zenon
<1>2. a \in Seq(SafePacket) /\ b \in Seq(SafePacket) /\ c \in Seq(SafePacket)
  BY <1>1, LineParts
<1>3. /\ \A i \in 1 .. Len(a) : a[i] \in Pending(h)
      /\ \A i \in 1 .. Len(b) : b[i] \in Pending(h)
      /\ \A i \in 1 .. Len(c) : c[i] \in Pending(h)
  <2>1. \A i \in 1 .. Len(a) : rx[h].pc # "pop" /\ a[i] = rx[h].pkt
    BY <1>1 DEF HandOf
  <2>2. DOMAIN b = 1 .. Len(b) /\ DOMAIN c = 1 .. Len(c)
    BY <1>2
  <2> QED
    BY <1>1, <2>1, <2>2, PendingIs
<1>4. PICK d : d = b \o c
  BY Zenon
<1>5. d \in Seq(SafePacket) /\ \A i \in 1 .. Len(d) : d[i] \in Pending(h)
  <2>1. d \in Seq(SafePacket)
    BY <1>2, <1>4
  <2>2. /\ Len(d) = Len(b) + Len(c) /\ Len(b) \in Nat /\ Len(c) \in Nat
        /\ \A k \in 1 .. Len(b) : d[k] = b[k]
        /\ \A k \in (Len(b) + 1) .. (Len(b) + Len(c)) : d[k] = c[k - Len(b)]
    BY <1>2, <1>4, Appended
  <2>3. ASSUME NEW i \in 1 .. Len(d) PROVE d[i] \in Pending(h)
    <3>1. CASE i <= Len(b)
      BY <1>3, <2>2, <3>1
    <3>2. CASE ~(i <= Len(b))
      <4>1. i \in (Len(b) + 1) .. (Len(b) + Len(c)) /\ i - Len(b) \in 1 .. Len(c)
        BY <2>2, <3>2
      <4> QED
        BY <1>3, <2>2, <4>1
    <3> QED
      BY <3>1, <3>2
  <2> QED
    BY <2>1, <2>3
<1>6. PICK line : line = a \o d
  BY Zenon
<1>7. /\ Len(line) = Len(a) + Len(d) /\ Len(a) \in Nat /\ Len(d) \in Nat
      /\ \A k \in 1 .. Len(a) : line[k] = a[k]
      /\ \A k \in (Len(a) + 1) .. (Len(a) + Len(d)) : line[k] = d[k - Len(a)]
  BY <1>2, <1>5, <1>6, Appended
<1>8. ASSUME NEW i \in 1 .. Len(line) PROVE line[i] \in Pending(h)
  <2>1. CASE i <= Len(a)
    BY <1>3, <1>7, <2>1
  <2>2. CASE ~(i <= Len(a))
    <3>1. i \in (Len(a) + 1) .. (Len(a) + Len(d)) /\ i - Len(a) \in 1 .. Len(d)
      BY <1>7, <2>2
    <3> QED
      BY <1>5, <1>7, <3>1
  <2> QED
    BY <2>1, <2>2
<1> QED
  BY <1>1, <1>4, <1>6, <1>8 DEF LineOf

\* Only a write adds to what is missing, and it adds it behind all else.
LEMMA MissingNext ==
  ASSUME OneWay, StreamIInv, IInv', [Next]_vars, Untouched
  PROVE  /\ \A x \in Missing' : x < ClientSock.sizep => x \in Missing
         /\ Missing \subseteq Nat /\ Missing' \subseteq Nat
         /\ \A x \in Missing : x < ClientSock.sizep
         /\ \A x \in Missing' : x < ClientSock'.sizep
<1>1. /\ ClientSock.sizep \in Nat /\ ClientSock.sizep <= BufSize /\ BufSize \in Nat
      /\ ClientSock'.sizep \in Nat
      /\ ServerSock.databuf \in [0 .. (BufSize - 1) -> Content]
  <2>1. TypeOK /\ TypeOK'
    BY DEF StreamIInv, IInv
  <2>2. ClientSock'.sizep \in Nat
    BY <2>1, Hypothesis DEF TypeOK, SafeSocket, Socket, ClientSock, ClientFd
  <2> QED
    BY <2>1, <2>2, SocketBounds
<1>2. ASSUME NEW x \in Missing', x < ClientSock.sizep PROVE x \in Missing
  <2>1. x \in 0 .. (ClientSock.sizep - 1) /\ x \in 0 .. (BufSize - 1) /\ x \in Nat
    BY <1>1, <1>2 DEF Missing
  <2>2. ClientSock'.databuf[x] \in Acknowledged /\ ServerSock'.databuf[x] = Zero
    BY <1>2 DEF Missing, Acknowledged
  <2>3. ClientSock'.databuf[x] = ClientSock.databuf[x]
    BY <1>2, <2>1, GrowsStep DEF Grows
  <2>4. ServerSock.databuf[x] = Zero
    BY <2>1, <2>2, BytesStay
  <2> QED
    BY <2>1, <2>2, <2>3, <2>4 DEF Missing
<1>3. ASSUME NEW x \in Missing' PROVE x \in Nat /\ x < ClientSock'.sizep
  <2>1. x \in 0 .. (ClientSock'.sizep - 1)
    BY <1>3 DEF Missing
  <2> QED
    BY <1>1, <2>1
<1>4. ASSUME NEW x \in Missing PROVE x \in Nat /\ x < ClientSock.sizep
  BY <1>1, <1>4 DEF Missing
<1> QED
  BY <1>2, <1>3, <1>4

\* Packets that were pending bring what they brought.
LEMMA IntactNext ==
  ASSUME OneWay, StreamIInv, IInv', [Next]_vars, Untouched,
         NEW line \in Seq(SafePacket), NEW t \in BOOLEAN, Intact(line, t, Missing),
         \A j \in 1 .. Len(line) : line[j] \in Pending(recver)
  PROVE  Intact(line, t, Missing')
<1> SUFFICES ASSUME NEW j \in 1 .. Len(line), line[j].kind = "DATA",
                    NEW x \in Missing', x < line[j].seq
             PROVE  Brought(line, j - 1, t, x)
  BY DEF Intact
<1>1. PICK p : p = line[j]
  OBVIOUS
<1>2. p \in SafePacket /\ FromClient(p) /\ p.kind = "DATA" /\ x < p.seq
  BY <1>1 DEF StreamIInv, StreamInv, PacketsInv
<1>3. p.seq + Len(p.data) <= ClientSock.sizep
  BY <1>2 DEF FromClient
<1>4. ClientSock.sizep \in Nat
  BY LineType DEF StreamIInv, IInv
<1>5. x \in Nat /\ (x < ClientSock.sizep => x \in Missing)
  BY MissingNext
<1>6. p.seq \in Nat /\ Len(p.data) \in Nat
  BY <1>2, PacketFields
<1>7. x \in Missing
  BY <1>2, <1>3, <1>4, <1>5, <1>6
<1> QED
  BY <1>1, <1>2, <1>7 DEF Intact

\* What read() may take stays whole while no more arrives.
LEMMA NoneBelowNext ==
  ASSUME OneWay, StreamIInv, IInv', [Next]_vars, Untouched, NoneBelow,
         ServerSock'.sizep = ServerSock.sizep
  PROVE  NoneBelow'
<1> SUFFICES ASSUME NEW x \in Missing' PROVE x >= ServerSock'.sizep
  BY DEF NoneBelow
<1>1. ServerSock.sizep \in Nat /\ ClientSock.sizep \in Nat
  BY LineType DEF StreamIInv, IInv
<1>2. ServerSock.sizep <= ClientSock.sizep
  BY DEF StreamIInv, StreamInv, BytesInv, Copies
<1>3. x \in Nat /\ (x < ClientSock.sizep => x \in Missing)
  BY MissingNext
<1>4. CASE x < ClientSock.sizep
  BY <1>3, <1>4 DEF NoneBelow
<1>5. CASE ~(x < ClientSock.sizep)
  BY <1>1, <1>2, <1>3, <1>5
<1> QED
  BY <1>4, <1>5

\* So does what the ACKs on their way acknowledge.
LEMMA AcksBelowNext ==
  ASSUME OneWay, StreamIInv, IInv', [Next]_vars, Untouched, AcksBelow,
         \A p \in Pending(sender)' :
           \/ p \in Pending(sender)
           \/ p.kind # "ACK" \/ Closing \/ \A x \in Missing' : x >= p.ack
  PROVE  AcksBelow'
<1> SUFFICES ASSUME NEW p \in Pending(sender)', p.kind = "ACK", ~Closing',
                    NEW x \in Missing'
             PROVE  x >= p.ack
  BY DEF AcksBelow
<1>1. ~Closing
  BY GrowsStep DEF Grows
<1>2. CASE p \in Pending(sender)
  <2>1. p \in SafePacket /\ FromServer(p)
    BY <1>2, PendingSafe, Hypothesis DEF StreamIInv, StreamInv, IInv, PacketsInv
  <2>2. p.ack \in Nat /\ p.ack <= ClientSock.sizep
    BY <1>1, <2>1, PacketFields DEF FromServer
  <2>3. ClientSock.sizep \in Nat
    BY LineType DEF StreamIInv, IInv
  <2>4. x \in Nat /\ (x < ClientSock.sizep => x \in Missing)
    BY MissingNext
  <2>5. CASE x < ClientSock.sizep
    BY <1>1, <1>2, <2>4, <2>5 DEF AcksBelow
  <2>6. CASE ~(x < ClientSock.sizep)
    BY <2>2, <2>3, <2>4, <2>6
  <2> QED
    BY <2>5, <2>6
<1> QED
  BY <1>1, <1>2

\* What is missing after a step and was on its way still is.
KeepsAhead ==
  /\ faults' = faults /\ Intact(Line', faults' = 0, Missing') /\ AcksBelow'
  /\ \A x \in Missing' :
       /\ Ahead(TRUE, x) => Ahead(TRUE, x)'
       /\ Ahead(FALSE, x) => Ahead(FALSE, x)'

\* A step after which the write is where it was.
LEMMA SuppliedSame ==
  ASSUME Supplied, KeepsAhead, Missing' \subseteq Missing,
         ClientSock'.sizep = ClientSock.sizep, ClientSock'.writep = ClientSock.writep,
         app'[sender].ip = app[sender].ip,
         \A c \in {"send", "spin"} : app'[sender].pc = c <=> app[sender].pc = c
  PROVE  Supplied'
<1>1. /\ Sending' <=> Sending
      /\ app'[sender].pc = "send" <=> app[sender].pc = "send"
      /\ Stuck' <=> Stuck
      /\ Begin' = Begin /\ Call(sender)' = Call(sender)
  BY DEF Sending, Stuck, Begin, Call
<1>2. \A x : Due(x)' <=> Due(x)
  BY <1>1, Zenon DEF Due
<1>3. \A x \in Missing' : x \in Missing /\ (Ahead(TRUE, x) => Ahead(TRUE, x)')
                          /\ (Ahead(FALSE, x) => Ahead(FALSE, x)')
  BY DEF KeepsAhead
<1>4. DueAhead' /\ DueTwice'
  BY <1>1, <1>2, <1>3, Zenon DEF KeepsAhead, Supplied, DueAhead, DueTwice
<1>5. NextAhead' /\ ShortReturns'
  BY <1>1, <1>2, <1>3, Zenon DEF KeepsAhead, Supplied, NextAhead, ShortReturns
<1> QED
  BY <1>4, <1>5 DEF Supplied, KeepsAhead

\* One between two writes, when all that is missing is on its way.
LEMMA SuppliedBetween ==
  ASSUME KeepsAhead, ~Sending',
         \A x \in Missing' : Ahead(FALSE, x) /\ (faults = 0 => Ahead(TRUE, x))
  PROVE  Supplied'
<1>1. app'[sender].pc # "send" /\ app'[sender].pc # "spin"
  BY DEF Sending
<1>2. \A x \in Missing' : Ahead(FALSE, x)' /\ (faults' = 0 => Ahead(TRUE, x)')
  BY DEF KeepsAhead
<1>3. DueAhead' /\ DueTwice'
  BY <1>2 DEF DueAhead, DueTwice
<1>4. NextAhead' /\ ShortReturns'
  BY <1>1 DEF NextAhead, ShortReturns
<1> QED
  BY <1>3, <1>4 DEF Supplied, KeepsAhead

\* Unless write() waits, what counts as sent is on its way.
LEMMA SentAhead ==
  ASSUME Supplied, ~Stuck, NEW x \in Missing, Due(x)
  PROVE  Ahead(FALSE, x) /\ (faults = 0 => Ahead(TRUE, x))
  BY DEF Supplied, DueAhead, DueTwice

\* A step at the client that sends ps, when what ps follows is on its way.
LEMMA ClientSendsMore ==
  ASSUME OneWay, StreamIInv, IInv', [Next]_vars, Untouched, KeepsServer, Supplied,
         faults' = faults, Pending(sender)' \subseteq Pending(sender),
         NEW ps \in Seq(SafePacket),
         wire'[sender][recver] = wire[sender][recver] \o ps,
         \A i \in 1 .. Len(ps) : ps[i].kind = "DATA" =>
           \A x \in Missing' : x < ps[i].seq => Ahead(faults = 0, x)
  PROVE  /\ KeepsAhead
         /\ \A i \in 1 .. Len(ps) : \A x : Covers(ps[i], x) =>
              Ahead(FALSE, x)' /\ (Ahead(FALSE, x) => Ahead(TRUE, x)')
<1> USE DEF StreamIInv, StreamInv, IInv
<1>1. PICK t \in BOOLEAN : t = (faults = 0)
  BY Zenon
<1>2. PICK line : line = Line
  BY Zenon
<1>3. /\ sender \in Host /\ recver \in Host /\ ServerFd \in Fd /\ TypeOK
      /\ rx'[recver] = rx[recver] /\ queue'[recver] = queue[recver]
  BY Hypothesis DEF KeepsServer
<1>4. Line' = line \o ps
  BY <1>2, <1>3, LineSent, ZenonT(40) DEF Line
<1>5. line \in Seq(SafePacket)
  BY <1>2, <1>3, LineParts DEF Line
<1>6. \A j \in 1 .. Len(line) : line[j] \in Pending(recver)
  BY <1>2, <1>3, OnLinePending DEF Line
<1>7. Intact(line, t, Missing)
  BY <1>1, <1>2, Zenon DEF Supplied
<1>8. Intact(line, t, Missing')
  BY <1>5, <1>6, <1>7, IntactNext
<1>9. PICK M : M = Missing'
  BY Zenon
<1>10. \A i \in 1 .. Len(ps) : ps[i].kind = "DATA" =>
         \A x \in M : x < ps[i].seq => Brought(line, Len(line), t, x)
  BY <1>1, <1>2, <1>9, Zenon DEF Ahead
<1>11. /\ Intact(line \o ps, t, M)
       /\ \A x : \A t2 \in BOOLEAN :
            Brought(line, Len(line), t2, x) =>
              Brought(line \o ps, Len(line \o ps), t2, x)
       /\ \A i \in 1 .. Len(ps) : \A x : Covers(ps[i], x) =>
            /\ Brought(line \o ps, Len(line \o ps), FALSE, x)
            /\ Brought(line, Len(line), FALSE, x) =>
                 Brought(line \o ps, Len(line \o ps), TRUE, x)
  BY <1>5, <1>8, <1>9, <1>10, IntactGrows, Zenon
<1>12. Intact(Line', faults' = 0, Missing')
  BY <1>1, <1>4, <1>9, <1>11, Zenon
<1>13. AcksBelow'
  BY AcksBelowNext DEF Supplied
<1>14. \A x : \A t2 \in BOOLEAN : Ahead(t2, x) => Ahead(t2, x)'
  BY <1>2, <1>4, <1>11, Zenon DEF Ahead
<1>15. \A i \in 1 .. Len(ps) : \A x : Covers(ps[i], x) =>
         Ahead(FALSE, x)' /\ (Ahead(FALSE, x) => Ahead(TRUE, x)')
  BY <1>2, <1>4, <1>11, Zenon DEF Ahead
<1>16. KeepsAhead
  BY <1>12, <1>13, <1>14, Zenon DEF KeepsAhead
<1> QED
  BY <1>15, <1>16

\* One that sends one packet, and one that sends nothing.
LEMMA ClientSendsOne ==
  ASSUME OneWay, StreamIInv, IInv', [Next]_vars, Untouched, KeepsServer, Supplied,
         faults' = faults, Pending(sender)' \subseteq Pending(sender),
         NEW q \in SafePacket, SendTCPPackets(sender, sport, <<q>>),
         q.kind = "DATA" =>
           \A x \in Missing' : x < q.seq => Ahead(FALSE, x) /\ (faults = 0 => Ahead(TRUE, x))
  PROVE  /\ KeepsAhead
         /\ \A x : Covers(q, x) =>
              Ahead(FALSE, x)' /\ (Ahead(FALSE, x) => Ahead(TRUE, x)')
<1>1. PICK ps : ps = <<q>>
  BY Zenon
<1>2. ps \in Seq(SafePacket) /\ Len(ps) = 1 /\ ps[1] = q
  BY <1>1
<1>3. wire'[sender][recver] = wire[sender][recver] \o ps
  BY <1>1, SentOnLine, Zenon DEF StreamIInv, IInv
<1>4. \A i \in 1 .. Len(ps) : ps[i] = q
  BY <1>2
<1>5. 1 \in 1 .. Len(ps)
  BY <1>2
<1>6. q.kind = "DATA" => \A x \in Missing' : x < q.seq => Ahead(faults = 0, x)
  BY Zenon DEF Ahead, Brought
<1>7. \A i \in 1 .. Len(ps) : ps[i].kind = "DATA" =>
        \A x \in Missing' : x < ps[i].seq => Ahead(faults = 0, x)
  BY <1>4, <1>6, Zenon
<1>8. /\ KeepsAhead
      /\ \A i \in 1 .. Len(ps) : \A x : Covers(ps[i], x) =>
           Ahead(FALSE, x)' /\ (Ahead(FALSE, x) => Ahead(TRUE, x)')
  BY <1>2, <1>3, <1>7, ClientSendsMore, ZenonT(40)
<1> QED
  BY <1>2, <1>5, <1>8, Zenon

\* A step at the client that sends nothing.
LEMMA ClientSendsNone ==
  ASSUME OneWay, StreamIInv, IInv', [Next]_vars, Untouched, KeepsServer, Supplied,
         faults' = faults, Pending(sender)' \subseteq Pending(sender), wire' = wire
  PROVE  KeepsAhead
<1>1. PICK ps : ps = <<>>
  OBVIOUS
<1>2. ps \in Seq(SafePacket) /\ \A i \in 1 .. Len(ps) : FALSE
  BY <1>1
<1>3. wire'[sender][recver] = wire[sender][recver] \o ps
  BY <1>1, LineType, ConcatEmptySeq DEF StreamIInv, IInv
<1> QED
  BY <1>2, <1>3, ClientSendsMore, ZenonT(40)

\* A byte of a segment, at its place in the buffer.
LEMMA SeparateAppend ==
  ASSUME OneWay, SeparateBytes, StreamIInv, IInv', ClientAppends,
         Len(Call(sender).data) <= MSS, NEW x \in Missing'
  PROVE  x < ClientSock.sizep
<1> USE DEF StreamIInv, StreamInv, IInv
<1> SUFFICES ASSUME ~(x < ClientSock.sizep) PROVE FALSE
  OBVIOUS
<1>1. PICK d \in Seq(Byte) :
        /\ Call(sender).op = "write" /\ d = Call(sender).data
        /\ ClientSock'.sizep = ClientSock.sizep + Len(d)
        /\ ClientSock'.databuf = CopyIn(ClientSock.databuf, ClientSock.sizep, d)
  BY DEF ClientAppends
<1>2. /\ ClientSock.sizep \in Nat /\ ClientSock.sizep <= BufSize /\ BufSize \in Nat
      /\ ClientSock.databuf \in [0 .. (BufSize - 1) -> Content] /\ Len(d) \in Nat
  BY SocketBounds
<1>3. ClientSock'.sizep <= BufSize
  <2>1. ClientSock' \in SafeSocket
    BY Hypothesis DEF TypeOK, ClientSock, ClientFd
  <2> QED
    BY <2>1 DEF SafeSocket
<1>4. x \in Nat /\ x < ClientSock'.sizep /\ ClientSock'.databuf[x] \in Acknowledged
  <2>1. x \in 0 .. (ClientSock'.sizep - 1) /\ ClientSock'.databuf[x] \in Acknowledged
    BY DEF Missing, Acknowledged
  <2>2. ClientSock'.sizep \in Nat
    BY <1>1, <1>2
  <2> QED
    BY <2>1, <2>2
<1>5. PICK m : m = x - ClientSock.sizep + 1
  OBVIOUS
<1>6. /\ x \in 0 .. (BufSize - 1) /\ ClientSock.sizep <= x
      /\ x < ClientSock.sizep + Len(d) /\ m \in 1 .. Len(d)
  <2>1. PICK s, l, y : s = ClientSock.sizep /\ l = Len(d) /\ y = ClientSock'.sizep
    BY Zenon
  <2>2. /\ s \in Nat /\ l \in Nat /\ y = s + l /\ y <= BufSize /\ BufSize \in Nat
        /\ x \in Nat /\ x < y /\ ~(x < s) /\ m = x - s + 1
    BY <1>1, <1>2, <1>3, <1>4, <1>5, <2>1
  <2> QED
    BY <2>1, <2>2
<1>7. ClientSock'.databuf[x] = d[m]
  BY <1>1, <1>2, <1>5, <1>6 DEF CopyIn
<1>8. d[m] \notin Acknowledged
  <2>1. app[sender].ip \in 1 .. Len(Script[sender])
    BY Hypothesis DEF ClientAppends
  <2> QED
    BY <1>1, <1>6, <2>1 DEF SeparateBytes, Call
<1> QED
  BY <1>4, <1>7, <1>8

\* The client's thread leaves nothing behind that is not on its way.
LEMMA ClientActsSupplied ==
  ASSUME OneWay, SeparateBytes, StreamIInv, IInv', [Next]_vars, Untouched,
         ClientActs, Supplied
  PROVE  Supplied'
<1> USE DEF StreamIInv, StreamInv, IInv
<1> DEFINE s == ClientSock
           a == app[sender]
           OnLine(x) == Ahead(FALSE, x) /\ (faults = 0 => Ahead(TRUE, x))
<1>1. /\ Grows /\ KeepsServer /\ ClientStep /\ Pending(sender)' \subseteq Pending(sender)
      /\ faults' = faults
  BY ClientGrows, ClientActsOwnPackets DEF ClientActs, ClientStep, ClientFrame
<1>2. s.sizep \in Nat /\ s.writep \in Nat /\ MSS \in Nat
  BY LineType, TcpAssumption DEF TcpAssumption
<1>3. ~Closing => s.writep <= s.sizep
  BY DEF BytesInv
<1>4. /\ \A x \in Missing' : x \in Nat /\ x < ClientSock'.sizep
                             /\ (x < s.sizep => x \in Missing)
      /\ \A x \in Missing : x \in Nat /\ x < s.sizep
  BY MissingNext
<1>5. sport \in Endpoint /\ sport \in Address /\ cport \in Address /\ sender \in Host
      /\ Len(Script[sender]) \in Nat /\ a.ip \in Nat
  BY Hypothesis, Zenon DEF Address, TypeOK, AppThread
<1>6. \A x \in Missing : Due(x) /\ ~Stuck => OnLine(x)
  BY SentAhead
<1> HIDE DEF OnLine
<1>7. ASSUME ~Sending, ClientSock'.sizep = s.sizep
      PROVE  \A x \in Missing' : OnLine(x)
  <2>1. ~Stuck /\ \A x : Due(x)
    BY <1>7 DEF Stuck, Sending, Due
  <2> QED
    BY <1>4, <1>6, <1>7, <2>1
<1>8. ASSUME KeepsAhead, ~Sending', \A x \in Missing' : OnLine(x) PROVE Supplied'
  BY <1>8, SuppliedBetween DEF OnLine
<1>9. ASSUME wire' = wire PROVE KeepsAhead
  BY <1>1, <1>9, ClientSendsNone
<1>10. CASE ClientSocket
  <2>1. wire' = wire /\ ClientSock'.sizep = 0 /\ ~Sending'
    BY <1>10 DEF ClientSocket, AppTo, Sending
  <2>2. \A x \in Missing' : FALSE
    BY <1>4, <2>1
  <2> QED
    BY <1>8, <1>9, <2>1, <2>2
<1>11. ASSUME ClientConnects \/ ClientCloses PROVE Supplied'
  <2>1. ~Sending /\ ~Sending' /\ ClientSock'.sizep = s.sizep
    BY <1>11 DEF ClientConnects, ClientCloses, Sending, SameStream, AppTo
  <2>2. PICK kind \in {"SYN", "FIN"} :
          SendTCPPackets(sender, sport, <<Segment(kind, cport, sport, 0, 0, <<>>)>>)
    BY <1>11 DEF ClientConnects, ClientCloses
  <2>3. PICK q : q = Segment(kind, cport, sport, 0, 0, <<>>)
    OBVIOUS
  <2>4. q \in SafePacket /\ q.kind # "DATA"
    BY <1>5, <2>3, ControlType DEF Segment, Kind
  <2>5. KeepsAhead
    BY <1>1, <2>2, <2>3, <2>4, ClientSendsOne, Zenon
  <2> QED
    BY <1>7, <1>8, <2>1, <2>5
<1>12. ASSUME ClientWaits \/ ClientConnected \/ ClientStoresClose \/ ClientClosed
       PROVE  Supplied'
  <2>1. ~Sending /\ ~Sending' /\ ClientSock'.sizep = s.sizep /\ wire' = wire
    BY <1>12 DEF ClientWaits, ClientConnected, ClientStoresClose, ClientClosed,
                 ClientMoves, Sending, SameStream, Waits, ClientSock, AppTo
  <2> QED
    BY <1>7, <1>8, <1>9, <2>1
<1>13. CASE ClientAppends
  <2>1. /\ ~Sending /\ app'[sender].pc = "send" /\ wire' = wire /\ ~Closing
        /\ ClientSock'.writep = s.writep
        /\ ClientSock'.sizep = s.sizep + Len(Call(sender).data)
        /\ Call(sender).data \in Seq(Byte)
        /\ app'[sender].ip = a.ip
    BY <1>5, <1>13 DEF ClientAppends, AppTo, Sending, Closing
  <2>2. /\ Begin' = s.sizep /\ Call(sender)' = Call(sender) /\ ~Stuck'
        /\ KeepsAhead /\ faults' = faults
    <3>1. Call(sender)' = Call(sender)
      BY <2>1 DEF Call
    <3>2. Begin' = (s.sizep + Len(Call(sender).data)) - Len(Call(sender).data)
      BY <2>1, <3>1 DEF Begin
    <3>3. Len(Call(sender).data) \in Nat
      BY <2>1
    <3>4. Begin' = s.sizep
      BY <1>2, <3>2, <3>3
    <3> QED
      BY <1>1, <1>9, <2>1, <3>1, <3>4 DEF Stuck
  <2>3. ASSUME NEW x \in Missing', Due(x)' PROVE OnLine(x)
    <3>1. x < s.sizep
      <4>1. x < s.writep \/ x < s.sizep
        BY <2>1, <2>2, <2>3 DEF Due, Sending
      <4> QED
        BY <1>2, <1>3, <1>4, <2>1, <4>1
    <3>2. x \in Missing /\ ~Stuck /\ Due(x)
      BY <1>4, <2>1, <3>1 DEF Stuck, Sending, Due
    <3> QED
      BY <1>6, <3>2
  <2>4. \A x \in Missing' : Due(x)' =>
          Ahead(FALSE, x)' /\ (faults' = 0 => Ahead(TRUE, x)')
    BY <2>2, <2>3 DEF OnLine, KeepsAhead
  <2>5. DueAhead' /\ DueTwice'
    BY <2>4 DEF DueAhead, DueTwice
  <2>6. NextAhead'
    BY <1>2, <1>3, <2>1, <2>2 DEF NextAhead
  <2>7. ShortReturns'
    <3>1. Len(Call(sender).data) <= MSS => \A x \in Missing' : x < s.sizep
      BY <1>13, SeparateAppend
    <3> QED
      BY <2>2, <3>1 DEF ShortReturns
  <2> QED
    BY <2>2, <2>5, <2>6, <2>7 DEF Supplied, KeepsAhead
<1>14. CASE ClientWritten
  <2>1. /\ wire' = wire /\ ClientSock'.sizep = s.sizep /\ s.writep = s.sizep
        /\ ~Sending'
    BY <1>14 DEF ClientWritten, ClientMoves, ClientSock, AppTo, Sending
  <2>2. ~Stuck /\ \A x \in Missing : Due(x)
    BY <1>2, <1>4, <2>1 DEF Stuck, Due
  <2>3. \A x \in Missing' : OnLine(x)
    BY <1>4, <1>6, <2>1, <2>2
  <2> QED
    BY <1>8, <1>9, <2>1, <2>3
<1>15. CASE ClientSends
  <2>1. PICK n : n = Unsent(s)
    OBVIOUS
  <2>2. PICK d : d = Slice(s.databuf, s.writep, n)
    OBVIOUS
  <2>3. PICK q : q = Segment("DATA", cport, sport, s.writep, 0, d)
    OBVIOUS
  <2>4. /\ a.pc = "send" /\ app'[sender].pc = "spin" /\ ~Closing /\ Call(sender).op = "write"
        /\ ClientSock'.writep = s.writep + n /\ ClientSock'.sizep = s.sizep
        /\ SendTCPPackets(sender, sport, <<q>>)
    <3>1. Call(sender).op = "write"
      BY <1>5, <1>15, ClientCalls DEF ClientSends
    <3> QED
      BY <1>5, <1>15, <2>1, <2>2, <2>3, <3>1
      DEF ClientSends, AppTo, Closing, SameBuffer
  <2>5. /\ n \in Nat /\ s.writep + n <= s.sizep /\ s.writep <= s.sizep
        /\ n <= MSS /\ (s.writep + n = s.sizep \/ n = MSS)
    BY <1>2, <1>3, <2>1, <2>4 DEF Unsent
  <2>6. d \in Seq(Content) /\ Len(d) = n
    <3>1. s.databuf \in [0 .. (BufSize - 1) -> Content] /\ s.sizep <= BufSize /\ BufSize \in Nat
      BY SocketBounds
    <3> QED
      BY <1>2, <2>2, <2>5, <3>1, SliceType
  <2>7. q \in SafePacket /\ q.kind = "DATA" /\ q.seq = s.writep /\ q.data = d
    <3>1. q.kind = "DATA" /\ q.seq = s.writep /\ q.data = d
      BY <2>3 DEF Segment
    <3>2. s.writep + Len(d) <= BufSize
      BY <1>2, <2>5, <2>6, SocketBounds, SMTT(40)
    <3>3. q \in SafePacket
      BY <1>2, <1>5, <2>3, <2>6, <3>2, DataType, Zenon
    <3> QED
      BY <3>1, <3>3
  <2>8. ~Stuck /\ \A x \in Missing' : x \in Nat /\ x \in Missing
    BY <1>4, <2>4 DEF Stuck
  <2>9. \A x \in Missing' : x < s.writep => OnLine(x)
    BY <1>6, <2>8 DEF Due
  <2>10. /\ KeepsAhead
         /\ \A x : Covers(q, x) =>
              Ahead(FALSE, x)' /\ (Ahead(FALSE, x) => Ahead(TRUE, x)')
    <3>1. q.kind = "DATA" =>
            \A x \in Missing' : x < q.seq => Ahead(FALSE, x) /\ (faults = 0 => Ahead(TRUE, x))
      BY <2>7, <2>9 DEF OnLine
    <3> QED
      BY <1>1, <2>4, <2>7, <3>1, ClientSendsOne, ZenonT(40)
  <2>11. \A x \in Missing' : ~(x < s.writep) /\ x < s.writep + n => Covers(q, x)
    BY <1>2, <2>5, <2>6, <2>7, <2>8 DEF Covers
  <2>12. \A x \in Missing' : Due(x)' => x < s.writep + n
    BY <2>4 DEF Due, Sending
  <2>13. \A x \in Missing' : OnLine(x) => Ahead(FALSE, x)' /\ (faults' = 0 => Ahead(TRUE, x)')
    BY <2>10 DEF OnLine, KeepsAhead
  <2>14. DueAhead'
    BY <2>9, <2>10, <2>11, <2>12, <2>13 DEF DueAhead
  <2>15. DueTwice'
    <3> SUFFICES ASSUME faults' = 0, NEW x \in Missing', Due(x)', ~Stuck'
                 PROVE  Ahead(TRUE, x)'
      BY DEF DueTwice
    <3>1. faults = 0 /\ s.writep + n = s.sizep
      BY <1>1, <1>2, <2>4, <2>5 DEF Stuck
    <3>2. CASE x < s.writep
      BY <2>9, <2>13, <3>2
    <3>3. CASE x < Begin
      <4>1. Due(x)
        BY <2>4, <3>3 DEF Due
      <4> QED
        BY <1>6, <2>8, <2>13, <4>1
    <3>4. CASE ~(x < s.writep) /\ ~(x < Begin)
      <4>1. PICK m : m = Len(Call(sender).data)
        OBVIOUS
      <4>2. m \in Nat /\ Begin = s.sizep - m
        <5>1. Call(sender).data \in Seq(Byte)
          <6>1. a.ip \in 1 .. Len(Script[sender])
            BY <1>5, <1>15 DEF ClientSends
          <6> QED
            BY <1>5, <2>4, <6>1, CallType
        <5> QED
          BY <4>1, <5>1 DEF Begin
      <4>3. ~(m <= MSS)
        BY <2>4, <2>8, <3>4, <4>1 DEF Supplied, ShortReturns
      <4>4. s.writep > Begin
        BY <1>2, <2>5, <3>1, <4>2, <4>3
      <4>5. s.writep <= x /\ x < s.writep + MSS /\ x < s.writep + n
        BY <1>2, <2>5, <2>8, <2>12, <3>4
      <4>6. Ahead(FALSE, x)
        BY <2>4, <2>8, <3>1, <4>4, <4>5 DEF Supplied, NextAhead
      <4> QED
        BY <2>10, <2>11, <3>4, <4>5, <4>6
    <3> QED
      BY <3>2, <3>3, <3>4
  <2>16. NextAhead' /\ ShortReturns'
    BY <2>4 DEF NextAhead, ShortReturns
  <2> QED
    BY <2>10, <2>14, <2>15, <2>16 DEF Supplied, KeepsAhead
<1> QED
  BY <1>1, <1>10, <1>11, <1>12, <1>13, <1>14, <1>15 DEF ClientStep

\* Nor does processip of the client: an ACK moves writep to a byte below which
\* nothing is missing while write() is sending.
LEMMA ClientReceivesSupplied ==
  ASSUME OneWay, StreamIInv, IInv', [Next]_vars, Untouched, ClientReceives, Supplied
  PROVE  Supplied'
<1> USE DEF StreamIInv, StreamInv, IInv
<1> DEFINE s == ClientSock
           p == rx[sender].pkt
           OnLine(x) == Ahead(FALSE, x) /\ (faults = 0 => Ahead(TRUE, x))
<1>1. /\ Grows /\ KeepsServer /\ RxMoves(sender) /\ rx'[sender].fd = FirstFd
      /\ Pending(sender)' \subseteq Pending(sender)
  BY ClientReceivesGrows, ClientReceivesPackets DEF ClientReceives
<1>2. faults' = faults
  BY <1>1, Zenon DEF RxMoves, Pops, Reacts, Stores, Ignores, StoresData, Acks, Idles, RxFrame
<1>3. s.sizep \in Nat /\ s.writep \in Nat /\ MSS \in Nat \ {0}
  BY LineType, TcpAssumption DEF TcpAssumption
<1>4. /\ sport \in Endpoint /\ sport \in Address /\ cport \in Address
      /\ sender \in Host /\ FirstFd \in Fd
  BY Hypothesis, Zenon DEF Address
<1>5. /\ app'[sender].ip = app[sender].ip
      /\ \A c \in {"send", "spin"} : app'[sender].pc = c <=> app[sender].pc = c
  BY <1>1, Zenon DEF RxMoves, Pops, Reacts, Stores, Ignores, StoresData, Acks, Notified, AppTo
<1>6. rx[sender].pc # "pop" => p.src = sport /\ p.dst = cport /\ p.kind # "DATA"
  BY InClientsHand DEF FromServer
<1>7. /\ \A x \in Missing' : x \in Nat /\ (x < s.sizep => x \in Missing)
      /\ \A x \in Missing' : x < ClientSock'.sizep
      /\ \A x \in Missing : x \in Nat /\ x < s.sizep
  BY MissingNext
<1>8. \A x \in Missing : Due(x) /\ ~Stuck => OnLine(x)
  BY SentAhead
<1> HIDE DEF OnLine
<1>9. ASSUME ClientSock'.sizep = s.sizep, ClientSock'.writep = s.writep, KeepsAhead
      PROVE  Supplied'
  <2>1. Missing' \subseteq Missing
    BY <1>7, <1>9
  <2> QED
    BY <1>5, <1>9, <2>1, SuppliedSame, Zenon
<1>10. ASSUME wire' = wire PROVE KeepsAhead
  BY <1>1, <1>2, <1>10, ClientSendsNone
<1>11. CASE Pops(sender) \/ Stores(sender) \/ Ignores(sender)
  <2>1. wire' = wire
    BY <1>11, SMTT(40) DEF Pops, Stores, Ignores
  <2>2. ClientSock'.sizep = s.sizep /\ ClientSock'.writep = s.writep
    BY <1>1, <1>11 DEF Pops, Stores, Ignores, Idles, SameStream, ClientSock, ClientFd
  <2> QED
    BY <1>9, <1>10, <2>1, <2>2
<1>12. CASE Reacts(sender)
  <2>1. p.src = sport
    BY <1>6, <1>12 DEF Reacts
  <2>2. PICK ps \in Seq(SafePacket) :
          /\ SendTCPPackets(sender, sport, ps)
          /\ \A i \in 1 .. Len(ps) : ps[i].kind # "DATA"
    BY <1>4, <1>12, <2>1, AnswersDataless
  <2>3. wire'[sender][recver] = wire[sender][recver] \o ps
    BY <2>2, SentOnLine
  <2>4. ClientSock'.sizep = s.sizep /\ ClientSock'.writep = s.writep
    BY <1>12, SMTT(40) DEF Reacts, ClientSock
  <2>5. \A i \in 1 .. Len(ps) : ps[i].kind = "DATA" =>
          \A x \in Missing' : x < ps[i].seq => Ahead(faults = 0, x)
    BY <2>2
  <2>6. KeepsAhead
    BY <1>1, <1>2, <2>3, <2>5, ClientSendsMore, Zenon
  <2> QED
    BY <1>9, <2>4, <2>6
<1>13. CASE StoresData(sender)
  BY <1>6, <1>13 DEF StoresData
<1>14. CASE Acks(sender)
  <2>1. PICK k : k = p.ack
    OBVIOUS
  <2>2. PICK n : n = Lesser(MSS, s.sizep - k)
    OBVIOUS
  <2>3. PICK d : d = Slice(s.databuf, k, n)
    BY SMTT(40)
  <2>4. rx[sender].pc = "react" /\ p.kind = "ACK" /\ rx[sender].fd = FirstFd
        /\ app' = app
    BY <1>1, <1>14 DEF Acks, Idles
  <2>5. /\ ClientSock'.sizep = s.sizep /\ ClientSock'.writep = k
        /\ \/ ~(k < s.sizep) /\ wire' = wire
           \/ /\ k < s.sizep
              /\ SendTCPPackets(sender, sport,
                   <<Segment("DATA", cport, sport, k, 0, d)>>)
    BY <1>6, <1>14, <2>1, <2>2, <2>3, <2>4
    DEF Acks, SameBuffer, ClientSock, ClientFd
  <2>6. p \in Pending(sender) /\ k \in Nat
    <3>1. p \in Pending(sender)
      BY <2>4, PendingIs
    <3> QED
      BY <1>4, <2>1, <3>1, PendingSafe, PacketFields
  <2>7. \A x \in Missing' : x \in Nat /\ x \in Missing /\ x < s.sizep
    BY <1>7, <2>5
  <2>8. Sending => \A x \in Missing' : x >= k
    <3>1. Sending => ~Closing
      BY ClientCalls DEF Closing, Sending
    <3> QED
      BY <2>1, <2>4, <2>6, <2>7, <3>1 DEF Supplied, AcksBelow
  <2>9. ~Sending => \A x \in Missing' : OnLine(x)
    <3>1. ~Sending => ~Stuck /\ \A x : Due(x)
      BY DEF Sending, Stuck, Due
    <3> QED
      BY <1>8, <2>7, <3>1
  <2>10. /\ Sending' <=> Sending
         /\ app'[sender].pc = app[sender].pc
         /\ Begin' = Begin /\ Call(sender)' = Call(sender)
    BY <2>4, <2>5 DEF Sending, Begin, Call
  <2>11. ASSUME KeepsAhead, ~Sending PROVE Supplied'
    BY <2>9, <2>10, <2>11, SuppliedBetween DEF OnLine
  <2>12. ASSUME KeepsAhead, Missing' = {} PROVE Supplied'
    BY <2>12 DEF Supplied, KeepsAhead, DueAhead, DueTwice, NextAhead, ShortReturns
  <2>13. CASE ~(k < s.sizep) /\ wire' = wire
    <3>1. KeepsAhead
      BY <1>10, <2>13
    <3>2. Sending => Missing' = {}
      BY <1>3, <2>6, <2>7, <2>8, <2>13
    <3> QED
      BY <2>11, <2>12, <3>1, <3>2
  <2>14. CASE k < s.sizep
              /\ SendTCPPackets(sender, sport, <<Segment("DATA", cport, sport, k, 0, d)>>)
    <3>1. PICK q : q = Segment("DATA", cport, sport, k, 0, d)
      OBVIOUS
    <3>2. n \in Nat /\ k + n <= s.sizep /\ (k + n = s.sizep \/ n = MSS)
      BY <1>3, <2>2, <2>6, <2>14, SMTT(40) DEF Lesser
    <3>3. d \in Seq(Content) /\ Len(d) = n /\ k + Len(d) <= BufSize
      <4>1. /\ s.databuf \in [0 .. (BufSize - 1) -> Content]
            /\ s.sizep <= BufSize /\ BufSize \in Nat
        BY SocketBounds
      <4>2. k + n <= BufSize
        BY <1>3, <2>6, <3>2, <4>1
      <4>3. d \in Seq(Content) /\ Len(d) = n
        BY <2>3, <2>6, <3>2, <4>1, <4>2, SliceType
      <4> QED
        BY <4>2, <4>3
    <3>4. q \in SafePacket /\ q.kind = "DATA" /\ q.seq = k /\ q.data = d
      BY <1>4, <2>6, <3>1, <3>3, DataType DEF Segment
    <3>5. \A x \in Missing' : x < k => OnLine(x)
      BY <2>6, <2>7, <2>8, <2>9
    <3>6. /\ KeepsAhead
          /\ \A x : Covers(q, x) =>
               Ahead(FALSE, x)' /\ (Ahead(FALSE, x) => Ahead(TRUE, x)')
      <4>1. q.kind = "DATA" =>
              \A x \in Missing' : x < q.seq => Ahead(FALSE, x) /\ (faults = 0 => Ahead(TRUE, x))
        BY <3>4, <3>5 DEF OnLine
      <4>2. SendTCPPackets(sender, sport, <<q>>)
        BY <2>14, <3>1
      <4> QED
        BY <1>1, <1>2, <3>4, <4>1, <4>2, ClientSendsOne, ZenonT(40)
    <3>7. CASE ~Sending
      BY <2>11, <3>6, <3>7
    <3>8. CASE Sending
      <4>1. \A x \in Missing' : Due(x)' => app[sender].pc = "send" /\ x < Begin
        <5>1. \A x \in Missing' : ~(x < k)
          BY <2>6, <2>7, <2>8, <3>8
        <5> QED
          BY <2>5, <2>10, <3>8, <5>1 DEF Due
      <4>2. \A x \in Missing' : Due(x)' => OnLine(x)
        <5>1. \A x \in Missing' : Due(x)' => Due(x) /\ ~Stuck
          BY <4>1 DEF Due, Stuck
        <5> QED
          BY <1>8, <2>7, <5>1
      <4>3. \A x \in Missing' : Due(x)' =>
              Ahead(FALSE, x)' /\ (faults' = 0 => Ahead(TRUE, x)')
        BY <1>2, <3>6, <4>2 DEF OnLine, KeepsAhead
      <4>4. DueAhead' /\ DueTwice'
        BY <4>3 DEF DueAhead, DueTwice
      <4>5. \A x \in Missing' : k <= x /\ x < k + MSS => Covers(q, x)
        BY <1>3, <2>6, <2>7, <3>2, <3>3, <3>4 DEF Covers
      <4>6. NextAhead'
        BY <2>5, <3>6, <4>5 DEF NextAhead
      <4>7. ShortReturns'
        BY <2>7, <2>10 DEF Supplied, ShortReturns
      <4> QED
        BY <3>6, <4>4, <4>6, <4>7 DEF Supplied, KeepsAhead
    <3> QED
      BY <3>7, <3>8
  <2> QED
    BY <2>5, <2>13, <2>14
<1> QED
  BY <1>1, <1>11, <1>12, <1>13, <1>14 DEF RxMoves

\* What is written is not what a buffer begins with.
LEMMA AcknowledgedWritten ==
  ASSUME OneWay
  PROVE  Zero \notin Acknowledged
<1> SUFFICES ASSUME Zero \in Acknowledged PROVE FALSE
  OBVIOUS
<1>1. sender \in Host
  BY Hypothesis
<1>2. Script[sender] \in Seq(Calls) /\ Zero \notin Byte
  BY <1>1, TcpAssumption DEF TcpAssumption
<1>3. PICK c \in Range(Script[sender]) : c.op = "write" /\ Zero \in Range(c.data)
  BY DEF Acknowledged
<1>4. c \in Calls
  BY <1>2, <1>3 DEF Range
<1>5. c.data \in Seq(Byte)
  BY <1>3, <1>4 DEF Calls
<1> QED
  BY <1>2, <1>3, <1>5 DEF Range

\* A data segment with nothing missing before it, when it is stored.
LEMMA StoredWhole ==
  ASSUME OneWay, StreamIInv, IInv', [Next]_vars, Untouched, NoneBelow, KeepsClient,
         StoresData(recver), rx[recver].fd = ServerFd,
         \A x \in Missing : ~(x < rx[recver].pkt.seq)
  PROVE  /\ NoneBelow'
         /\ \A x \in Missing' : ~Covers(rx[recver].pkt, x)
         /\ \A p \in Pending(sender)' :
              p \in Pending(sender) \/ \A x \in Missing' : x >= p.ack
<1> USE DEF StreamIInv, StreamInv, IInv
<1>1. /\ ServerFd \in Fd /\ sender \in Host /\ recver \in Host /\ sender # recver
      /\ cport \in Endpoint /\ sport \in Endpoint /\ HostOf[cport] = sender
  BY Hypothesis
<1>2. /\ ServerSock.sizep \in Nat /\ ClientSock.sizep \in Nat /\ BufSize \in Nat
      /\ ClientSock.sizep <= BufSize
      /\ ServerSock.databuf \in [0 .. (BufSize - 1) -> Content]
  BY SocketBounds
<1>3. PICK q, n, d, l : q = rx[recver].pkt /\ n = q.seq /\ d = q.data /\ l = Len(d)
  BY ZenonT(40)
<1>4. /\ q.kind = "DATA" /\ Idles(recver) /\ rx[recver].pc = "react"
      /\ ServerSock'.sizep = (IF n + l > ServerSock.sizep THEN n + l
                              ELSE ServerSock.sizep)
      /\ ServerSock'.databuf = CopyIn(ServerSock.databuf, n, d)
  BY <1>3 DEF StoresData, Idles, ServerSock
<1>5. q \in SafePacket /\ FromClient(q) /\ q.src = cport /\ q.dst = sport
  BY <1>1, <1>3, <1>4, InServersHand, Zenon DEF TypeOK, RxThread, FromClient
<1>6. n \in Nat /\ d \in Seq(Content) /\ l \in Nat
  BY <1>3, <1>5, PacketFields
<1>7. ClientSock' = ClientSock
  BY DEF KeepsClient, ClientSock, ClientFd
<1>8. ASSUME NEW x \in Missing'
      PROVE  x \in Nat /\ x \in Missing /\ x >= n + l
  <2>1. x \in Nat /\ x \in Missing /\ x < ClientSock.sizep
    BY <1>7, MissingNext
  <2>2. /\ ~(x < n) /\ x \in 0 .. (BufSize - 1)
        /\ ClientSock.databuf[x] \in Acknowledged /\ ServerSock'.databuf[x] = Zero
    BY <1>2, <1>3, <1>7, <1>8, <2>1 DEF Missing, Acknowledged
  <2>3. ASSUME x < n + l PROVE FALSE
    <3>1. PICK m : m = x - n + 1
      OBVIOUS
    <3>2. m \in 1 .. l /\ n + m - 1 = x
      BY <1>6, <2>1, <2>2, <2>3, <3>1
    <3>3. ServerSock'.databuf[x] = d[m]
      BY <1>2, <1>3, <1>4, <1>6, <2>1, <2>2, <2>3, <3>1 DEF CopyIn
    <3>4. d[m] = ClientSock.databuf[n + m - 1]
      BY <1>3, <1>4, <1>5, <3>2 DEF FromClient
    <3> QED
      BY <2>2, <3>2, <3>3, <3>4, AcknowledgedWritten
  <2> QED
    BY <1>6, <2>1, <2>3
<1>9. NoneBelow'
  BY <1>2, <1>4, <1>6, <1>8 DEF NoneBelow
<1>10. \A x \in Missing' : ~Covers(q, x)
  BY <1>3, <1>6, <1>8 DEF Covers
<1>11. \A p \in Pending(sender)' :
         p \in Pending(sender) \/ \A x \in Missing' : x >= p.ack
  <2>1. PICK u : u = Segment("ACK", sport, cport, 0, n + l, <<>>)
    OBVIOUS
  <2>2. u \in SafePacket /\ u.ack = n + l
    <3>1. n + l \in Nat
      BY <1>6, SMTT(40)
    <3> QED
      BY <1>1, <2>1, <3>1, ControlType DEF Address, Kind, Segment
  <2>3. SendTCPPackets(recver, cport, <<u>>)
    BY <1>3, <1>5, <2>1 DEF StoresData
  <2>4. KeepsPacket /\ queue' = queue
    BY <1>4 DEF KeepsPacket, Idles, RxFrame
  <2>5. \A p \in Pending(sender)' : p \in Pending(sender) \/ p = u
    BY <1>1, <2>2, <2>3, <2>4, SendOnePending
  <2> QED
    BY <1>8, <2>2, <2>5
<1> QED
  BY <1>3, <1>9, <1>10, <1>11

\* Nothing is missing before a data segment that is the next to be stored.
LEMMA FirstIntact ==
  ASSUME NEW S, NEW line \in Seq(S), line # <<>>, NEW t, NEW M, Intact(line, t, M),
         line[1].kind = "DATA"
  PROVE  \A x \in M : ~(x < line[1].seq)
<1> SUFFICES ASSUME NEW x \in M, x < line[1].seq PROVE FALSE
  OBVIOUS
<1>1. 1 \in 1 .. Len(line)
  BY HeadTailProperties
<1>2. Brought(line, 1 - 1, t, x)
  BY <1>1 DEF Intact
<1> QED
  BY <1>2 DEF Brought

\* A step of the server that leaves its line alone.
LEMMA SameLineSupplied ==
  ASSUME OneWay, StreamIInv, IInv', [Next]_vars, Untouched, Supplied,
         Line' = Line, ClientSock' = ClientSock, app'[sender] = app[sender],
         faults' = faults,
         \A p \in Pending(sender)' :
           p \in Pending(sender) \/ p.kind # "ACK" \/ Closing
  PROVE  Supplied'
<1>1. Missing' \subseteq Missing
  BY MissingNext
<1>2. PICK t \in BOOLEAN : t = (faults = 0)
  BY Zenon
<1>3. Line \in Seq(SafePacket)
  BY LineType DEF StreamIInv, IInv
<1>4. Intact(Line, t, Missing)
  BY <1>2, Zenon DEF Supplied
<1>5. Intact(Line, t, Missing')
  BY <1>1, <1>3, <1>4, IntactLess
<1>6. Intact(Line', faults' = 0, Missing')
  BY <1>2, <1>5, Zenon
<1>7. AcksBelow'
  BY AcksBelowNext DEF Supplied
<1>8. KeepsAhead
  BY <1>6, <1>7 DEF KeepsAhead, Ahead
<1> QED
  BY <1>1, <1>8, SuppliedSame

\* One that takes its first packet.
LEMMA ServerDoneSupplied ==
  ASSUME OneWay, StreamIInv, IInv', [Next]_vars, Untouched, ServerReceives, OneSocket,
         Supplied, rx[recver].pc = "react", rx'[recver].pc # "react", queue' = queue,
         \A x \in Missing' : ~Covers(rx[recver].pkt, x),
         \A p \in Pending(sender)' :
           \/ p \in Pending(sender)
           \/ p.kind # "ACK" \/ Closing \/ \A x \in Missing' : x >= p.ack
  PROVE  Supplied'
<1> USE DEF StreamIInv, StreamInv, IInv
<1>1. /\ ClientSock' = ClientSock /\ app'[sender] = app[sender] /\ faults' = faults
  <2>1. ClientSock' = ClientSock /\ app'[sender] = app[sender]
    BY DEF ServerReceives, KeepsClient, ClientSock, ClientFd
  <2>2. faults' = faults
    BY Zenon DEF ServerReceives, RxMoves, Pops, Reacts, Stores, Ignores, StoresData, Acks,
                 Idles, RxFrame
  <2> QED
    BY <2>1, <2>2
<1>2. Missing' \subseteq Missing
  BY <1>1, MissingNext
<1>3. PICK t \in BOOLEAN : t = (faults = 0)
  BY Zenon
<1>4. PICK line, M, N : line = Line /\ M = Missing /\ N = Missing'
  BY Zenon
<1>5. line # <<>> /\ line[1] = rx[recver].pkt /\ Line' = Tail(line)
  BY <1>4, ServerReceivesOne, LineDone, Hypothesis DEF Line
<1>6. line \in Seq(SafePacket)
  BY <1>4, LineType
<1>7. Intact(line, t, M)
  BY <1>3, <1>4, Zenon DEF Supplied
<1>8. N \subseteq M /\ \A x \in N : ~Covers(line[1], x)
  BY <1>2, <1>4, <1>5
<1>9. /\ Intact(Tail(line), t, N)
      /\ \A x \in N : \A t2 \in BOOLEAN :
           Brought(line, Len(line), t2, x) =>
             Brought(Tail(line), Len(Tail(line)), t2, x)
  BY <1>5, <1>6, <1>7, <1>8, IntactShrinks
<1>10. Intact(Line', faults' = 0, Missing')
  BY <1>1, <1>3, <1>4, <1>5, <1>9, Zenon
<1>11. \A x \in Missing' : \A t2 \in BOOLEAN : Ahead(t2, x) => Ahead(t2, x)'
  BY <1>4, <1>5, <1>9, Zenon DEF Ahead
<1>12. AcksBelow'
  BY AcksBelowNext DEF Supplied
<1>13. KeepsAhead
  BY <1>1, <1>10, <1>11, <1>12, Zenon DEF KeepsAhead
<1> QED
  BY <1>1, <1>2, <1>13, SuppliedSame

\* The server's thread takes nothing from its line.
LEMMA ServerActsSupplied ==
  ASSUME OneWay, StreamIInv, IInv', [Next]_vars, Untouched, ServerActs, OneSocket,
         Supplied
  PROVE  Supplied'
<1> USE DEF StreamIInv, StreamInv, IInv
<1>1. UNCHANGED <<queue, wire, rx>>
  BY ServerActsSockets
<1>2. /\ ClientSock' = ClientSock /\ app'[sender] = app[sender] /\ faults' = faults
  BY DEF ServerActs, KeepsClient, ServerStep, ServerFrame, ClientSock, ClientFd
<1>3. Line' = Line
  BY <1>1 DEF Line, LineOf, HandOf
<1>4. Pending(sender)' \subseteq Pending(sender)
  <2>1. sender \in Host /\ KeepsPacket
    BY <1>1, Hypothesis DEF KeepsPacket
  <2> QED
    BY <1>1, <2>1, SamePending
<1> QED
  BY <1>2, <1>3, <1>4, SameLineSupplied

\* Its processip takes the first packet, and acknowledges what has arrived.
LEMMA ServerReceivesSupplied ==
  ASSUME OneWay, StreamIInv, IInv', [Next]_vars, Untouched, ServerReceives, OneSocket,
         Supplied, NoneBelow
  PROVE  Supplied' /\ NoneBelow'
<1> USE DEF StreamIInv, StreamInv, IInv
<1>1. /\ FirstFd \in Fd /\ ServerFd \in Fd /\ ServerFd # FirstFd
      /\ sender \in Host /\ recver \in Host /\ sender # recver
      /\ cport \in Endpoint /\ sport \in Endpoint /\ HostOf[cport] = sender
  BY Hypothesis
<1>2. ClientSock' = ClientSock /\ app'[sender] = app[sender] /\ KeepsClient
  BY DEF ServerReceives, KeepsClient, ClientSock, ClientFd
<1>3. rx'[recver].fd = ServerFd /\ ~Accepts
      /\ wire'[sender][recver] = wire[sender][recver]
  BY ServerReceivesOne
<1>4. faults' = faults
  BY Zenon DEF ServerReceives, RxMoves, Pops, Reacts, Stores, Ignores, StoresData, Acks,
               Idles, RxFrame
<1>5. ASSUME Idles(recver) \/ Reacts(recver) PROVE KeepsPacket /\ queue' = queue
  BY <1>5 DEF KeepsPacket, Idles, RxFrame, Reacts
<1>6. ASSUME ServerSock'.sizep = ServerSock.sizep PROVE NoneBelow'
  BY <1>6, NoneBelowNext
<1>7. CASE Pops(recver)
  <2>1. Line' = Line /\ Pending(sender)' \subseteq Pending(sender)
    BY <1>1, <1>3, <1>7, LinePops, PopPending, Hypothesis DEF Line
  <2>2. ServerSock' = ServerSock
    BY <1>7 DEF Pops, ServerSock
  <2> QED
    BY <1>2, <1>4, <1>6, <2>1, <2>2, SameLineSupplied
<1>8. CASE Stores(recver)
  <2>1. rx[recver].pc = "store" /\ rx'[recver].pc = "pop" /\ wire' = wire
        /\ Idles(recver)
    BY <1>8 DEF Stores, Idles
  <2>2. Line' = Line
    BY <1>5, <2>1, Zenon DEF Line, LineOf, HandOf
  <2>3. Pending(sender)' \subseteq Pending(sender)
    BY <1>1, <1>5, <2>1, SamePending, ZenonT(40)
  <2>4. ServerSock'.sizep = ServerSock.sizep
    BY <1>3, <1>8, <2>1 DEF Stores, Idles, SameStream, ServerSock
  <2> QED
    BY <1>2, <1>4, <1>6, <2>2, <2>3, <2>4, SameLineSupplied
<1>9. CASE Ignores(recver)
  <2>1. /\ rx[recver].pc = "react" /\ rx'[recver].pc # "react" /\ wire' = wire
        /\ Idles(recver) /\ ServerSock' = ServerSock
        /\ \A x : ~Covers(rx[recver].pkt, x)
    BY <1>9 DEF Ignores, Idles, ServerSock, Covers
  <2>2. Pending(sender)' \subseteq Pending(sender)
    BY <1>1, <1>5, <2>1, SamePending
  <2> QED
    BY <1>5, <1>6, <2>1, <2>2, ServerDoneSupplied
<1>10. CASE Reacts(recver)
  <2>1. PICK q, r : q = rx[recver].pkt /\ r = rx'[recver].rule
    BY SMTT(40)
  <2>2. FromClient(q) /\ q.src = cport
    BY <1>10, <2>1, InServersHand DEF Reacts, FromClient
  <2>3. r \in Rules /\ r.on = q.kind /\ rx[recver].pc = "react"
    BY <1>10, <2>1, ZenonT(40) DEF Reacts
  <2>4. \A x : ~Covers(q, x)
    <3>1. r.on # "DATA"
      BY <2>3 DEF Rules, Rule
    <3> QED
      BY <2>3, <3>1 DEF Covers
  <2>5. ASSUME NEW p \in Pending(sender)', p \notin Pending(sender), p.kind = "ACK"
        PROVE  Closing
    <3>1. \E i \in DOMAIN rx'[recver].rule.send :
            p = Reply(q, rx'[recver].rule.send[i])
      BY <1>1, <1>10, <2>1, <2>2, <2>5, AnswersPending
    <3>2. PICK i \in DOMAIN r.send : p = Reply(q, r.send[i])
      BY <2>1, <3>1
    <3>3. r.send[i] = "ACK"
      BY <2>5, <3>2 DEF Reply, Segment
    <3>4. r.at \in ServerStatus
      <4>1. RxSock(recver).status \in ServerStatus
        BY <1>3, <1>10 DEF Reacts, RxSock, ServerInv, IsServer, ServerSock
      <4> QED
        BY <1>10, <2>1, <4>1, ZenonT(40) DEF Reacts, RxInv
    <3>5. q.kind = "FIN"
      BY <2>3, <3>3, <3>4, RuleFacts
    <3> QED
      BY <2>2, <3>5 DEF FromClient
  <2>6. rx'[recver].pc # "react" /\ ServerSock' = ServerSock
    BY <1>10 DEF Reacts, ServerSock
  <2> QED
    BY <1>5, <1>6, <1>10, <2>1, <2>3, <2>4, <2>5, <2>6, ServerDoneSupplied
<1>11. CASE StoresData(recver)
  <2>1. /\ rx[recver].pc = "react" /\ rx'[recver].pc # "react"
        /\ rx[recver].fd = ServerFd /\ rx[recver].pkt.kind = "DATA" /\ Idles(recver)
    BY <1>3, <1>11 DEF StoresData, Idles
  <2>2. \A x \in Missing : ~(x < rx[recver].pkt.seq)
    <3>1. PICK line, t : line = Line /\ t = (faults = 0)
      BY Zenon
    <3>2. line # <<>> /\ line[1] = rx[recver].pkt
      BY <1>3, <1>5, <2>1, <3>1, LineDone, Hypothesis DEF Line
    <3>3. line \in Seq(SafePacket)
      BY <3>1, LineType
    <3>4. Intact(line, t, Missing)
      BY <3>1, Zenon DEF Supplied
    <3> QED
      BY <2>1, <3>2, <3>3, <3>4, FirstIntact
  <2> QED
    BY <1>2, <1>5, <1>11, <2>1, <2>2, StoredWhole, ServerDoneSupplied
<1> QED
  BY <1>7, <1>8, <1>9, <1>10, <1>11, ServerReceivesOne

\* What arrives at the accepted socket or at the client stays on its way.
LEMMA ArrivalSupplied ==
  ASSUME OneWay, StreamIInv, IInv', [Next]_vars, Untouched, OneSocket, Supplied,
         \/ ClientArrival
         \/ /\ ServerArrival /\ Arrival(sender, recver)
            /\ Destination(recver, Head(wire[sender][recver])) = ServerFd
  PROVE  Supplied'
<1> USE DEF StreamIInv, StreamInv, IInv
<1>1. /\ FirstFd \in Fd /\ ServerFd \in Fd /\ ServerFd # FirstFd
      /\ sender \in Host /\ recver \in Host /\ sender # recver
  BY Hypothesis
<1>2. ClientSock' = ClientSock /\ app'[sender] = app[sender] /\ rx' = rx
  BY ArrivalGrows DEF KeepsClient, ClientSock, ClientFd
<1>3. Pending(sender)' \subseteq Pending(sender)
  BY <1>1, ArrivalPending DEF ClientArrival, ServerArrival
<1>4. faults' = faults
  BY Zenon DEF ClientArrival, ServerArrival, Arrival
<1>5. CASE ClientArrival
  <2>1. PICK g \in Host : Arrives(g, sender) /\ KeepsServer
    BY <1>5, Zenon DEF ClientArrival, Arrival
  <2>2. wire'[sender][recver] = wire[sender][recver]
    BY <1>1, <2>1 DEF Arrives, TypeOK
  <2>3. Line' = Line
    BY <2>1, <2>2 DEF Line, LineOf, HandOf, KeepsServer
  <2> QED
    BY <1>2, <1>3, <1>4, <2>3, SameLineSupplied
<1>6. CASE /\ ServerArrival /\ Arrival(sender, recver)
           /\ Destination(recver, Head(wire[sender][recver])) = ServerFd
  <2>1. Line' = Line
    BY <1>1, <1>6, LineArrives, Zenon DEF Line
  <2> QED
    BY <1>2, <1>3, <1>4, <2>1, SameLineSupplied
<1> QED
  BY <1>5, <1>6

\* What the fault does to a wire it does to the line that ends with it.
LEMMA HarmedBehind ==
  ASSUME NEW S, NEW u \in Seq(S), NEW w \in Seq(S), NEW w2 \in Seq(S), NEW k \in Nat,
         Harmed(w, w2, k)
  PROVE  Harmed(u \o w, u \o w2, k + Len(u))
<1>1. PICK a, b, n : a = u \o w /\ b = u \o w2 /\ n = Len(u)
  BY Zenon
<1>2. /\ Len(a) = n + Len(w) /\ Len(b) = n + Len(w2) /\ n \in Nat
      /\ Len(w) \in Nat /\ Len(w2) \in Nat
      /\ \A i \in 1 .. n : a[i] = u[i] /\ b[i] = u[i]
      /\ \A i \in (n + 1) .. (n + Len(w)) : a[i] = w[i - n]
      /\ \A i \in (n + 1) .. (n + Len(w2)) : b[i] = w2[i - n]
  BY <1>1, Appended
<1>3. \A i \in 1 .. Len(w2) : n + i \in 1 .. Len(b) /\ b[n + i] = w2[i]
  <2>1. ASSUME NEW i \in 1 .. Len(w2) PROVE n + i \in 1 .. Len(b) /\ b[n + i] = w2[i]
    <3>1. n + i \in (n + 1) .. (n + Len(w2)) /\ (n + i) - n = i /\ n + i \in 1 .. Len(b)
      BY <1>2
    <3> QED
      BY <1>2, <3>1
  <2> QED
    BY <2>1
<1>4. \A i \in 1 .. Len(w) : n + i \in 1 .. Len(a) /\ a[n + i] = w[i]
  <2>1. ASSUME NEW i \in 1 .. Len(w) PROVE n + i \in 1 .. Len(a) /\ a[n + i] = w[i]
    <3>1. n + i \in (n + 1) .. (n + Len(w)) /\ (n + i) - n = i /\ n + i \in 1 .. Len(a)
      BY <1>2
    <3> QED
      BY <1>2, <3>1
  <2> QED
    BY <2>1
<1>5. ASSUME NEW j \in 1 .. Len(b)
      PROVE  \E i \in 1 .. Len(a) :
               /\ b[j] = a[i]
               /\ \A e \in 1 .. (i - 1) : e # k + n =>
                    \E d \in 1 .. (j - 1) : b[d] = a[e]
  <2>1. CASE j <= n
    <3>1. j \in 1 .. Len(a) /\ b[j] = a[j] /\ \A e \in 1 .. (j - 1) : b[e] = a[e]
      BY <1>2, <2>1
    <3> QED
      BY <3>1
  <2>2. CASE ~(j <= n)
    <3>1. PICK j0 : j0 = j - n
      OBVIOUS
    <3>2. j0 \in 1 .. Len(w2) /\ j = n + j0 /\ b[j] = w2[j0]
      BY <1>2, <2>2, <3>1
    <3>3. PICK i0 \in 1 .. Len(w) :
            /\ w2[j0] = w[i0]
            /\ \A e \in 1 .. (i0 - 1) : e # k =>
                 \E d \in 1 .. (j0 - 1) : w2[d] = w[e]
      BY <3>2 DEF Harmed
    <3>4. n + i0 \in 1 .. Len(a) /\ b[j] = a[n + i0]
      BY <1>4, <3>2, <3>3
    <3>5. ASSUME NEW e \in 1 .. ((n + i0) - 1), e # k + n
          PROVE  \E d \in 1 .. (j - 1) : b[d] = a[e]
      <4>1. CASE e <= n
        <5>1. e \in 1 .. (j - 1) /\ b[e] = a[e]
          BY <1>2, <2>2, <4>1
        <5> QED
          BY <5>1
      <4>2. CASE ~(e <= n)
        <5>1. PICK e0 : e0 = e - n
          OBVIOUS
        <5>2. e0 \in 1 .. (i0 - 1) /\ e0 # k /\ e = n + e0 /\ e0 \in 1 .. Len(w)
          BY <1>2, <3>5, <4>2, <5>1
        <5>3. PICK d0 \in 1 .. (j0 - 1) : w2[d0] = w[e0]
          BY <3>3, <5>2
        <5>4. d0 \in 1 .. Len(w2) /\ n + d0 \in 1 .. (j - 1)
          BY <1>2, <3>2
        <5>5. b[n + d0] = a[e]
          BY <1>3, <1>4, <5>2, <5>3, <5>4
        <5> QED
          BY <5>4, <5>5
      <4> QED
        BY <4>1, <4>2
    <3> QED
      BY <3>4, <3>5
  <2> QED
    BY <2>1, <2>2
<1>6. ASSUME NEW e \in 1 .. Len(a), e # k + n
      PROVE  \E d \in 1 .. Len(b) : b[d] = a[e]
  <2>1. CASE e <= n
    <3>1. e \in 1 .. Len(b) /\ b[e] = a[e]
      BY <1>2, <2>1
    <3> QED
      BY <3>1
  <2>2. CASE ~(e <= n)
    <3>1. PICK e0 : e0 = e - n
      OBVIOUS
    <3>2. e0 \in 1 .. Len(w) /\ e0 # k /\ e = n + e0
      BY <1>2, <1>6, <2>2, <3>1
    <3>3. PICK d0 \in 1 .. Len(w2) : w2[d0] = w[e0]
      BY <3>2 DEF Harmed
    <3>4. n + d0 \in 1 .. Len(b) /\ b[n + d0] = a[e]
      BY <1>3, <1>4, <3>2, <3>3
    <3> QED
      BY <3>4
  <2> QED
    BY <2>1, <2>2
<1>7. Harmed(a, b, k + n)
  BY <1>5, <1>6 DEF Harmed
<1> QED
  BY <1>1, <1>7

\* The three faults, at a place of the wire that they harm.
LEMMA FaultHarms ==
  ASSUME TypeOK, NEW g \in Host, NEW h \in Host,
         Lose(g, h) \/ Duplicate(g, h) \/ Reorder(g, h),
         NEW e \in Host, NEW f \in Host
  PROVE  \E k \in Nat : Harmed(wire[e][f], wire'[e][f], k)
<1>1. PICK w, v : w = wire[e][f] /\ v = wire'[e][f]
  BY Zenon
<1>2. w \in Seq(SafePacket) /\ DOMAIN w = 1 .. Len(w) /\ Len(w) \in Nat
  BY <1>1, WireType
<1>3. CASE v = w
  <2>1. Harmed(w, v, 0)
    BY <1>3 DEF Harmed
  <2> QED
    BY <1>1, <2>1
<1>4. CASE e = g /\ f = h
  <2>1. CASE Lose(g, h)
    <3>1. PICK m \in 1 .. Len(w) : wire' = [wire EXCEPT ![g][h] = RemoveAt(@, m)]
      BY <1>1, <1>2, <1>4, <2>1, Zenon DEF Lose
    <3>2. v = RemoveAt(w, m)
      BY <1>1, <1>4, <3>1, SMTT(40) DEF TypeOK
    <3>3. /\ Len(v) = Len(w) - 1
          /\ \A i \in 1 .. (Len(w) - 1) : v[i] = IF i < m THEN w[i] ELSE w[i + 1]
      BY <1>2, <3>2, Removed
    <3>4. ASSUME NEW j \in 1 .. Len(v)
          PROVE  \E i \in 1 .. Len(w) :
                   /\ v[j] = w[i]
                   /\ \A x \in 1 .. (i - 1) : x # m => \E d \in 1 .. (j - 1) : v[d] = w[x]
      <4>1. CASE j < m
        <5>1. j \in 1 .. Len(w) /\ v[j] = w[j]
              /\ \A x \in 1 .. (j - 1) : v[x] = w[x]
          BY <1>2, <3>3, <4>1
        <5> QED
          BY <5>1
      <4>2. CASE ~(j < m)
        <5>1. j + 1 \in 1 .. Len(w) /\ v[j] = w[j + 1]
          BY <1>2, <3>3, <4>2
        <5>2. ASSUME NEW x \in 1 .. ((j + 1) - 1), x # m
              PROVE  \E d \in 1 .. (j - 1) : v[d] = w[x]
          <6>1. CASE x < m
            <7>1. x \in 1 .. (j - 1) /\ v[x] = w[x]
              BY <1>2, <3>3, <4>2, <6>1
            <7> QED
              BY <7>1
          <6>2. CASE ~(x < m)
            <7>1. /\ x - 1 \in 1 .. (Len(w) - 1) /\ ~(x - 1 < m) /\ (x - 1) + 1 = x
                  /\ x - 1 \in 1 .. (j - 1)
              BY <1>2, <3>3, <5>2, <6>2
            <7>2. v[x - 1] = w[x]
              BY <3>3, <7>1
            <7> QED
              BY <7>1, <7>2
          <6> QED
            BY <6>1, <6>2
        <5> QED
          BY <5>1, <5>2
      <4> QED
        BY <4>1, <4>2
    <3>5. ASSUME NEW x \in 1 .. Len(w), x # m PROVE \E d \in 1 .. Len(v) : v[d] = w[x]
      <4>1. CASE x < m
        <5>1. x \in 1 .. Len(v) /\ v[x] = w[x]
          BY <1>2, <3>3, <4>1
        <5> QED
          BY <5>1
      <4>2. CASE ~(x < m)
        <5>1. /\ x - 1 \in 1 .. (Len(w) - 1) /\ x - 1 \in 1 .. Len(v)
              /\ ~(x - 1 < m) /\ (x - 1) + 1 = x
          BY <1>2, <3>3, <3>5, <4>2
        <5>2. v[x - 1] = w[x]
          BY <3>3, <5>1
        <5> QED
          BY <5>1, <5>2
      <4> QED
        BY <4>1, <4>2
    <3>6. Harmed(w, v, m) /\ m \in Nat
      BY <3>4, <3>5 DEF Harmed
    <3> QED
      BY <1>1, <3>6
  <2>2. CASE Duplicate(g, h)
    <3>1. PICK m \in 1 .. Len(w) : wire' = [wire EXCEPT ![g][h] = Append(@, w[m])]
      BY <1>1, <1>2, <1>4, <2>2, Zenon DEF Duplicate
    <3>2. v = Append(w, w[m])
      BY <1>1, <1>4, <3>1 DEF TypeOK
    <3>3. /\ Len(v) = Len(w) + 1 /\ v[Len(w) + 1] = w[m]
          /\ \A i \in 1 .. Len(w) : v[i] = w[i]
      BY <1>2, <3>2
    <3>4. ASSUME NEW j \in 1 .. Len(v)
          PROVE  \E i \in 1 .. Len(w) :
                   /\ v[j] = w[i]
                   /\ \A x \in 1 .. (i - 1) : x # 0 => \E d \in 1 .. (j - 1) : v[d] = w[x]
      <4>1. CASE j <= Len(w)
        <5>1. j \in 1 .. Len(w) /\ v[j] = w[j] /\ \A x \in 1 .. (j - 1) : v[x] = w[x]
          BY <1>2, <3>3, <4>1
        <5> QED
          BY <5>1
      <4>2. CASE ~(j <= Len(w))
        <5>1. /\ j = Len(w) + 1 /\ v[j] = w[m]
              /\ \A x \in 1 .. (m - 1) : x \in 1 .. (j - 1) /\ v[x] = w[x]
          BY <1>2, <3>3, <4>2
        <5> QED
          BY <5>1
      <4> QED
        BY <4>1, <4>2
    <3>5. \A x \in 1 .. Len(w) : x \in 1 .. Len(v) /\ v[x] = w[x]
      BY <1>2, <3>3
    <3>6. Harmed(w, v, 0)
      BY <3>4, <3>5 DEF Harmed
    <3> QED
      BY <1>1, <3>6
  <2>3. CASE Reorder(g, h)
    <3>1. PICK m \in 1 .. Len(w) :
            /\ m + 1 \in 1 .. Len(w)
            /\ wire' = [wire EXCEPT ![g][h][m] = w[m + 1], ![g][h][m + 1] = w[m]]
      BY <1>1, <1>2, <1>4, <2>3, Zenon DEF Reorder
    <3>2. v = [w EXCEPT ![m] = w[m + 1], ![m + 1] = w[m]]
      BY <1>1, <1>4, <3>1, Zenon DEF TypeOK
    <3>3. /\ Len(v) = Len(w) /\ v[m] = w[m + 1] /\ v[m + 1] = w[m]
          /\ \A i \in 1 .. Len(w) : i # m /\ i # m + 1 => v[i] = w[i]
      BY <1>2, <3>1, <3>2
    <3>4. ASSUME NEW j \in 1 .. Len(v)
          PROVE  \E i \in 1 .. Len(w) :
                   /\ v[j] = w[i]
                   /\ \A x \in 1 .. (i - 1) : x # m => \E d \in 1 .. (j - 1) : v[d] = w[x]
      <4>1. CASE j < m
        <5>1. j \in 1 .. Len(w) /\ v[j] = w[j] /\ \A x \in 1 .. (j - 1) : v[x] = w[x]
          BY <1>2, <3>3, <4>1
        <5> QED
          BY <5>1
      <4>2. CASE j = m
        <5>1. /\ m + 1 \in 1 .. Len(w) /\ v[j] = w[m + 1]
              /\ \A x \in 1 .. ((m + 1) - 1) : x # m => x \in 1 .. (j - 1) /\ v[x] = w[x]
          BY <1>2, <3>1, <3>3, <4>2
        <5> QED
          BY <5>1
      <4>3. CASE j = m + 1
        <5>1. m \in 1 .. Len(w) /\ v[j] = w[m] /\ j - 1 = m
          BY <1>2, <3>1, <3>3, <4>3
        <5>2. ASSUME NEW x \in 1 .. (m - 1) PROVE x \in 1 .. (j - 1) /\ v[x] = w[x]
          <6>1. x \in 1 .. Len(w) /\ x # m /\ x # m + 1 /\ x \in 1 .. m
            BY <1>2, <3>1, <5>1
          <6> QED
            BY <3>3, <5>1, <6>1
        <5> QED
          BY <5>1, <5>2
      <4>4. CASE j > m + 1
        <5>1. j \in 1 .. Len(w) /\ v[j] = w[j]
          BY <1>2, <3>3, <4>4
        <5>2. ASSUME NEW x \in 1 .. (j - 1), x # m
              PROVE  \E d \in 1 .. (j - 1) : v[d] = w[x]
          <6>1. CASE x = m + 1
            BY <3>3, <4>4, <6>1
          <6>2. CASE x # m + 1
            <7>1. x \in 1 .. Len(w) /\ v[x] = w[x]
              BY <1>2, <3>3, <5>2, <6>2
            <7> QED
              BY <7>1
          <6> QED
            BY <6>1, <6>2
        <5> QED
          BY <5>1, <5>2
      <4> QED
        BY <1>2, <3>1, <3>3, <4>1, <4>2, <4>3, <4>4
    <3>5. ASSUME NEW x \in 1 .. Len(w), x # m PROVE \E d \in 1 .. Len(v) : v[d] = w[x]
      <4>1. CASE x = m + 1
        BY <3>1, <3>3, <4>1
      <4>2. CASE x # m + 1
        BY <3>3, <3>5, <4>2
      <4> QED
        BY <4>1, <4>2
    <3>6. Harmed(w, v, m) /\ m \in Nat
      BY <3>4, <3>5 DEF Harmed
    <3> QED
      BY <1>1, <3>6
  <2> QED
    BY <2>1, <2>2, <2>3
<1>5. CASE ~(e = g /\ f = h)
  <2>1. \E z : wire' = [wire EXCEPT ![g][h] = z]
    <3>1. CASE Lose(g, h)
      BY <3>1, Zenon DEF Lose
    <3>2. CASE Duplicate(g, h)
      BY <3>2, Zenon DEF Duplicate
    <3>3. CASE Reorder(g, h)
      <4>1. PICK m \in DOMAIN wire[g][h] :
              wire' = [wire EXCEPT ![g][h][m] = wire[g][h][m + 1],
                                   ![g][h][m + 1] = wire[g][h][m]]
        BY <3>3, Zenon DEF Reorder
      <4>2. wire' = [wire EXCEPT ![g][h] =
                       [wire[g][h] EXCEPT ![m] = wire[g][h][m + 1],
                                          ![m + 1] = wire[g][h][m]]]
        BY <4>1, Zenon DEF TypeOK
      <4> QED
        BY <4>2
    <3> QED
      BY <3>1, <3>2, <3>3
  <2>2. v = w
    BY <1>1, <1>5, <2>1 DEF TypeOK
  <2> QED
    BY <1>3, <2>2
<1> QED
  BY <1>4, <1>5

\* One fault of the network leaves of each byte one of the two packets that bring
\* it.
LEMMA FaultySupplied ==
  ASSUME OneWay, MaxFaults <= 1, StreamIInv, IInv', [Next]_vars, Untouched, OneSocket,
         Supplied, Faulty
  PROVE  OneSocket' /\ Supplied'
<1> USE DEF StreamIInv, StreamInv, IInv
<1>1. /\ sender \in Host /\ recver \in Host /\ FirstFd \in Fd /\ ServerFd \in Fd
      /\ MaxFaults \in Nat
  BY Hypothesis, TcpAssumption DEF TcpAssumption
<1>2. PICK g \in Host, h \in Host : Lose(g, h) \/ Duplicate(g, h) \/ Reorder(g, h)
  BY Zenon DEF Faulty
<1>3. /\ UNCHANGED <<sock, queue, app, rx>> /\ faults < MaxFaults /\ faults' = faults + 1
      /\ faults \in Nat
  <2>1. /\ UNCHANGED <<sock, queue, app, rx>> /\ faults < MaxFaults
        /\ faults' = faults + 1
    BY <1>2, Zenon DEF Lose, Duplicate, Reorder, Fault
  <2>2. faults \in Nat
    BY <1>1 DEF TypeOK
  <2> QED
    BY <2>1, <2>2
<1>4. faults = 0 /\ faults' # 0
  BY <1>1, <1>3
<1>5. OneSocket'
  <2>1. PICK v : v = wire'[recver][recver]
    BY Zenon
  <2>2. v \in Seq(SafePacket)
    BY <1>1, <2>1 DEF TypeOK
  <2>3. ASSUME NEW i \in DOMAIN v PROVE FALSE
    <3>1. PICK p : p = wire'[recver][recver][i]
      BY Zenon
    <3>2. i \in DOMAIN wire'[recver][recver]
      BY <2>1, <2>3
    <3>3. \E j \in DOMAIN wire[recver][recver] : p = wire[recver][recver][j]
      <4>1. TypeOK
        OBVIOUS
      <4> HIDE DEF StreamIInv, StreamInv, IInv
      <4> QED
        BY <1>1, <1>2, <3>1, <3>2, <4>1, FaultWire
    <3> QED
      BY <3>3 DEF OneSocket
  <2>4. v = <<>>
    <3>1. DOMAIN v = 1 .. Len(v) /\ Len(v) \in Nat
      BY <2>2
    <3>2. Len(v) = 0
      BY <2>3, <3>1
    <3> QED
      BY <2>2, <3>2
  <2> QED
    BY <1>3, <2>1, <2>4 DEF OneSocket, ListenSock, ServerSock, Accepts
<1>6. PICK a, b, w, w2, u : /\ a = HandOf(recver) /\ b = queue[recver][ServerFd]
                            /\ w = wire[sender][recver] /\ w2 = wire'[sender][recver]
                            /\ u = a \o b
  BY Zenon
<1>7. /\ a \in Seq(SafePacket) /\ b \in Seq(SafePacket) /\ w \in Seq(SafePacket)
      /\ w2 \in Seq(SafePacket) /\ u \in Seq(SafePacket)
  <2>1. a \in Seq(SafePacket) /\ b \in Seq(SafePacket) /\ w \in Seq(SafePacket)
    BY <1>1, <1>6, LineParts
  <2>2. w2 \in Seq(SafePacket)
    BY <1>1, <1>6, SMTT(40) DEF TypeOK
  <2> QED
    BY <1>6, <2>1, <2>2, ConcatProperties
<1>8. Line = u \o w /\ Line' = u \o w2
  <2>1. Line = a \o (b \o w) /\ Line' = a \o (b \o w2)
    BY <1>3, <1>6 DEF Line, LineOf, HandOf
  <2>2. a \o (b \o w) = (a \o b) \o w
    BY <1>7, SMTT(40)
  <2>3. a \o (b \o w2) = (a \o b) \o w2
    BY <1>7, SMTT(40)
  <2> QED
    BY <1>6, <2>1, <2>2, <2>3
<1>9. PICK k \in Nat : Harmed(w, w2, k)
  BY <1>1, <1>2, <1>6, FaultHarms
<1>10. PICK line, line2 : line = u \o w /\ line2 = u \o w2
  BY Zenon
<1>11. line \in Seq(SafePacket) /\ line2 \in Seq(SafePacket)
       /\ Harmed(line, line2, k + Len(u))
  <2>1. line \in Seq(SafePacket) /\ line2 \in Seq(SafePacket)
    BY <1>7, <1>10
  <2>2. Harmed(line, line2, k + Len(u))
    BY <1>7, <1>9, <1>10, HarmedBehind
  <2> QED
    BY <2>1, <2>2
<1>12. PICK M : M = Missing
  BY Zenon
<1>13. Missing' = M
  BY <1>3, <1>12 DEF Missing, Acknowledged, ClientSock, ClientFd, ServerSock
<1>14. Intact(line, TRUE, M)
  <2>1. (faults = 0) = TRUE
    BY <1>4
  <2> QED
    BY <1>8, <1>10, <1>12, <2>1 DEF Supplied
<1>15. /\ Intact(line2, FALSE, M)
       /\ \A x : Brought(line, Len(line), TRUE, x) =>
                  Brought(line2, Len(line2), FALSE, x)
  <2> HIDE DEF StreamIInv, StreamInv, IInv
  <2> QED
    BY <1>11, <1>14, IntactHarmed
<1>16. Intact(Line', faults' = 0, Missing')
  <2>1. (faults' = 0) = FALSE
    BY <1>4
  <2> QED
    BY <1>8, <1>10, <1>13, <1>15, <2>1
<1>17. \A x : Ahead(TRUE, x) => Ahead(FALSE, x)'
  BY <1>8, <1>10, <1>15 DEF Ahead
<1>18. /\ ClientSock' = ClientSock /\ app' = app
       /\ Stuck' <=> Stuck
       /\ Begin' = Begin /\ Call(sender)' = Call(sender)
       /\ \A x : Due(x)' <=> Due(x)
  <2>1. ClientSock' = ClientSock
    BY <1>3 DEF ClientSock, ClientFd
  <2> QED
    BY <1>3, <2>1 DEF Stuck, Begin, Call, Due, Sending
<1>19. DueAhead'
  <2>1. \A x \in M : Due(x) => Ahead(TRUE, x) \/ Stuck
    BY <1>4, <1>12 DEF Supplied, DueTwice
  <2> QED
    BY <1>4, <1>13, <1>17, <1>18, <2>1 DEF DueAhead
<1>20. DueTwice' /\ NextAhead'
  BY <1>4 DEF DueTwice, NextAhead
<1>21. ShortReturns'
  BY <1>12, <1>13, <1>18 DEF Supplied, ShortReturns
<1>22. AcksBelow'
  <2>1. Pending(sender)' \subseteq Pending(sender)
    BY <1>1, <1>2, FaultPending
  <2> QED
    BY <2>1, AcksBelowNext DEF Supplied
<1> QED
  BY <1>5, <1>16, <1>19, <1>20, <1>21, <1>22 DEF Supplied

\* The client has connected a second time for the server, which gives all but the
\* SYN to the listening socket from then on: only what is in the accepted one's
\* queue will be read.
Diverted == app[recver].ip > 3 /\ ListenSock.remote = cport

Queued ==
  (IF rx[recver].pc = "react" /\ rx[recver].fd = ServerFd THEN <<rx[recver].pkt>>
   ELSE <<>>)
    \o queue[recver][ServerFd]

Aside == Diverted /\ Intact(Queued, FALSE, Missing)

\* What is queued for the accepted socket is pending.
LEMMA QueuedPending ==
  ASSUME OneWay, TypeOK
  PROVE  /\ Queued \in Seq(SafePacket)
         /\ \A j \in 1 .. Len(Queued) : Queued[j] \in Pending(recver)
<1>1. recver \in Host /\ ServerFd \in Fd
  BY Hypothesis
<1>2. PICK a, b : /\ a = (IF rx[recver].pc = "react" /\ rx[recver].fd = ServerFd
                          THEN <<rx[recver].pkt>> ELSE <<>>)
                  /\ b = queue[recver][ServerFd]
  BY Zenon
<1>3. a \in Seq(SafePacket) /\ b \in Seq(SafePacket)
  BY <1>1, <1>2 DEF TypeOK, RxThread
<1>4. /\ \A i \in 1 .. Len(a) : a[i] \in Pending(recver)
      /\ \A i \in 1 .. Len(b) : b[i] \in Pending(recver)
  <2>1. \A i \in 1 .. Len(a) : rx[recver].pc # "pop" /\ a[i] = rx[recver].pkt
    BY <1>2
  <2>2. DOMAIN b = 1 .. Len(b)
    BY <1>3
  <2> QED
    BY <1>1, <1>2, <2>1, <2>2, PendingIs
<1>5. PICK d : d = a \o b
  BY Zenon
<1>6. /\ Len(d) = Len(a) + Len(b) /\ Len(a) \in Nat /\ Len(b) \in Nat
      /\ \A k \in 1 .. Len(a) : d[k] = a[k]
      /\ \A k \in (Len(a) + 1) .. (Len(a) + Len(b)) : d[k] = b[k - Len(a)]
  BY <1>3, <1>5, Appended
<1>7. ASSUME NEW i \in 1 .. Len(d) PROVE d[i] \in Pending(recver)
  <2>1. CASE i <= Len(a)
    BY <1>4, <1>6, <2>1
  <2>2. CASE ~(i <= Len(a))
    <3>1. i \in (Len(a) + 1) .. (Len(a) + Len(b)) /\ i - Len(a) \in 1 .. Len(b)
      BY <1>6, <2>2
    <3> QED
      BY <1>4, <1>6, <3>1
  <2> QED
    BY <2>1, <2>2
<1>8. d \in Seq(SafePacket)
  BY <1>3, <1>5
<1> QED
  BY <1>2, <1>5, <1>7, <1>8 DEF Queued

\* processip takes from the accepted socket's queue what it then works on.
LEMMA QueuedPops ==
  ASSUME OneWay, TypeOK, Pops(recver)
  PROVE  Queued' = Queued
<1>1. recver \in Host /\ ServerFd \in Fd
  BY Hypothesis
<1>2. PICK b, c : b = queue[recver][ServerFd] /\ c = queue'[recver][ServerFd]
  BY Zenon
<1>3. b \in Seq(SafePacket)
  BY <1>1, <1>2 DEF TypeOK
<1>4. Queued = <<>> \o b
  BY <1>2, Zenon DEF Pops, Queued
<1>5. CASE rx'[recver].fd = ServerFd
  <2>1. b # <<>> /\ c = Tail(b) /\ Queued' = <<Head(b)>> \o c
    BY <1>2, <1>5 DEF Pops, Queued
  <2>2. <<Head(b)>> \o Tail(b) = <<>> \o b
    BY <1>3, <2>1
  <2> QED
    BY <1>4, <2>1, <2>2
<1>6. CASE rx'[recver].fd # ServerFd
  BY <1>1, <1>2, <1>4, <1>6, Zenon DEF Pops, Queued
<1> QED
  BY <1>5, <1>6

\* What it is done with was the first of them.
LEMMA QueuedDone ==
  ASSUME OneWay, TypeOK, rx[recver].pc = "react", rx'[recver].pc # "react",
         rx[recver].fd = ServerFd, queue' = queue
  PROVE  Queued # <<>> /\ Queued[1] = rx[recver].pkt /\ Queued' = Tail(Queued)
<1>1. recver \in Host /\ ServerFd \in Fd
  BY Hypothesis
<1>2. PICK b, p : b = queue[recver][ServerFd] /\ p = rx[recver].pkt
  BY Zenon
<1>3. b \in Seq(SafePacket) /\ p \in SafePacket
  BY <1>1, <1>2 DEF TypeOK, RxThread
<1>4. Queued = <<p>> \o b /\ Queued' = <<>> \o b
  BY <1>2 DEF Queued
<1>5. (<<p>> \o b) # <<>> /\ (<<p>> \o b)[1] = p /\ Tail(<<p>> \o b) = <<>> \o b
  BY <1>3
<1> QED
  BY <1>2, <1>4, <1>5

\* While nothing of the queue is taken it stays as whole as it was.
LEMMA QueuedSame ==
  ASSUME OneWay, StreamIInv, IInv', [Next]_vars, Untouched,
         Intact(Queued, FALSE, Missing), Queued' = Queued
  PROVE  Intact(Queued', FALSE, Missing')
<1>1. PICK line : line = Queued
  BY Zenon
<1>2. line \in Seq(SafePacket) /\ \A j \in 1 .. Len(line) : line[j] \in Pending(recver)
  BY <1>1, QueuedPending DEF StreamIInv, IInv
<1>3. Intact(line, FALSE, Missing')
  BY <1>1, <1>2, IntactNext
<1> QED
  BY <1>1, <1>3

\* A step that does not take from it.
LEMMA AsideSame ==
  ASSUME OneWay, StreamIInv, IInv', [Next]_vars, Untouched, Aside, NoneBelow,
         \/ ClientActs \/ ServerActs \/ ClientReceives \/ ClientArrival \/ Faulty
         \/ UNCHANGED vars
  PROVE  Aside' /\ NoneBelow'
<1> USE DEF StreamIInv, StreamInv, IInv
<1>1. /\ FirstFd \in Fd /\ ServerFd \in Fd /\ ServerFd # FirstFd /\ recver \in Host
      /\ app[recver].ip \in Nat /\ app[recver].ip > 3
  BY Hypothesis DEF TypeOK, AppThread, Aside, Diverted
<1>2. ASSUME queue'[recver] = queue[recver], rx'[recver] = rx[recver],
             ListenSock'.remote = ListenSock.remote, app'[recver].ip > 3,
             ServerSock'.sizep = ServerSock.sizep
      PROVE  Aside' /\ NoneBelow'
  <2>1. Queued' = Queued
    BY <1>2 DEF Queued
  <2> QED
    BY <1>2, <2>1, QueuedSame, NoneBelowNext DEF Aside, Diverted
<1>3. CASE ClientActs \/ ClientReceives \/ ClientArrival
  <2>1. KeepsServer
    BY <1>3, Zenon DEF ClientActs, ClientReceives, ClientArrival
  <2> QED
    BY <1>1, <1>2, <2>1 DEF KeepsServer, ListenSock, ServerSock
<1>4. CASE Faulty
  <2>1. UNCHANGED <<sock, queue, app, rx>>
    BY <1>4, Zenon DEF Faulty, Lose, Duplicate, Reorder, Fault
  <2> QED
    BY <1>1, <1>2, <2>1 DEF ListenSock, ServerSock
<1>5. CASE UNCHANGED vars
  BY <1>1, <1>2, <1>5 DEF vars, ListenSock, ServerSock
<1>6. CASE ServerActs
  <2>1. ServerStep /\ ServerFrame
    BY <1>6 DEF ServerActs, ServerStep
  <2>2. ~(ServerSocket \/ ServerBinds \/ ServerAccepts \/ ServerDemotes
          \/ ServerPromotes \/ ServerAwaitsAck \/ ServerAccepted)
    BY <1>1 DEF ServerSocket, ServerBinds, ServerAccepts, ServerDemotes, ServerPromotes,
                ServerAwaitsAck, ServerAccepted
  <2>3. CASE ServerWaits \/ ServerReads \/ ServerCloses \/ ServerClosed
    <3>1. sock' = sock /\ app'[recver].ip \in {app[recver].ip, app[recver].ip + 1}
      BY <2>3 DEF ServerWaits, ServerReads, ServerCloses, ServerClosed, ServerMoves, AppTo
    <3> QED
      BY <1>1, <1>2, <2>1, <3>1 DEF ServerFrame, ListenSock, ServerSock
  <2>4. CASE ServerHasRead
    <3>1. /\ app'[recver].ip = app[recver].ip + 1 /\ ListenSock' = ListenSock
          /\ ServerSock'.sizep = ServerSock.sizep
      BY <1>1, <2>4 DEF ServerHasRead, AppTo, OnlySock, SameBuffer, ListenSock
    <3> QED
      BY <1>1, <1>2, <2>1, <3>1 DEF ServerFrame
  <2> QED
    BY <2>1, <2>2, <2>3, <2>4 DEF ServerStep
<1> QED
  BY <1>3, <1>4, <1>5, <1>6

\* processip at either socket.
LEMMA AsideReceives ==
  ASSUME OneWay, StreamIInv, IInv', [Next]_vars, Untouched, Aside, NoneBelow,
         ServerReceives
  PROVE  Aside' /\ NoneBelow'
<1> USE DEF StreamIInv, StreamInv, IInv
<1>1. /\ FirstFd \in Fd /\ ServerFd \in Fd /\ ServerFd # FirstFd /\ recver \in Host
      /\ app[recver].ip \in Nat /\ app[recver].ip > 3 /\ ~Accepts
  <2>1. /\ FirstFd \in Fd /\ ServerFd \in Fd /\ ServerFd # FirstFd /\ recver \in Host
        /\ app[recver].ip \in Nat /\ app[recver].ip > 3
    BY Hypothesis DEF TypeOK, AppThread, Aside, Diverted
  <2> QED
    BY <2>1 DEF Accepts
<1>2. RxMoves(recver) /\ KeepsClient /\ rx'[recver].fd \in {FirstFd, ServerFd}
  BY DEF ServerReceives
<1>3. app'[recver].ip = app[recver].ip
  BY <1>2, Zenon
  DEF RxMoves, Pops, Reacts, Stores, Ignores, StoresData, Acks, Notified, AppTo
<1>4. ~(Acks(recver) /\ RxSock(recver).role # "server")
  BY <1>1, <1>2 DEF Acks, Idles, RxSock, ServerInv, IsServer, ServerSock, ListenSock
<1>5. ListenSock'.remote = ListenSock.remote
  <2>1. ListenSock' = ListenSock \/ SameEnds(ListenSock', ListenSock)
    BY <1>1, <1>2, <1>4, Zenon
    DEF RxMoves, Pops, Reacts, Stores, Ignores, StoresData, Idles, OnlySock, ListenSock
  <2> QED
    BY <2>1 DEF SameEnds
<1>6. ASSUME Queued' = Queued, ServerSock'.sizep = ServerSock.sizep
      PROVE  Aside' /\ NoneBelow'
  BY <1>1, <1>3, <1>5, <1>6, QueuedSame, NoneBelowNext DEF Aside, Diverted
<1>7. Missing' \subseteq Missing
  <2>1. ClientSock' = ClientSock
    BY <1>2 DEF KeepsClient, ClientSock, ClientFd
  <2> QED
    BY <2>1, MissingNext
<1>8. ASSUME rx[recver].pc = "react", rx'[recver].pc # "react", queue' = queue,
             rx[recver].fd = ServerFd, NoneBelow',
             \A x \in Missing' : ~Covers(rx[recver].pkt, x)
      PROVE  Aside' /\ NoneBelow'
  <2>1. Queued # <<>> /\ Queued[1] = rx[recver].pkt /\ Queued' = Tail(Queued)
    BY <1>8, QueuedDone
  <2>2. PICK line, M, N : line = Queued /\ M = Missing /\ N = Missing'
    BY Zenon
  <2>3. line \in Seq(SafePacket) /\ Intact(line, FALSE, M)
    BY <2>2, QueuedPending DEF Aside
  <2>4. N \subseteq M /\ line # <<>> /\ \A x \in N : ~Covers(line[1], x)
    BY <1>7, <1>8, <2>1, <2>2
  <2>5. Intact(Tail(line), FALSE, N)
    <3> HIDE DEF StreamIInv, StreamInv, IInv
    <3> QED
      BY <2>3, <2>4, IntactShrinks
  <2> QED
    BY <1>1, <1>3, <1>5, <1>8, <2>1, <2>2, <2>5 DEF Aside, Diverted
<1>9. CASE Pops(recver)
  <2>1. ServerSock' = ServerSock
    BY <1>9 DEF Pops, ServerSock
  <2> QED
    BY <1>6, <1>9, <2>1, QueuedPops
<1>10. CASE Stores(recver)
  <2>1. Queued' = Queued
    BY <1>10 DEF Stores, Idles, Queued
  <2>2. ServerSock'.sizep = ServerSock.sizep
    BY <1>1, <1>2, <1>10 DEF Stores, Idles, SameStream, OnlySock, ServerSock
  <2> QED
    BY <1>6, <2>1, <2>2
<1>11. CASE Reacts(recver) \/ Ignores(recver)
  <2>1. /\ rx[recver].pc = "react" /\ rx'[recver].pc # "react" /\ queue' = queue
        /\ rx'[recver].fd = rx[recver].fd /\ ServerSock' = ServerSock
    BY <1>11, Zenon DEF Reacts, Ignores, Idles, ServerSock
  <2>2. \A x : ~Covers(rx[recver].pkt, x)
    <3>1. rx[recver].pkt.kind # "DATA"
      BY <1>11, SMTT(40) DEF Reacts, Ignores, Rules, Rule
    <3> QED
      BY <3>1 DEF Covers
  <2>3. NoneBelow'
    BY <2>1, NoneBelowNext
  <2>4. CASE rx[recver].fd = ServerFd
    BY <1>8, <2>1, <2>2, <2>3, <2>4
  <2>5. CASE rx[recver].fd # ServerFd
    <3>1. Queued' = Queued
      BY <2>1, <2>5 DEF Queued
    <3> QED
      BY <1>6, <2>1, <3>1
  <2> QED
    BY <2>4, <2>5
<1>12. CASE StoresData(recver)
  <2>1. /\ rx[recver].pc = "react" /\ rx'[recver].pc # "react" /\ queue' = queue
        /\ rx'[recver].fd = rx[recver].fd /\ rx[recver].pkt.kind = "DATA"
    BY <1>12, Zenon DEF StoresData, Idles
  <2>2. CASE rx[recver].fd = ServerFd
    <3>1. Queued # <<>> /\ Queued[1] = rx[recver].pkt
      BY <2>1, <2>2, QueuedDone
    <3>2. \A x \in Missing : ~(x < rx[recver].pkt.seq)
      <4>1. Queued \in Seq(SafePacket) /\ Intact(Queued, FALSE, Missing)
        BY QueuedPending DEF Aside
      <4> QED
        BY <2>1, <3>1, <4>1, FirstIntact
    <3>3. NoneBelow' /\ \A x \in Missing' : ~Covers(rx[recver].pkt, x)
      BY <1>2, <1>12, <2>2, <3>2, StoredWhole
    <3> QED
      BY <1>8, <2>1, <2>2, <3>3
  <2>3. CASE rx[recver].fd # ServerFd
    <3>1. Queued' = Queued
      BY <2>1, <2>3 DEF Queued
    <3>2. ServerSock' = ServerSock
      BY <1>1, <1>12, <2>3 DEF StoresData, OnlySock, ServerSock
    <3> QED
      BY <1>6, <3>1, <3>2
  <2> QED
    BY <2>2, <2>3
<1> QED
  BY <1>2, <1>4, <1>9, <1>10, <1>11, <1>12 DEF RxMoves

\* The first descriptor is the least of the server's two.
LEMMA FirstIsLeast ==
  ASSUME NEW M, FirstFd \in M, M \subseteq {FirstFd, ServerFd},
         FirstFd \in Nat, ServerFd \in Nat, FirstFd < ServerFd
  PROVE  Min(M) = FirstFd
<1>1. M \in SUBSET (0 .. ServerFd) /\ M # {}
  OBVIOUS
<1>2. Min(M) \in M /\ \A y \in M : Min(M) <= y
  BY <1>1, MinOfBoundedSet, Zenon
<1>3. PICK m : m = Min(M)
  BY Zenon
<1>4. m \in {FirstFd, ServerFd} /\ m <= FirstFd
  BY <1>2, <1>3
<1> QED
  BY <1>3, <1>4

\* What arrives when the listening socket takes the client's packets.
LEMMA AsideArrival ==
  ASSUME OneWay, StreamIInv, IInv', [Next]_vars, Untouched, Aside, NoneBelow,
         ServerArrival
  PROVE  Aside' /\ NoneBelow'
<1> USE DEF StreamIInv, StreamInv, IInv
<1>1. /\ FirstFd \in Fd /\ ServerFd \in Fd /\ recver \in Host
      /\ FirstFd \in Nat /\ ServerFd = FirstFd + 1 /\ ServerFd # FirstFd
      /\ app[recver].ip \in Nat /\ app[recver].ip > 3 /\ ListenSock.remote = cport
  BY Hypothesis, SMTT(40) DEF TypeOK, AppThread, Aside, Diverted
<1>2. PICK g \in Host : Arrival(g, recver)
  BY Zenon DEF ServerArrival
<1>3. PICK w : w = wire[g][recver]
  BY ZenonT(40)
<1>4. w \in Seq(SafePacket) /\ w # <<>>
  BY <1>1, <1>2, <1>3, WireType DEF Arrival
<1>5. PICK p : p = Head(w)
  OBVIOUS
<1>6. PICK f : f = Destination(recver, p)
  BY Zenon
<1>7. /\ p \in SafePacket /\ p \in Pending(recver) /\ f \in Fd
      /\ \A e \in Fd : e # f => queue'[recver][e] = queue[recver][e]
      /\ queue'[recver][f] = Append(queue[recver][f], p)
      /\ UNCHANGED <<app, rx, faults>>
      /\ IF p.kind = "SYN"
         THEN /\ sock'[recver][f].remote = p.src
              /\ SameStream(sock'[recver][f], sock[recver][f])
              /\ OnlySock(recver, f)
         ELSE sock' = sock
  <2>1. p = w[1] /\ 1 \in DOMAIN w /\ p \in SafePacket
    BY <1>4, <1>5
  <2>2. p \in Pending(recver)
    BY <1>3, <2>1, PendingIs
  <2> QED
    BY <1>1, <1>2, <1>3, <1>5, <1>6, <2>1, <2>2, ZenonT(40) DEF Arrival
<1>8. FromClient(p)
  BY <1>7 DEF PacketsInv
<1>9. f \in {FirstFd, ServerFd}
  BY <1>6, <1>7, <1>8, ServerDestination
<1>10. CASE f = FirstFd
  <2>1. Queued' = Queued
    BY <1>1, <1>7, <1>10 DEF Queued
  <2>2. ServerSock' = ServerSock
    BY <1>1, <1>7, <1>10, Zenon DEF OnlySock, ServerSock
  <2>3. ListenSock'.remote = cport
    BY <1>1, <1>7, <1>8, <1>10 DEF FromClient, ListenSock
  <2> QED
    BY <1>1, <1>7, <2>1, <2>2, <2>3, QueuedSame, NoneBelowNext DEF Aside, Diverted
<1>11. CASE f = ServerFd
  <2>1. p.kind = "SYN"
    <3> SUFFICES ASSUME p.kind # "SYN" PROVE FALSE
      OBVIOUS
    <3>1. PICK M : M = Matching(recver, p)
      BY Zenon
    <3>2. M = {e \in Opened(recver) : sock[recver][e].local = sport
                                        /\ sock[recver][e].remote = cport}
      BY <1>8, <3>1 DEF Matching, FromClient
    <3>3. FirstFd \in M /\ M \subseteq {FirstFd, ServerFd}
      <4>1. FirstFd \in Opened(recver) /\ Opened(recver) \subseteq {FirstFd, ServerFd}
        BY <1>1, ServerSockets
      <4>2. ListenSock.local = sport
        BY <1>1 DEF ServerInv, IsServer
      <4> QED
        BY <1>1, <3>2, <4>1, <4>2 DEF ListenSock
    <3>4. M # {} /\ f = Min(M)
      BY <1>6, <3>1, <3>3 DEF Destination
    <3>5. Min(M) = FirstFd
      <4>1. FirstFd \in Nat /\ ServerFd \in Nat /\ FirstFd < ServerFd
        BY <1>1
      <4> HIDE DEF StreamIInv, StreamInv, IInv
      <4> QED
        BY <3>3, <4>1, FirstIsLeast, Zenon
    <3> QED
      BY <1>1, <1>11, <3>4, <3>5
  <2>2. ListenSock' = ListenSock /\ ServerSock'.sizep = ServerSock.sizep
    BY <1>1, <1>7, <1>11, <2>1 DEF OnlySock, SameStream, ListenSock, ServerSock
  <2>3. Queued' = Queued \o <<p>>
    <3>1. PICK a, b : /\ a = (IF rx[recver].pc = "react" /\ rx[recver].fd = ServerFd
                              THEN <<rx[recver].pkt>> ELSE <<>>)
                      /\ b = queue[recver][ServerFd]
      BY Zenon
    <3>2. a \in Seq(SafePacket) /\ b \in Seq(SafePacket)
      BY <1>1, <3>1 DEF TypeOK, RxThread
    <3>3. Queued = a \o b /\ Queued' = a \o Append(b, p)
      BY <1>7, <1>11, <3>1 DEF Queued
    <3>4. a \o Append(b, p) = (a \o b) \o <<p>>
      BY <1>7, <3>2, SMTT(40)
    <3> QED
      BY <3>3, <3>4
  <2>4. PICK line, ps : line = Queued /\ ps = <<p>>
    BY Zenon
  <2>5. /\ line \in Seq(SafePacket) /\ \A j \in 1 .. Len(line) : line[j] \in Pending(recver)
        /\ ps \in Seq(SafePacket) /\ \A i \in 1 .. Len(ps) : ps[i].kind # "DATA"
        /\ Intact(line, FALSE, Missing)
    <3>1. /\ line \in Seq(SafePacket)
          /\ \A j \in 1 .. Len(line) : line[j] \in Pending(recver)
      BY <2>4, QueuedPending, Zenon
    <3>2. /\ ps \in Seq(SafePacket) /\ Len(ps) = 1 /\ ps[1] = p
      BY <1>7, <2>4
    <3>3. \A i \in 1 .. Len(ps) : ps[i].kind # "DATA"
      <4> HIDE DEF StreamIInv, StreamInv, IInv
      <4> QED
        BY <2>1, <3>2
    <3>4. Intact(line, FALSE, Missing)
      BY <2>4, Zenon DEF Aside
    <3> QED
      BY <3>1, <3>2, <3>3, <3>4
  <2>6. Intact(line, FALSE, Missing')
    BY <2>5, IntactNext
  <2>7. Intact(line \o ps, FALSE, Missing')
    BY <2>5, <2>6, IntactGrows
  <2> QED
    BY <1>1, <1>7, <2>2, <2>3, <2>4, <2>7, NoneBelowNext DEF Aside, Diverted
<1> QED
  BY <1>9, <1>10, <1>11

\* The repeated SYN arrives at the listening socket.
LEMMA Diverts ==
  ASSUME OneWay, StreamIInv, IInv', [Next]_vars, Untouched, OneSocket, Supplied,
         NoneBelow, Arrival(sender, recver),
         Destination(recver, Head(wire[sender][recver])) = FirstFd
  PROVE  Aside' /\ NoneBelow'
<1> USE DEF StreamIInv, StreamInv, IInv
<1>1. /\ FirstFd \in Fd /\ ServerFd \in Fd /\ recver \in Host /\ sender \in Host
      /\ ServerFd # FirstFd
  BY Hypothesis
<1>2. PICK p : p = Head(wire[sender][recver])
  BY Zenon
<1>3. p \in OnWires(recver) /\ FromClient(p) /\ app[recver].ip > 3 /\ p.kind = "SYN"
  BY <1>1, <1>2, ClientsSegment
<1>4. /\ queue'[recver][ServerFd] = queue[recver][ServerFd]
      /\ UNCHANGED <<app, rx, faults>>
      /\ ListenSock'.remote = cport /\ ServerSock' = ServerSock
  BY <1>1, <1>2, <1>3, Zenon
  DEF Arrival, OnlySock, ListenSock, ServerSock, FromClient
<1>5. PICK a, b, w, u : /\ a = HandOf(recver) /\ b = queue[recver][ServerFd]
                        /\ w = wire[sender][recver] /\ u = a \o b
  BY Zenon
<1>6. /\ a \in Seq(SafePacket) /\ b \in Seq(SafePacket) /\ w \in Seq(SafePacket)
      /\ u \in Seq(SafePacket)
  <2>1. a \in Seq(SafePacket) /\ b \in Seq(SafePacket) /\ w \in Seq(SafePacket)
    BY <1>1, <1>5, LineParts
  <2> QED
    BY <1>5, <2>1, ConcatProperties
<1>7. Line = u \o w
  <2>1. Line = a \o (b \o w)
    BY <1>5 DEF Line, LineOf
  <2>2. a \o (b \o w) = (a \o b) \o w
    BY <1>6, SMTT(40)
  <2> QED
    BY <1>5, <2>1, <2>2
<1>8. Queued' = u
  <2>1. HandOf(recver) = IF rx[recver].pc = "react" /\ rx[recver].fd = ServerFd
                         THEN <<rx[recver].pkt>> ELSE <<>>
    BY DEF HandOf, OneSocket
  <2> QED
    BY <1>4, <1>5, <2>1 DEF Queued
<1>9. PICK t \in BOOLEAN : t = (faults = 0)
  BY Zenon
<1>10. PICK line : line = Line
  BY Zenon
<1>11. /\ line \in Seq(SafePacket) /\ Intact(line, t, Missing)
       /\ \A j \in 1 .. Len(line) : line[j] \in Pending(recver)
  <2>1. line \in Seq(SafePacket)
    BY <1>10, LineType
  <2>2. Intact(line, t, Missing)
    BY <1>9, <1>10, Zenon DEF Supplied
  <2>3. \A j \in 1 .. Len(line) : line[j] \in Pending(recver)
    BY <1>1, <1>10, OnLinePending DEF Line
  <2> QED
    BY <2>1, <2>2, <2>3
<1>12. Intact(u, FALSE, Missing')
  <2>1. Intact(line, t, Missing')
    BY <1>11, IntactNext
  <2>2. Intact(u \o w, t, Missing')
    BY <1>7, <1>10, <2>1
  <2>3. Intact(u, t, Missing')
    BY <1>6, <2>2, IntactPrefix
  <2> HIDE DEF StreamIInv, StreamInv, IInv
  <2> QED
    BY <1>6, <2>3, IntactLess
<1> QED
  BY <1>3, <1>4, <1>8, <1>12, NoneBelowNext DEF Aside, Diverted

\* What the server has been given, and what it will be given, is whole.
Straight == OneSocket /\ Supplied
Whole == up[recver] => (Straight \/ Aside) /\ NoneBelow

\* Only processip lets the accepted socket's count of bytes grow, as long as
\* there is one socket.
LEMMA CountKept ==
  ASSUME OneWay, StreamIInv, IInv', OneSocket,
         \/ ClientActs \/ ServerActs \/ ClientReceives \/ ClientArrival \/ Faulty
         \/ UNCHANGED vars
  PROVE  ServerSock'.sizep = ServerSock.sizep
<1>1. CASE ClientActs \/ ClientReceives
  <2>1. sock'[recver] = sock[recver]
    BY <1>1 DEF ClientActs, ClientReceives, KeepsServer
  <2> QED
    BY <2>1 DEF ServerSock
<1>2. CASE ServerActs
  BY <1>2, ServerActsSockets
<1>3. CASE ClientArrival
  <2>1. sock' = sock
    BY <1>3, ArrivalGrows
  <2> QED
    BY <2>1 DEF ServerSock
<1>4. CASE Faulty \/ UNCHANGED vars
  <2>1. sock' = sock
    BY <1>4, QuietSteps
  <2> QED
    BY <2>1 DEF ServerSock
<1> QED
  BY <1>1, <1>2, <1>3, <1>4

\* While there is one socket: the line stays supplied, or the server is given
\* the repeated SYN.
LEMMA StraightStep ==
  ASSUME OneWay, MaxFaults <= 1, SeparateBytes, StreamIInv, IInv', [Next]_vars,
         Untouched, Straight, NoneBelow, ~ServerDies
  PROVE  (Straight' \/ Aside') /\ NoneBelow'
<1>1. OneSocket /\ Supplied
  BY DEF Straight
<1>2. CASE ClientActs
  <2>1. OneSocket' /\ Supplied'
    BY <1>1, <1>2, OneSocketKept, ClientActsSupplied
  <2> QED
    BY <1>1, <1>2, <2>1, CountKept, NoneBelowNext DEF Straight
<1>3. CASE ServerActs
  <2>1. OneSocket' /\ Supplied'
    BY <1>1, <1>3, OneSocketKept, ServerActsSupplied
  <2> QED
    BY <1>1, <1>3, <2>1, CountKept, NoneBelowNext DEF Straight
<1>4. CASE ClientReceives
  <2>1. OneSocket' /\ Supplied'
    BY <1>1, <1>4, OneSocketKept, ClientReceivesSupplied
  <2> QED
    BY <1>1, <1>4, <2>1, CountKept, NoneBelowNext DEF Straight
<1>5. CASE ServerReceives
  <2>1. OneSocket' /\ Supplied' /\ NoneBelow'
    BY <1>1, <1>5, OneSocketKept, ServerReceivesSupplied
  <2> QED
    BY <2>1 DEF Straight
<1>6. CASE ClientArrival
  <2>1. OneSocket' /\ Supplied'
    BY <1>1, <1>6, OneSocketKept, ArrivalSupplied
  <2> QED
    BY <1>1, <1>6, <2>1, CountKept, NoneBelowNext DEF Straight
<1>7. CASE ServerArrival
  <2>1. PICK g \in Host : Arrival(g, recver)
    BY <1>7, Zenon DEF ServerArrival
  <2>2. PICK f : f = Destination(recver, Head(wire[sender][recver]))
    BY Zenon
  <2>3. g = sender /\ (f = ServerFd \/ f = FirstFd)
    BY <1>1, <2>1, <2>2, ClientsSegment
  <2>4. Arrival(sender, recver)
    BY <2>1, <2>3
  <2>5. CASE f = FirstFd
    BY <1>1, <2>2, <2>4, <2>5, Diverts
  <2>6. CASE f = ServerFd
    <3>1. OneSocket' /\ Supplied'
      BY <1>1, <1>7, <2>2, <2>4, <2>6, OneSocketArrival, ArrivalSupplied
    <3>2. ServerSock'.sizep = ServerSock.sizep
      <4>1. FirstFd \in Fd /\ ServerFd \in Fd /\ ServerFd # FirstFd /\ recver \in Host
        BY Hypothesis
      <4> QED
        BY <2>2, <2>4, <2>6, <4>1, Zenon
        DEF Arrival, OnlySock, SameStream, ServerSock
    <3> QED
      BY <3>1, <3>2, NoneBelowNext DEF Straight
  <2> QED
    BY <2>3, <2>5, <2>6
<1>8. CASE Faulty
  <2>1. OneSocket' /\ Supplied'
    BY <1>1, <1>8, FaultySupplied
  <2> QED
    BY <1>1, <1>8, <2>1, CountKept, NoneBelowNext DEF Straight
<1>9. CASE UNCHANGED vars
  <2>1. OneSocket'
    BY <1>1, <1>9, OneSocketKept
  <2>2. /\ Line' = Line /\ ClientSock' = ClientSock /\ app'[sender] = app[sender]
        /\ faults' = faults
    BY <1>9, Zenon DEF vars, Line, LineOf, HandOf, ClientSock
  <2>3. Pending(sender)' \subseteq Pending(sender)
    BY <1>9, SamePending, Hypothesis DEF vars, KeepsPacket
  <2>4. Supplied'
    BY <1>1, <2>2, <2>3, SameLineSupplied
  <2> QED
    BY <1>1, <1>9, <2>1, <2>4, CountKept, NoneBelowNext DEF Straight
<1> QED
  BY <1>2, <1>3, <1>4, <1>5, <1>6, <1>7, <1>8, <1>9, Steps

\* One fault at most leaves no gap in the long writes that read() could take.
LEMMA WholeStep ==
  ASSUME OneWay, MaxFaults <= 1, SeparateBytes, StreamIInv, IInv', [Next]_vars,
         Untouched, Whole
  PROVE  Whole'
<1> SUFFICES ASSUME up'[recver] PROVE (Straight' \/ Aside') /\ NoneBelow'
  BY DEF Whole
<1>1. up[recver] /\ ~ServerDies
  BY StaysUp
<1>2. (Straight \/ Aside) /\ NoneBelow
  BY <1>1 DEF Whole
<1>3. CASE Straight
  BY <1>1, <1>2, <1>3, StraightStep
<1>4. CASE Aside
  BY <1>1, <1>2, <1>4, Steps, AsideSame, AsideReceives, AsideArrival
<1> QED
  BY <1>2, <1>3, <1>4

\* What read() has returned of the long writes is what was written.
LongRead ==
  \A k \in 1 .. Len(Received) :
    ClientSock.databuf[k - 1] \in Acknowledged =>
      Received[k] = ClientSock.databuf[k - 1]

\* What read() takes from the buffer of a long write is what was written.
LEMMA LongReadStep ==
  ASSUME OneWay, StreamIInv, IInv', [Next]_vars, Whole, LongRead
  PROVE  LongRead'
<1> DEFINE X == {x \in Nat : /\ x < ClientSock.sizep
                             /\ ClientSock.databuf[x] \in Acknowledged}
<1>1. /\ ServerSock.sizep \in Nat /\ ServerSock.sizep <= ClientSock.sizep
      /\ ClientSock.sizep \in Nat /\ ClientSock.sizep <= BufSize /\ BufSize \in Nat
  BY SocketBounds DEF StreamIInv, StreamInv, IInv, BytesInv, Copies
<1>2. ASSUME up[recver], NEW x \in X, x < ServerSock.sizep
      PROVE  ServerSock.databuf[x] = ClientSock.databuf[x]
  <2>1. x \in 0 .. (BufSize - 1) /\ x \in 0 .. (ClientSock.sizep - 1)
    BY <1>1
  <2>2. x \notin Missing
    BY <1>1, <1>2 DEF Whole, NoneBelow
  <2>3. ServerSock.databuf[x] # Zero
    BY <2>1, <2>2 DEF Missing
  <2> QED
    BY <2>1, <2>3 DEF StreamIInv, StreamInv, BytesInv, Copies
<1>3. \A k \in 1 .. Len(Received) : k - 1 \in X => Received[k] = ClientSock.databuf[k - 1]
  BY DEF LongRead
<1>4. \A k \in 1 .. Len(Received') :
        /\ k - 1 \in Nat /\ k - 1 < ClientSock.sizep
        /\ k - 1 \in X => Received'[k] = ClientSock'.databuf[k - 1]
  <2>1. X \in SUBSET Nat
    OBVIOUS
  <2> HIDE DEF X
  <2> QED
    BY <1>2, <1>3, <2>1, ReadNext
<1>5. \A x \in Nat : x < ClientSock.sizep => ClientSock'.databuf[x] = ClientSock.databuf[x]
  BY GrowsStep DEF Grows
<1>6. ASSUME NEW k \in 1 .. Len(Received'), ClientSock'.databuf[k - 1] \in Acknowledged
      PROVE  Received'[k] = ClientSock'.databuf[k - 1]
  <2>1. k - 1 \in X
    BY <1>4, <1>5, <1>6
  <2> QED
    BY <1>4, <2>1
<1> QED
  BY <1>6 DEF LongRead, Acknowledged

\* In the beginning nothing is written and nothing on its way.
LEMMA WholeInit ==
  ASSUME OneWay, Init
  PROVE  Untouched /\ LongRead /\ Whole
<1>1. FirstFd \in Fd /\ ServerFd \in Fd /\ sender \in Host /\ recver \in Host
  BY Hypothesis
<1>2. /\ \A h \in Host : \A f \in Fd : sock[h][f] = NoSocket
      /\ app[sender].pc = "call" /\ up[recver] /\ Received = <<>>
  BY <1>1 DEF Init, Received
<1>3. /\ ClientSock = NoSocket /\ ServerSock = NoSocket /\ NoSocket.sizep = 0
      /\ \A i \in 0 .. (BufSize - 1) : NoSocket.databuf[i] = Zero
  BY <1>1, <1>2, Zenon DEF ClientSock, ClientFd, ServerSock, NoSocket
<1>4. Missing = {}
  BY <1>3 DEF Missing
<1>5. OneSocket
  BY <1>2, InOrderInit DEF InOrder
<1>6. Supplied
  <2>1. Intact(Line, faults = 0, Missing)
    BY <1>4 DEF Intact
  <2>2. DueAhead /\ DueTwice /\ NextAhead /\ ShortReturns /\ AcksBelow
    BY <1>4, Zenon DEF DueAhead, DueTwice, NextAhead, ShortReturns, AcksBelow
  <2> QED
    BY <2>1, <2>2 DEF Supplied
<1>7. NoneBelow
  BY <1>4 DEF NoneBelow
<1>8. Untouched
  BY <1>3 DEF Untouched
<1>9. LongRead
  BY <1>2 DEF LongRead
<1> QED
  BY <1>5, <1>6, <1>7, <1>8, <1>9 DEF Whole, Straight

\* Whatever the network loses, repeats or reorders once, a write that is longer
\* than a segment, and so waits for its ACKs, is read as it was written: read()
\* never returns the zero of a byte that has not arrived in its place.
THEOREM LongWritesSurvive ==
  ASSUME OneWay, MaxFaults <= 1, SeparateBytes
  PROVE  Spec => []LongWritesIntact
<1> DEFINE Long == Untouched /\ LongRead /\ Whole
<1>1. Init => Long
  BY WholeInit
<1>2. ASSUME StreamIInv, IInv', [Next]_vars, Long PROVE Long'
  BY <1>2, UntouchedStep, LongReadStep, WholeStep
<1>3. ASSUME StreamIInv, Long PROVE LongWritesIntact
  <2>1. PICK u, w : u = Received /\ w = Sent
    OBVIOUS
  <2>2. /\ u \in Seq(Content) /\ w \in Seq(Content) /\ Len(u) <= Len(w)
        /\ \A k \in 1 .. Len(w) : w[k] = ClientSock.databuf[k - 1]
    BY <1>3, <2>1, SeqsOfStream DEF StreamSeqs
  <2>3. ASSUME NEW k \in DOMAIN u \cap DOMAIN w, w[k] \in Acknowledged
        PROVE  u[k] = w[k]
    BY <1>3, <2>1, <2>2, <2>3 DEF LongRead
  <2> QED
    BY <2>1, <2>3 DEF LongWritesIntact
<1>4. StreamIInv => IInv
  BY DEF StreamIInv
<1> HIDE DEF Long
<1> QED
  BY <1>1, <1>2, <1>3, <1>4, StreamInductive, PTL DEF Spec

\* A client whose short writes share no byte with its long ones, as GapScript does.
LEMMA SeparateWritesFit ==
  ASSUME NEW datas \in Seq(Seq(Byte)), NEW server,
         Script = Programs(Client(WriteEach(datas)), server),
         \A i, j \in 1 .. Len(datas) :
           Len(datas[i]) <= MSS /\ Len(datas[j]) > MSS =>
             Range(datas[i]) \cap Range(datas[j]) = {}
  PROVE  SeparateBytes
<1> SUFFICES ASSUME NEW k \in 1 .. Len(Script[sender]), Script[sender][k].op = "write",
                    Len(Script[sender][k].data) <= MSS,
                    NEW i \in 1 .. Len(Script[sender][k].data),
                    Script[sender][k].data[i] \in Acknowledged
             PROVE  FALSE
  BY Zenon DEF SeparateBytes
<1>1. PICK s : s = Script[sender]
  BY Zenon
<1>2. \A x \in DOMAIN s : s[x].op = "write" =>
        x - 2 \in 1 .. Len(datas) /\ s[x].data = datas[x - 2]
  BY <1>1, ClientWrites
<1>3. PICK d \in Range(s) :
        /\ d.op = "write" /\ Len(d.data) > MSS /\ s[k].data[i] \in Range(d.data)
  BY <1>1 DEF Acknowledged
<1>4. PICK x \in DOMAIN s : d = s[x]
  BY <1>3 DEF Range
<1>5. k \in DOMAIN s
  BY <1>1, ClientWrites
<1>6. PICK y \in 1 .. Len(datas), z \in 1 .. Len(datas) :
        s[k].data = datas[y] /\ s[x].data = datas[z]
  BY <1>1, <1>2, <1>3, <1>4, <1>5
<1>7. datas[y][i] \in Range(datas[y]) /\ i \in DOMAIN datas[y]
  <2>1. datas[y] \in Seq(Byte)
    OBVIOUS
  <2> QED
    BY <1>1, <1>6, <2>1 DEF Range
<1> QED
  BY <1>1, <1>3, <1>4, <1>6, <1>7
=============================================================================
