--------------------------- MODULE TcpPhaseProofs ---------------------------
(***************************************************************************)
(* A connection of the programs of TcpStreamProofs whose writes are longer *)
(* than a segment, over a network that loses, repeats and reorders         *)
(* nothing.  All of what is under way is part of the invariant, in every   *)
(* phase of the connection: it is one packet at a time while data flows,   *)
(* close() leaves nothing behind, and the whole implements Connection.     *)
(***************************************************************************)
EXTENDS TcpOrderProofs

-----------------------------------------------------------------------------
(* The phases of a connection whose writes are longer than a segment: the  *)
(* statuses of its two ends and the kinds of the packets on their way to   *)
(* the server and to the client, in order.                                 *)

ClientLine == LineOf(sender, FirstFd, recver)
Kinds(line) == [i \in 1 .. Len(line) |-> line[i].kind]

\* Client status c, server status s, kinds l to the server and k to the client.
Phase(c, s, l, k) ==
  \/ /\ c \in {"FREE", "NONE"} /\ s \in {"FREE", "CLOSED", "LISTEN"}
     /\ l = <<>> /\ k = <<>>
  \/ c = "SYNSENT" /\ s = "LISTEN" /\ l = <<"SYN">> /\ k = <<>>
  \/ c = "SYNSENT" /\ s = "SYNRCVD" /\ l = <<>> /\ k = <<"SYNACK">>
  \/ c = "ESTAB" /\ s = "SYNRCVD" /\ l \in {<<"ACK">>, <<"ACK", "DATA">>} /\ k = <<>>
  \/ c = "FINWAIT1" /\ s = "SYNRCVD" /\ l = <<"ACK", "FIN">> /\ k = <<>>
  \/ c = "ESTAB" /\ s = "ESTAB" /\ l = <<>> /\ k \in {<<>>, <<"ACK">>}
  \/ c = "ESTAB" /\ s = "ESTAB" /\ l = <<"DATA">> /\ k = <<>>
  \/ c = "FINWAIT1" /\ s = "ESTAB" /\ l = <<"FIN">> /\ k = <<>>
  \/ c = "FINWAIT1" /\ s = "LASTACK" /\ l = <<>> /\ k = <<"ACK", "FIN">>
  \/ c = "FINWAIT2" /\ s = "LASTACK" /\ l = <<>> /\ k = <<"FIN">>
  \/ c = "TIMEWAIT" /\ s = "LASTACK" /\ l = <<"ACK">> /\ k = <<>>
  \/ c = "TIMEWAIT" /\ s = "CLOSED" /\ l = <<>> /\ k = <<>>

\* A data segment or its acknowledgement is on its way.
Busy(c, l, k) ==
  c = "ESTAB" /\ (l \in {<<"DATA">>, <<"ACK", "DATA">>} \/ k = <<"ACK">>)

\* How the ends go on, one of them at a time: from c to d, from s to t.
Onward(c, s, d, t) ==
  \/ d = c /\ t = s
  \/ c \in {"FREE", "NONE"} /\ d \in {"NONE", "SYNSENT"} /\ t = s
  \/ c = "SYNSENT" /\ d = "ESTAB" /\ t = s
  \/ c = "ESTAB" /\ d = "FINWAIT1" /\ t = s
  \/ c = "FINWAIT1" /\ d = "FINWAIT2" /\ t = s
  \/ c = "FINWAIT2" /\ d = "TIMEWAIT" /\ t = s
  \/ c \in {"FREE", "NONE"} /\ d = c /\ t \in {"CLOSED", "LISTEN"}
  \/ d = c /\ s = "LISTEN" /\ t = "SYNRCVD"
  \/ d = c /\ s = "SYNRCVD" /\ t = "ESTAB"
  \/ d = c /\ s = "ESTAB" /\ t = "LASTACK"
  \/ d = c /\ s = "LASTACK" /\ t = "CLOSED"

\* The short sequences that the phases are made of.
LEMMA ShortSeqs ==
  ASSUME NEW a, NEW b
  PROVE  /\ <<>> \o <<a>> = <<a>> /\ <<a>> \o <<b>> = <<a, b>>
         /\ <<a>> \o <<>> = <<a>> /\ <<>> \o <<a, b>> = <<a, b>>
         /\ <<>> \o <<>> = <<>>
         /\ Tail(<<a>>) = <<>> /\ Tail(<<a, b>>) = <<b>>
         /\ <<a>>[1] = a /\ <<a, b>>[1] = a
         /\ <<>> # <<a>> /\ <<>> # <<a, b>>
<1>1. PICK s : s = <<a>> \o <<b>>
  BY Zenon
<1>2. s \in Seq({a, b}) /\ Len(s) = 2 /\ s[1] = a /\ s[2] = b
  BY <1>1, ConcatProperties
<1>3. s = <<a, b>>
  BY <1>2, SeqEqual
<1>4. <<a>> \o <<b>> = <<a, b>>
  BY <1>1, <1>3, Zenon
<1>5. /\ <<>> \o <<a>> = <<a>> /\ <<a>> \o <<>> = <<a>>
      /\ <<>> \o <<a, b>> = <<a, b>> /\ <<>> \o <<>> = <<>>
  OBVIOUS
<1>6. /\ Tail(<<a>>) = <<>> /\ Tail(<<a, b>>) = <<b>>
      /\ <<a>>[1] = a /\ <<a, b>>[1] = a
      /\ <<>> # <<a>> /\ <<>> # <<a, b>>
  OBVIOUS
<1> QED
  BY <1>4, <1>5, <1>6

\* The server answers the first packet by a rule.
LEMMA ServerRulePhase ==
  ASSUME NEW c, NEW s, NEW l, NEW k, Phase(c, s, l, k), l # <<>>,
         NEW r \in Rules, r.on = l[1], r.at = s
  PROVE  /\ Phase(c, r.to, Tail(l), k \o r.send)
         /\ Busy(c, Tail(l), k \o r.send) => Busy(c, l, k)
         /\ Onward(c, s, c, r.to)
<1>1. CASE c = "SYNSENT" /\ s = "LISTEN" /\ l = <<"SYN">> /\ k = <<>>
  <2>1. r.send = <<"SYNACK">> /\ r.to = "SYNRCVD"
    BY <1>1 DEF Rules, Rule
  <2> QED
    BY <1>1, <2>1 DEF Phase, Busy, Onward
<1>2. CASE c = "ESTAB" /\ s = "SYNRCVD" /\ l \in {<<"ACK">>, <<"ACK", "DATA">>} /\ k = <<>>
  <2>1. r.send = <<>> /\ r.to = "ESTAB"
    BY <1>2 DEF Rules, Rule
  <2>2. CASE l = <<"ACK">>
    BY <1>2, <2>1, <2>2 DEF Phase, Busy, Onward
  <2>3. CASE l = <<"ACK", "DATA">>
    BY <1>2, <2>1, <2>3 DEF Phase, Busy, Onward
  <2> QED
    BY <1>2, <2>2, <2>3
<1>3. CASE c = "FINWAIT1" /\ s = "SYNRCVD" /\ l = <<"ACK", "FIN">> /\ k = <<>>
  <2>1. r.send = <<>> /\ r.to = "ESTAB"
    BY <1>3 DEF Rules, Rule
  <2> QED
    BY <1>3, <2>1 DEF Phase, Busy, Onward
<1>4. CASE c = "FINWAIT1" /\ s = "ESTAB" /\ l = <<"FIN">> /\ k = <<>>
  <2>1. r.send = <<"ACK", "FIN">> /\ r.to = "LASTACK"
    BY <1>4 DEF Rules, Rule
  <2> QED
    BY <1>4, <2>1 DEF Phase, Busy, Onward
<1>5. CASE c = "TIMEWAIT" /\ s = "LASTACK" /\ l = <<"ACK">> /\ k = <<>>
  <2>1. r.send = <<>> /\ r.to = "CLOSED"
    BY <1>5 DEF Rules, Rule
  <2> QED
    BY <1>5, <2>1 DEF Phase, Busy, Onward
<1>6. CASE c = "ESTAB" /\ s = "ESTAB" /\ l = <<"DATA">> /\ k = <<>>
  BY <1>6 DEF Rules, Rule
<1> QED
  BY <1>1, <1>2, <1>3, <1>4, <1>5, <1>6 DEF Phase

\* The client answers the first packet by a rule.
LEMMA ClientRulePhase ==
  ASSUME NEW c, NEW s, NEW l, NEW k, Phase(c, s, l, k), k # <<>>,
         NEW r \in Rules, r.on = k[1], r.at = c
  PROVE  /\ Phase(r.to, s, l \o r.send, Tail(k))
         /\ ~Busy(r.to, l \o r.send, Tail(k))
         /\ r.to \in {"ESTAB", "FINWAIT2", "TIMEWAIT"}
         /\ r.to = "ESTAB" => c = "SYNSENT"
         /\ r.to # "ESTAB" => c \in {"FINWAIT1", "FINWAIT2"}
         /\ Onward(c, s, r.to, s)
<1>1. CASE c = "SYNSENT" /\ s = "SYNRCVD" /\ l = <<>> /\ k = <<"SYNACK">>
  <2>1. r.send = <<"ACK">> /\ r.to = "ESTAB"
    BY <1>1 DEF Rules, Rule
  <2> QED
    BY <1>1, <2>1 DEF Phase, Busy, Onward
<1>2. CASE c = "ESTAB" /\ s = "ESTAB" /\ l = <<>> /\ k = <<"ACK">>
  BY <1>2 DEF Rules, Rule
<1>3. CASE c = "FINWAIT1" /\ s = "LASTACK" /\ l = <<>> /\ k = <<"ACK", "FIN">>
  <2>1. r.send = <<>> /\ r.to = "FINWAIT2"
    BY <1>3 DEF Rules, Rule
  <2> QED
    BY <1>3, <2>1 DEF Phase, Busy, Onward
<1>4. CASE c = "FINWAIT2" /\ s = "LASTACK" /\ l = <<>> /\ k = <<"FIN">>
  <2>1. r.send = <<"ACK">> /\ r.to = "TIMEWAIT"
    BY <1>4 DEF Rules, Rule
  <2> QED
    BY <1>4, <2>1 DEF Phase, Busy, Onward
<1> QED
  BY <1>1, <1>2, <1>3, <1>4 DEF Phase

\* What else leaves a line: data at the server, its acknowledgement at the
\* client.
LEMMA DataPhase ==
  ASSUME NEW c, NEW s, NEW l, NEW k, Phase(c, s, l, k)
  PROVE  /\ l # <<>> /\ l[1] = "DATA" =>
              /\ Phase(c, s, Tail(l), k \o <<"ACK">>) /\ Busy(c, l, k)
              /\ s = "ESTAB"
         /\ k # <<>> /\ k[1] = "ACK" /\ c = "ESTAB" =>
              /\ Phase(c, s, l, Tail(k)) /\ ~Busy(c, l, Tail(k))
              /\ Phase(c, s, l \o <<"DATA">>, Tail(k)) /\ Busy(c, l, k)
<1>1. CASE c = "ESTAB" /\ s = "ESTAB" /\ l = <<"DATA">> /\ k = <<>>
  BY <1>1 DEF Phase, Busy
<1>2. CASE c = "ESTAB" /\ s = "ESTAB" /\ l = <<>> /\ k = <<"ACK">>
  BY <1>2 DEF Phase, Busy
<1> QED
  BY <1>1, <1>2 DEF Phase

\* A packet is never ignored.
LEMMA PhaseAnswers ==
  ASSUME NEW c, NEW s, NEW l, NEW k, Phase(c, s, l, k)
  PROVE  /\ l # <<>> /\ l[1] # "DATA" =>
              (\E r \in Rules : r.on = l[1] /\ r.at = s) /\ (l[1] = "ACK" => s # "ESTAB")
         /\ k # <<>> => /\ k[1] # "DATA"
                        /\ \/ \E r \in Rules : r.on = k[1] /\ r.at = c
                           \/ k[1] = "ACK" /\ c = "ESTAB"
  BY DEF Phase, Rules, Rule

\* The client sends when nothing of its data is on its way.
LEMMA SendPhase ==
  ASSUME NEW c, NEW s, NEW l, NEW k, Phase(c, s, l, k), c = "ESTAB", ~Busy(c, l, k)
  PROVE  /\ Phase(c, s, l \o <<"DATA">>, k)
         /\ Phase("FINWAIT1", s, l \o <<"FIN">>, k)
         /\ k = <<>>
<1>1. CASE s = "SYNRCVD" /\ l = <<"ACK">> /\ k = <<>>
  BY <1>1, ShortSeqs DEF Phase
<1>2. CASE s = "ESTAB" /\ l = <<>> /\ k = <<>>
  BY <1>2 DEF Phase
<1> QED
  BY <1>1, <1>2 DEF Phase, Busy

-----------------------------------------------------------------------------
(* The kinds on a line, and what the steps do to them. *)

\* The kinds of a sequence of packets and of what is left when the first has gone.
LEMMA KindsOf ==
  ASSUME NEW S, NEW line \in Seq(S)
  PROVE  /\ line = <<>> <=> Kinds(line) = <<>>
         /\ Len(Kinds(line)) = Len(line)
         /\ line # <<>> => /\ Kinds(line)[1] = line[1].kind
                           /\ Kinds(Tail(line)) = Tail(Kinds(line))
<1>1. PICK n, k : n = Len(line) /\ k = Kinds(line)
  OBVIOUS
<1>2. /\ n \in Nat /\ k = [i \in 1 .. n |-> line[i].kind]
      /\ k \in Seq({line[i].kind : i \in 1 .. n}) /\ Len(k) = n
  BY <1>1 DEF Kinds
<1>3. line = <<>> <=> k = <<>>
  BY <1>1, <1>2
<1>4. ASSUME line # <<>>
      PROVE  k[1] = line[1].kind /\ Kinds(Tail(line)) = Tail(k)
  <2>1. n >= 1 /\ k[1] = line[1].kind
    BY <1>1, <1>2, <1>4
  <2>2. PICK t, u : t = Tail(line) /\ u = Tail(k)
    BY Zenon
  <2>3. /\ Len(t) = n - 1 /\ \A i \in 1 .. (n - 1) : t[i] = line[i + 1]
        /\ u = [i \in 1 .. (n - 1) |-> k[i + 1]]
    <3>1. Len(t) = n - 1 /\ \A i \in 1 .. (n - 1) : t[i] = line[i + 1]
      BY <1>1, <1>4, <2>1, <2>2, HeadTailProperties
    <3>2. u = [i \in 1 .. (n - 1) |-> k[i + 1]]
      BY <1>2, <2>1, <2>2
    <3> QED
      BY <3>1, <3>2
  <2>4. Kinds(t) = u
    BY <1>2, <2>3 DEF Kinds
  <2> QED
    BY <2>1, <2>2, <2>4
<1> QED
  BY <1>1, <1>2, <1>3, <1>4, Zenon

\* The kinds of two sequences put together, and of a single packet.
LEMMA KindsConcat ==
  ASSUME NEW S, NEW line \in Seq(S), NEW T, NEW ps \in Seq(T)
  PROVE  Kinds(line \o ps) = Kinds(line) \o Kinds(ps)
<1>1. PICK m, n, both : m = Len(line) /\ n = Len(ps) /\ both = line \o ps
  BY Zenon
<1>2. /\ m \in Nat /\ n \in Nat /\ Len(both) = m + n
      /\ \A i \in 1 .. (m + n) :
           both[i] = IF i <= m THEN line[i] ELSE ps[i - m]
  BY <1>1, ConcatProperties
<1>3. PICK k, l : k = Kinds(line) /\ l = Kinds(ps)
  OBVIOUS
<1>4. /\ k = [i \in 1 .. m |-> line[i].kind] /\ l = [i \in 1 .. n |-> ps[i].kind]
      /\ Len(k) = m /\ Len(l) = n
  BY <1>1, <1>2, <1>3 DEF Kinds
<1>5. k \o l = [i \in 1 .. (m + n) |-> IF i <= m THEN k[i] ELSE l[i - m]]
  BY <1>2, <1>4, SMTT(40)
<1>6. Kinds(both) = k \o l
  BY <1>2, <1>4, <1>5 DEF Kinds
<1> QED
  BY <1>1, <1>3, <1>6

\* The kinds of a single packet.
LEMMA KindsOfOne ==
  ASSUME NEW p
  PROVE  Kinds(<<p>>) = <<p.kind>>
  BY DEF Kinds

\* The kinds of the answers that a rule sends.
LEMMA KindsAnswered ==
  ASSUME NEW r \in Rules, NEW T, NEW ps \in [DOMAIN r.send -> T],
         \A i \in DOMAIN r.send : ps[i].kind = r.send[i]
  PROVE  ps \in Seq(T) /\ Kinds(ps) = r.send
<1>1. PICK ks : ks = r.send
  OBVIOUS
<1>2. ks \in Seq(Kind)
  <2>1. ks \in {<<>>, <<"ACK">>, <<"SYNACK">>, <<"ACK", "FIN">>}
    BY <1>1 DEF Rules, Rule
  <2> QED
    <3>1. <<>> \in Seq(Kind) /\ <<"ACK">> \in Seq(Kind) /\ <<"SYNACK">> \in Seq(Kind)
      BY DEF Kind
    <3>2. <<"ACK", "FIN">> \in Seq(Kind)
      BY DEF Kind
    <3> QED
      BY <2>1, <3>1, <3>2, Zenon
<1>3. DOMAIN ks = 1 .. Len(ks) /\ Len(ks) \in Nat
  BY <1>2
<1>4. ps \in Seq(T) /\ Len(ps) = Len(ks)
  BY <1>1, <1>3
<1>5. \A i \in 1 .. Len(ks) : ps[i].kind = ks[i]
  BY <1>1, <1>3
<1>6. Kinds(ps) = [i \in 1 .. Len(ks) |-> ks[i]]
  BY <1>4, <1>5 DEF Kinds
<1>7. ks = [i \in 1 .. Len(ks) |-> ks[i]]
  BY <1>2
<1> QED
  BY <1>1, <1>4, <1>6, <1>7

\* What is sent to a line's host joins the line.
LEMMA KindsSent ==
  ASSUME TypeOK, NEW h \in Host, NEW f \in Fd, NEW g \in Host,
         rx'[h] = rx[h], queue'[h] = queue[h], NEW T, NEW ps \in Seq(T),
         wire'[g][h] = wire[g][h] \o ps
  PROVE  Kinds(LineOf(h, f, g)') = Kinds(LineOf(h, f, g)) \o Kinds(ps)
<1>1. LineOf(h, f, g) \in Seq(SafePacket)
  BY LineParts
<1>2. LineOf(h, f, g)' = LineOf(h, f, g) \o ps
  BY LineSent, ZenonT(40)
<1>3. Kinds(LineOf(h, f, g) \o ps) = Kinds(LineOf(h, f, g)) \o Kinds(ps)
  BY <1>1, KindsConcat
<1> QED
  BY <1>2, <1>3, Zenon DEF Kinds

\* What processip has dealt with leaves its line.
LEMMA KindsDone ==
  ASSUME TypeOK, NEW h \in Host, NEW f \in Fd, NEW g \in Host,
         rx[h].pc = "react", rx'[h].pc # "react",
         queue'[h][f] = queue[h][f], wire'[g][h] = wire[g][h]
  PROVE  /\ Kinds(LineOf(h, f, g)) # <<>>
         /\ Kinds(LineOf(h, f, g))[1] = rx[h].pkt.kind
         /\ Kinds(LineOf(h, f, g)') = Tail(Kinds(LineOf(h, f, g)))
<1>1. PICK line : line = LineOf(h, f, g)
  OBVIOUS
<1>2. line \in Seq(SafePacket) /\ line # <<>> /\ line[1] = rx[h].pkt
      /\ LineOf(h, f, g)' = Tail(line)
  BY <1>1, LineParts, LineDone
<1>3. /\ Kinds(line) # <<>> /\ Kinds(line)[1] = rx[h].pkt.kind
      /\ Kinds(Tail(line)) = Tail(Kinds(line))
  BY <1>2, KindsOf
<1> QED
  BY <1>1, <1>2, <1>3 DEF Kinds

-----------------------------------------------------------------------------
(* The invariant of the phases. *)

\* The hypothesis: no fault, the server listens before the client connects, no
\* packet comes between the FIN and its status, and every write waits for ACKs.
Orderly ==
  /\ Faults = {} /\ "start" \notin Races /\ "close" \notin Races
  /\ \A k \in DOMAIN Script[sender] :
       Script[sender][k].op = "write" => Len(Script[sender][k].data) > MSS

ClientAt == Committed(sender, FirstFd)
ServerAt == Committed(recver, ServerFd)
InPhase == Phase(ClientAt, ServerAt, Kinds(Line), Kinds(ClientLine))
Unacked == Busy(ClientAt, Kinds(Line), Kinds(ClientLine))

\* write() has all of its bytes but the last segment to send when it begins, and
\* waits while one is on its way; close() comes when all is acknowledged.
WriteWaits ==
  LET a == app[sender]
      s == ClientSock
  IN  /\ a.pc \notin {"send", "spin"} => s.writep = s.sizep
      /\ a.pc = "send" => s.writep + MSS < s.sizep
      /\ Unacked => a.pc = "spin" /\ s.writep < s.sizep
      /\ a.pc # "finsent"
      /\ ClientAt \in {"FINWAIT1", "FINWAIT2", "TIMEWAIT"} =>
           \/ a.ip > Len(Script[sender])
           \/ a.ip = Len(Script[sender]) /\ a.pc = "closing"

\* No status changes under processip of the client.
ClientThread ==
  LET r == rx[sender]
  IN  /\ r.pc = "react" => r.seen = ClientSock.status
      /\ r.pc = "store" =>
           /\ r.rule.to \in {"ESTAB", "FINWAIT2", "TIMEWAIT"}
           /\ r.rule.to = "ESTAB" => "conn" \notin ClientSock.ready
           /\ r.rule.at = ClientSock.status

Phased == InPhase /\ WriteWaits /\ ClientThread

GoesOn == Onward(ClientAt, ServerAt, ClientAt', ServerAt')

\* Where the client is while processip has nothing of it.
LEMMA ClientIs ==
  ASSUME OneWay, StreamIInv
  PROVE  /\ rx[sender].pc # "store" => ClientAt = ClientSock.status
         /\ rx[sender].pc = "store" => ClientAt = rx[sender].rule.to
         /\ rx[sender].pc # "pop" => rx[sender].fd = FirstFd
         /\ ~Connected => rx[sender].pc = "pop"
<1> USE DEF StreamIInv, StreamInv, IInv
<1>1. sender \in Host /\ FirstFd \in Fd
  BY Hypothesis
<1>2. rx[sender].pc # "pop" => rx[sender].fd = FirstFd /\ Connected
  <2>1. Opened(sender) \subseteq {FirstFd}
    BY DEF Opened, ClientInv
  <2>2. rx[sender].pc # "pop" => rx[sender].fd \in Opened(sender)
    BY <1>1 DEF PendingSocketsExist, PendingExist
  <2> QED
    BY <2>1, <2>2, InClientsHand
<1>3. rx[sender].pc \in {"pop", "react", "store"}
  BY <1>1 DEF TypeOK, RxThread
<1> QED
  BY <1>2, <1>3 DEF ClientAt, Committed, ClientSock, ClientFd

\* The same of the server.
LEMMA ServerIs ==
  ASSUME OneWay, StreamIInv, OneSocket
  PROVE  /\ rx[recver].pc # "store" => ServerAt = ServerSock.status
         /\ rx[recver].pc = "store" => ServerAt = rx[recver].rule.to
         /\ ~Taken => rx[recver].pc = "pop"
<1>1. rx[recver].pc # "pop" => rx[recver].fd = ServerFd /\ Taken
  BY DEF OneSocket, StreamIInv, StreamInv, HandshakeInv
<1>2. rx[recver].pc \in {"pop", "react", "store"}
  BY Hypothesis DEF StreamIInv, IInv, TypeOK, RxThread
<1> QED
  BY <1>1, <1>2 DEF ServerAt, Committed, ServerSock

\* Between the end of the handshake and close() the client is established.
LEMMA ClientOpen ==
  ASSUME OneWay, StreamIInv, InPhase, WriteWaits, app[sender].ip > 2,
         app[sender].ip <= Len(Script[sender]), app[sender].pc # "closing"
  PROVE  ClientAt = "ESTAB" /\ "conn" \in ClientSock.ready
<1>1. "conn" \in ClientSock.ready /\ Answered
  BY DEF StreamIInv, StreamInv, ClientInv
<1>2. ClientAt \notin {"FREE", "NONE", "SYNSENT"}
  BY <1>1 DEF Answered, ClientAt
<1>3. ClientAt \notin {"FINWAIT1", "FINWAIT2", "TIMEWAIT"}
  <2>1. app[sender].ip \in Nat /\ Len(Script[sender]) \in Nat
    BY Hypothesis DEF StreamIInv, IInv, TypeOK, AppThread
  <2> QED
    BY <2>1 DEF WriteWaits
<1> QED
  BY <1>1, <1>2, <1>3 DEF InPhase, Phase

\* A step that moves the thread of the client at most from its wait.
LEMMA WriteWaitsKept ==
  ASSUME WriteWaits, ClientSock'.writep = ClientSock.writep,
         ClientSock'.sizep = ClientSock.sizep,
         app'[sender] = app[sender] \/ Notified(sender),
         Unacked' => Unacked,
         ClientAt' \in {"FINWAIT1", "FINWAIT2", "TIMEWAIT"} =>
           ClientAt \in {"FINWAIT1", "FINWAIT2", "TIMEWAIT"}
  PROVE  WriteWaits'
<1>1. /\ app'[sender].ip = app[sender].ip
      /\ \/ app'[sender].pc = app[sender].pc
         \/ app[sender].pc = "wait" /\ app'[sender].pc = "test"
  BY DEF Notified, AppTo
<1> QED
  BY <1>1 DEF WriteWaits

\* A step that changes nothing of the phase.
LEMMA PhasedKept ==
  ASSUME Phased, ClientSock' = ClientSock, app'[sender] = app[sender],
         rx'[sender] = rx[sender], ServerAt' = ServerAt, Line' = Line,
         ClientLine' = ClientLine
  PROVE  Phased' /\ GoesOn
<1>1. ClientAt' = ClientAt
  BY DEF ClientAt, Committed, ClientSock, ClientFd
<1>2. InPhase' /\ (Unacked' <=> Unacked)
  BY <1>1 DEF Phased, InPhase, Unacked, Phase, Busy, Kinds
<1>3. WriteWaits'
  BY <1>1, <1>2, WriteWaitsKept DEF Phased
<1>4. ClientThread'
  BY DEF Phased, ClientThread
<1> QED
  BY <1>1, <1>2, <1>3, <1>4 DEF Phased, GoesOn, Onward

\* The client's thread: what it leaves alone and what it sends.
LEMMA ClientActsLines ==
  ASSUME OneWay, StreamIInv, ClientActs
  PROVE  /\ rx' = rx /\ ServerAt' = ServerAt /\ ClientLine' = ClientLine
         /\ wire' = wire => Line' = Line
         /\ \A p : SendTCPPackets(sender, sport, <<p>>) =>
              Kinds(Line') = Kinds(Line) \o <<p.kind>>
<1> USE DEF StreamIInv, StreamInv, IInv
<1>1. sender \in Host /\ recver \in Host /\ FirstFd \in Fd /\ ServerFd \in Fd
  BY Hypothesis
<1>2. UNCHANGED <<queue, rx>> /\ sock'[recver] = sock[recver]
  BY DEF ClientActs, ClientStep, ClientFrame, KeepsServer
<1>3. ServerAt' = ServerAt
  BY <1>2 DEF ServerAt, Committed
<1>4. wire' = wire => Line' = Line /\ ClientLine' = ClientLine
  BY <1>2, SMTT(40) DEF Line, ClientLine, LineOf, HandOf
<1>5. \A ps : SendTCPPackets(sender, sport, ps) => ClientLine' = ClientLine
  BY <1>2, SentOnLine, Zenon DEF ClientLine, LineOf, HandOf
<1>6. wire' = wire \/ \E p : SendTCPPackets(sender, sport, <<p>>)
  BY Zenon DEF ClientActs, ClientStep, ClientSocket, ClientConnects, ClientWaits,
         ClientConnected, ClientAppends, ClientSends, ClientWritten, ClientCloses,
         ClientStoresClose, ClientClosed, ClientMoves
<1>7. ASSUME NEW p, SendTCPPackets(sender, sport, <<p>>)
      PROVE  Kinds(Line') = Kinds(Line) \o <<p.kind>>
  <2>1. PICK ps, T : ps = <<p>> /\ T = {p}
    BY Zenon
  <2>2. wire'[sender][recver] = wire[sender][recver] \o ps /\ ps \in Seq(T)
    <3>1. SendTCPPackets(sender, sport, ps) /\ TypeOK
      BY <1>7, <2>1
    <3>2. ps \in Seq(T)
      BY <2>1
    <3> QED
      BY <3>1, <3>2, SentOnLine
  <2>3. TypeOK /\ rx'[recver] = rx[recver] /\ queue'[recver] = queue[recver]
    BY <1>2
  <2>4. Kinds(Line') = Kinds(Line) \o Kinds(ps)
    BY <1>1, <2>2, <2>3, KindsSent, SMTT(40) DEF Line
  <2> QED
    BY <2>1, <2>4, KindsOfOne, Zenon
<1> QED
  BY <1>2, <1>3, <1>4, <1>5, <1>6, <1>7, Zenon

\* The client's thread moves the connection on from phase to phase.
LEMMA ClientActsPhased ==
  ASSUME OneWay, Orderly, StreamIInv, IInv', ClientActs, OneSocket, Phased
  PROVE  Phased' /\ GoesOn
<1> USE DEF StreamIInv, StreamInv, IInv
<1>1. PICK c, s, l, k : /\ c = ClientAt /\ s = ServerAt
                        /\ l = Kinds(Line) /\ k = Kinds(ClientLine)
  OBVIOUS
<1>2. Phase(c, s, l, k) /\ (Unacked <=> Busy(c, l, k))
  BY <1>1 DEF Phased, InPhase, Unacked
<1>3. rx' = rx /\ s = ServerAt' /\ k = Kinds(ClientLine')
  BY <1>1, ClientActsLines DEF Kinds
<1>4. wire' = wire => l = Kinds(Line')
  BY <1>1, ClientActsLines DEF Kinds
<1>5. \A p : SendTCPPackets(sender, sport, <<p>>) => Kinds(Line') = l \o <<p.kind>>
  BY <1>1, ClientActsLines, Zenon
<1>6. /\ ClientSock.writep \in Nat /\ ClientSock.sizep \in Nat /\ MSS \in Nat \ {0}
      /\ Len(Script[sender]) \in Nat /\ Len(Script[sender]) >= 3
      /\ app[sender].ip \in Nat
  BY LineType, ClientCalls, TcpAssumption, Zenon DEF TypeOK, AppThread, TcpAssumption
<1>7. WriteWaits /\ ClientThread
  BY DEF Phased
<1>8. CASE ClientSocket
  <2>1. ~Connected /\ rx[sender].pc = "pop" /\ c = "FREE"
    BY <1>1, <1>8, ClientIs DEF ClientSocket, ClientInv, Connected
  <2>2. ClientAt' = "NONE"
    BY <1>3, <1>8, <2>1 DEF ClientSocket, ClientAt, Committed, ClientSock, ClientFd
  <2>3. Phase("NONE", s, l, k) /\ ~Busy("NONE", l, k)
    BY <1>2, <2>1 DEF Phase, Busy
  <2>4. InPhase' /\ ~Unacked'
    BY <1>3, <1>4, <1>8, <2>2, <2>3 DEF ClientSocket, InPhase, Unacked
  <2>5. WriteWaits'
    BY <1>8, <2>2, <2>4 DEF ClientSocket, AppTo, WriteWaits
  <2>6. ClientThread'
    BY <1>3, <2>1 DEF ClientThread
  <2> QED
    BY <1>1, <1>3, <2>1, <2>2, <2>4, <2>5, <2>6 DEF Phased, GoesOn, Onward
<1>9. CASE ClientConnects
  <2>1. ~Connected /\ rx[sender].pc = "pop" /\ c \in {"FREE", "NONE"}
    BY <1>1, <1>9, ClientIs DEF ClientConnects, ClientInv, Connected
  <2>2. s = "LISTEN"
    <3>1. PICK f \in Fd : sock[recver][f].status = "LISTEN"
      BY <1>9, Hypothesis DEF ClientConnects, Listening, Orderly
    <3>2. ~Taken
      BY <2>1 DEF HandshakeInv
    <3>3. f = ServerFd
      <4>1. app[recver].ip \in Nat \ {0}
        BY Hypothesis DEF TypeOK, AppThread
      <4>2. app[recver].ip <= 3
        BY <3>2, <4>1 DEF HandshakeInv
      <4>3. ListenSock.status # "LISTEN"
        BY <4>1, <4>2 DEF ServerInv, Fresh
      <4> QED
        BY <3>1, <4>3 DEF ServerInv, ListenSock
    <3> QED
      BY <1>1, <3>1, <3>2, <3>3, ServerIs DEF ServerSock
  <2>3. ClientAt' = "SYNSENT"
    BY <1>3, <1>9, <2>1 DEF ClientConnects, ClientAt, Committed, ClientSock, ClientFd
  <2>4. Kinds(Line') = l \o <<"SYN">>
    BY <1>5, <1>9 DEF ClientConnects, Segment
  <2>5. Phase("SYNSENT", s, l \o <<"SYN">>, k) /\ ~Busy("SYNSENT", l \o <<"SYN">>, k)
    <3>1. l = <<>> /\ k = <<>>
      BY <1>2, <2>1 DEF Phase
    <3> QED
      BY <2>2, <3>1, ShortSeqs DEF Phase, Busy
  <2>6. InPhase' /\ ~Unacked'
    BY <1>3, <2>3, <2>4, <2>5 DEF InPhase, Unacked
  <2>7. WriteWaits'
    BY <1>7, <1>9, <2>3, <2>6 DEF ClientConnects, AppTo, WriteWaits, SameStream
  <2>8. ClientThread'
    BY <1>3, <2>1 DEF ClientThread
  <2> QED
    BY <1>1, <1>3, <2>1, <2>3, <2>6, <2>7, <2>8 DEF Phased, GoesOn, Onward
<1>10. CASE ClientWaits \/ ClientConnected \/ ClientWritten \/ ClientClosed
  <2>1. sock' = sock /\ wire' = wire
    BY <1>10 DEF ClientWaits, ClientConnected, ClientWritten, ClientClosed, ClientMoves
  <2>2. ClientAt' = c /\ ClientSock' = ClientSock
    BY <1>1, <1>3, <2>1 DEF ClientAt, Committed, ClientSock
  <2>3. InPhase' /\ (Unacked' <=> Unacked)
    BY <1>1, <1>2, <1>3, <1>4, <2>1, <2>2 DEF InPhase, Unacked
  <2>4. WriteWaits'
    <3>1. CASE ClientWaits
      BY <1>1, <1>6, <1>7, <2>2, <2>3, <3>1 DEF ClientWaits, ClientMoves, AppTo, WriteWaits, Waits
    <3>2. CASE ClientConnected
      BY <1>1, <1>6, <1>7, <2>2, <2>3, <3>2 DEF ClientConnected, ClientMoves, AppTo, WriteWaits
    <3>3. CASE ClientWritten
      BY <1>1, <1>6, <1>7, <2>2, <2>3, <3>3 DEF ClientWritten, ClientMoves, AppTo, WriteWaits
    <3>4. CASE ClientClosed
      BY <1>1, <1>6, <1>7, <2>2, <2>3, <3>4 DEF ClientClosed, ClientMoves, AppTo, WriteWaits
    <3> QED
      BY <1>10, <3>1, <3>2, <3>3, <3>4
  <2>5. ClientThread'
    BY <1>3, <1>7, <2>2 DEF ClientThread
  <2> QED
    BY <1>1, <1>3, <2>2, <2>3, <2>4, <2>5 DEF Phased, GoesOn, Onward
<1>11. CASE ClientAppends
  <2>1. PICK d : /\ Call(sender).op = "write" /\ d = Call(sender).data
                 /\ d \in Seq(Byte) /\ ClientSock'.sizep = ClientSock.sizep + Len(d)
    BY <1>11 DEF ClientAppends
  <2>2. Len(d) > MSS /\ Len(d) \in Nat
    BY <1>6, <1>11, <2>1, SMTT(40) DEF Orderly, Call, ClientAppends
  <2>3. ClientAt' = c
    BY <1>1, <1>3, <1>11 DEF ClientAppends, ClientAt, Committed, ClientSock, ClientFd, SameState
  <2>4. InPhase' /\ (Unacked' <=> Unacked)
    BY <1>1, <1>2, <1>3, <1>4, <1>11, <2>3 DEF ClientAppends, InPhase, Unacked
  <2>5. ~Unacked /\ ClientSock.writep = ClientSock.sizep
    BY <1>7, <1>11 DEF ClientAppends, WriteWaits
  <2>6. c \notin {"FINWAIT1", "FINWAIT2", "TIMEWAIT"}
    BY <1>1, <1>6, <1>7, <1>11 DEF ClientAppends, WriteWaits
  <2>7. ClientSock'.writep + MSS < ClientSock'.sizep
    BY <1>6, <1>11, <2>1, <2>2, <2>5 DEF ClientAppends
  <2>8. WriteWaits'
    BY <1>11, <2>3, <2>4, <2>5, <2>6, <2>7 DEF ClientAppends, AppTo, WriteWaits
  <2>9. ClientThread'
    BY <1>3, <1>7, <1>11 DEF ClientThread, ClientAppends, SameState
  <2> QED
    BY <1>1, <1>3, <2>3, <2>4, <2>8, <2>9 DEF Phased, GoesOn, Onward
<1>12. CASE ClientSends
  <2>1. c = "ESTAB"
    BY <1>1, <1>6, <1>7, <1>12, ClientOpen DEF ClientSends, Phased
  <2>2. ~Busy(c, l, k) /\ ClientSock.writep + MSS < ClientSock.sizep
    BY <1>2, <1>7, <1>12 DEF ClientSends, WriteWaits
  <2>3. ClientAt' = c
    BY <1>1, <1>3, <1>12 DEF ClientSends, ClientAt, Committed, ClientSock, ClientFd, SameState
  <2>4. Kinds(Line') = l \o <<"DATA">>
    BY <1>5, <1>12 DEF ClientSends, Segment
  <2>5. InPhase'
    BY <1>2, <1>3, <2>1, <2>2, <2>3, <2>4, SendPhase DEF InPhase
  <2>6. Unsent(ClientSock) = MSS
    BY <1>6, <2>2 DEF Unsent
  <2>7. /\ ClientSock'.writep = ClientSock.writep + MSS
        /\ ClientSock'.sizep = ClientSock.sizep
    BY <1>12, <2>6 DEF ClientSends, SameBuffer
  <2>8. WriteWaits'
    BY <1>12, <2>1, <2>2, <2>3, <2>7 DEF ClientSends, AppTo, WriteWaits
  <2>9. ClientThread'
    BY <1>3, <1>7, <1>12 DEF ClientThread, ClientSends, SameState
  <2> QED
    BY <1>1, <1>3, <2>3, <2>5, <2>8, <2>9 DEF Phased, GoesOn, Onward
<1>13. CASE ClientCloses
  <2>1. c = "ESTAB" /\ "conn" \in ClientSock.ready
    BY <1>1, <1>6, <1>7, <1>13, ClientOpen DEF ClientCloses, Phased
  <2>2. ~Busy(c, l, k) /\ k = <<>>
    <3>1. ~Busy(c, l, k)
      BY <1>2, <1>7, <1>13 DEF ClientCloses, WriteWaits
    <3> QED
      BY <1>2, <2>1, <3>1 DEF Phase, Busy
  <2>3. rx[sender].pc = "pop"
    <3>1. rx[sender].pc # "react"
      <4>1. ClientLine \in Seq(SafePacket)
        BY Hypothesis, LineParts DEF ClientLine
      <4>2. ClientLine = <<>>
        BY <1>1, <2>2, <4>1, KindsOf, Zenon
      <4> QED
        <5>1. PICK b, d, p : b = queue[sender][FirstFd] /\ d = wire[recver][sender]
                             /\ p = rx[sender].pkt
          OBVIOUS
        <5>2. b \in Seq(SafePacket) /\ d \in Seq(SafePacket) /\ b \o d \in Seq(SafePacket)
          BY <5>1, Hypothesis, LineParts, ConcatProperties, Zenon
        <5>3. PICK e : e = b \o d
          BY Zenon
        <5>4. <<p>> \o e # <<>>
          BY <5>2, <5>3
        <5> QED
          BY <4>2, <5>1, <5>3, <5>4 DEF ClientLine, LineOf, HandOf
    <3>2. rx[sender].pc # "store"
      BY <1>1, <1>7, <2>1, ClientIs DEF ClientThread
    <3> QED
      BY <3>1, <3>2, Hypothesis DEF TypeOK, RxThread
  <2>4. ClientAt' = "FINWAIT1"
    BY <1>3, <1>13, <2>3
    DEF ClientCloses, Orderly, ClientAt, Committed, ClientSock, ClientFd
  <2>5. Kinds(Line') = l \o <<"FIN">>
    BY <1>5, <1>13 DEF ClientCloses, Segment
  <2>6. InPhase' /\ ~Unacked'
    BY <1>2, <1>3, <2>1, <2>2, <2>4, <2>5, SendPhase DEF InPhase, Unacked, Busy
  <2>7. WriteWaits'
    BY <1>7, <1>13, <2>6 DEF ClientCloses, Orderly, AppTo, WriteWaits, SameStream
  <2>8. ClientThread'
    BY <1>3, <2>3 DEF ClientThread
  <2> QED
    BY <1>1, <1>3, <2>1, <2>4, <2>6, <2>7, <2>8 DEF Phased, GoesOn, Onward
<1>14. CASE ClientStoresClose
  BY <1>7, <1>14 DEF ClientStoresClose, WriteWaits
<1> QED
  BY <1>8, <1>9, <1>10, <1>11, <1>12, <1>13, <1>14 DEF ClientActs, ClientStep

\* The server's thread: accept() makes and opens its socket before the client
\* connects.
LEMMA ServerActsPhased ==
  ASSUME OneWay, StreamIInv, IInv', ServerActs, OneSocket, Phased
  PROVE  Phased' /\ GoesOn
<1> USE DEF StreamIInv, StreamInv, IInv
<1>1. /\ UNCHANGED <<queue, wire, rx>>
      /\ sock'[sender] = sock[sender] /\ app'[sender] = app[sender]
  BY ServerActsSockets DEF ServerActs, KeepsClient
<1>2. Line' = Line /\ ClientLine' = ClientLine /\ ClientSock' = ClientSock
  BY <1>1 DEF Line, ClientLine, LineOf, HandOf, ClientSock, ClientFd
<1>3. CASE ServerSock'.status = ServerSock.status
  <2>1. ServerAt' = ServerAt
    BY <1>1, <1>3 DEF ServerAt, Committed, ServerSock
  <2> QED
    BY <1>1, <1>2, <2>1, PhasedKept
<1>4. CASE ServerAccepts \/ ServerPromotes
  <2>1. ~Taken /\ rx[recver].pc = "pop" /\ ServerSock.status \in {"FREE", "CLOSED"}
    <3>1. ServerSock.remote = NoEndpoint /\ ServerSock.status \in {"FREE", "CLOSED"}
      BY <1>4 DEF ServerAccepts, ServerPromotes, ServerInv, Accepts, Fresh
    <3> QED
      BY <3>1, ServerIs, Hypothesis DEF Taken
  <2>2. ServerAt \in {"FREE", "CLOSED"}
    BY <2>1, ServerIs
  <2>3. ServerAt' \in {"CLOSED", "LISTEN"}
    <3>1. ServerSock'.status \in {"CLOSED", "LISTEN"}
      BY <1>4 DEF ServerAccepts, ServerPromotes, ServerInv, Fresh
    <3> QED
      BY <1>1, <2>1, <3>1 DEF ServerAt, Committed, ServerSock
  <2>4. ClientAt' = ClientAt /\ ClientAt \in {"FREE", "NONE"}
    <3>1. ClientAt \in {"FREE", "NONE", "SYNSENT"}
      BY <2>1 DEF HandshakeInv, Answered, ClientAt
    <3> QED
      BY <1>1, <2>2, <3>1 DEF Phased, InPhase, Phase, ClientAt, Committed
  <2>5. InPhase' /\ (Unacked' => Unacked)
    BY <1>2, <2>2, <2>3, <2>4 DEF Phased, InPhase, Unacked, Phase, Busy
  <2>6. WriteWaits'
    BY <1>1, <1>2, <2>4, <2>5, WriteWaitsKept DEF Phased
  <2>7. ClientThread'
    BY <1>1, <1>2, ZenonT(40) DEF Phased, ClientThread
  <2> QED
    BY <2>2, <2>3, <2>4, <2>5, <2>6, <2>7 DEF Phased, GoesOn, Onward
<1>5. ServerSock'.status = ServerSock.status \/ ServerAccepts \/ ServerPromotes
  <2>1. FirstFd \in Fd /\ ServerFd \in Fd /\ ServerFd # FirstFd /\ recver \in Host
    BY Hypothesis
  <2> QED
    BY <2>1
    DEF ServerActs, ServerStep, ServerSocket, ServerBinds, ServerDemotes, ServerWaits,
        ServerAwaitsAck, ServerAccepted, ServerReads, ServerHasRead, ServerCloses,
        ServerClosed, ServerMoves, OnlySock, SameState, ServerSock
<1> QED
  BY <1>3, <1>4, <1>5

\* processip of the client.
LEMMA ClientReceivesPhased ==
  ASSUME OneWay, StreamIInv, IInv', ClientReceives, OneSocket, Phased
  PROVE  Phased' /\ GoesOn
<1> USE DEF StreamIInv, StreamInv, IInv
<1>1. PICK c, s, l, k : /\ c = ClientAt /\ s = ServerAt
                        /\ l = Kinds(Line) /\ k = Kinds(ClientLine)
  OBVIOUS
<1>2. Phase(c, s, l, k) /\ (Unacked <=> Busy(c, l, k))
  BY <1>1 DEF Phased, InPhase, Unacked
<1>3. /\ sender \in Host /\ recver \in Host /\ FirstFd \in Fd /\ ServerFd \in Fd
      /\ sender # recver
  BY Hypothesis
<1>4. /\ KeepsServer /\ s = ServerAt' /\ rx'[sender].fd = FirstFd
      /\ rx'[recver] = rx[recver] /\ queue'[recver] = queue[recver]
  BY <1>1 DEF ClientReceives, KeepsServer, ServerAt, Committed
<1>5. WriteWaits /\ ClientThread
  BY DEF Phased
<1>6. rx[sender].pc # "pop" => /\ rx[sender].fd = FirstFd /\ rx[sender].pkt.src = sport
                               /\ RxSock(sender) = ClientSock
  BY ClientIs, InClientsHand DEF FromServer, RxSock, ClientSock, ClientFd
<1>7. wire'[recver][sender] = wire[recver][sender] /\ (wire' = wire => Line' = Line)
  <2>1. wire' = wire \/ \E ps : SendTCPPackets(sender, sport, ps)
    BY <1>6, Zenon DEF ClientReceives, RxMoves, Pops, Reacts, Stores, Ignores, StoresData, Acks
  <2> QED
    BY <1>4, <2>1, SentOnLine, Zenon DEF Line, LineOf, HandOf
<1>8. ASSUME NEW ps, NEW T, ps \in Seq(T), SendTCPPackets(sender, sport, ps)
      PROVE  Kinds(Line') = l \o Kinds(ps)
  <2>1. wire'[sender][recver] = wire[sender][recver] \o ps /\ TypeOK
    BY <1>8, SentOnLine
  <2>2. Kinds(Line') = Kinds(Line) \o Kinds(ps)
    BY <1>3, <1>4, <1>8, <2>1, KindsSent, SMTT(40) DEF Line
  <2> QED
    BY <1>1, <2>2
<1>9. ASSUME rx[sender].pc = "react", rx'[sender].pc # "react", queue' = queue
      PROVE  /\ c = ClientSock.status /\ rx[sender].seen = c
             /\ k # <<>> /\ k[1] = rx[sender].pkt.kind /\ Kinds(ClientLine') = Tail(k)
  <2>1. c = ClientSock.status /\ rx[sender].seen = c
    BY <1>1, <1>5, <1>9, ClientIs DEF ClientThread
  <2>2. TypeOK /\ queue'[sender][FirstFd] = queue[sender][FirstFd]
    BY <1>9
  <2>3. /\ Kinds(ClientLine) # <<>> /\ Kinds(ClientLine)[1] = rx[sender].pkt.kind
        /\ Kinds(ClientLine') = Tail(Kinds(ClientLine))
    BY <1>3, <1>7, <1>9, <2>2, KindsDone DEF ClientLine
  <2> QED
    BY <1>1, <2>1, <2>3
<1>10. CASE Pops(sender)
  <2>1. ClientAt' = ClientAt /\ ClientSock' = ClientSock
    BY <1>10 DEF Pops, ClientAt, Committed, ClientSock
  <2>2. ClientLine' = ClientLine
    BY <1>3, <1>4, <1>10, LinePops DEF ClientLine
  <2>3. Line' = Line
    BY <1>7, <1>10 DEF Pops
  <2>4. InPhase' /\ (Unacked' => Unacked)
    BY <1>1, <1>2, <1>4, <2>1, <2>2, <2>3 DEF InPhase, Unacked
  <2>5. WriteWaits'
    BY <1>5, <1>10, <2>1, <2>4, WriteWaitsKept DEF Pops
  <2>6. ClientThread'
    BY <1>4, <1>10 DEF Pops, ClientThread, ClientSock, ClientFd
  <2> QED
    BY <1>1, <1>4, <2>1, <2>4, <2>5, <2>6 DEF Phased, GoesOn, Onward
<1>11. CASE Reacts(sender)
  <2>1. PICK r \in Rules : r = rx'[sender].rule
    BY <1>11 DEF Reacts
  <2>2. /\ c = ClientSock.status /\ rx[sender].seen = c
        /\ k # <<>> /\ k[1] = rx[sender].pkt.kind /\ Kinds(ClientLine') = Tail(k)
    BY <1>9, <1>11 DEF Reacts
  <2>3. r.on = k[1] /\ r.at = c
    BY <1>6, <1>11, <2>1, <2>2 DEF Reacts
  <2>4. /\ Phase(r.to, s, l \o r.send, Tail(k))
        /\ ~Busy(r.to, l \o r.send, Tail(k))
        /\ r.to \in {"ESTAB", "FINWAIT2", "TIMEWAIT"}
        /\ r.to = "ESTAB" => c = "SYNSENT"
        /\ r.to # "ESTAB" => c \in {"FINWAIT1", "FINWAIT2"}
        /\ Onward(c, s, r.to, s)
    BY <1>2, <2>2, <2>3, ClientRulePhase
  <2>5. Kinds(Line') = l \o r.send
    <3>1. PICK ps, T : /\ ps = [i \in DOMAIN r.send |-> Reply(rx[sender].pkt, r.send[i])]
                       /\ T = {ps[i] : i \in DOMAIN r.send}
      BY Zenon
    <3>2. ps \in Seq(T) /\ Kinds(ps) = r.send
      <4>1. ps \in [DOMAIN r.send -> T]
        BY <3>1
      <4>2. \A i \in DOMAIN r.send : ps[i].kind = r.send[i]
        BY <3>1, SMTT(40) DEF Reply, Segment
      <4> QED
        BY <4>1, <4>2, KindsAnswered
    <3>3. SendTCPPackets(sender, sport, ps)
      BY <1>6, <1>11, <2>1, <3>1 DEF Reacts
    <3> QED
      BY <1>8, <3>2, <3>3, Zenon
  <2>6. ClientAt' = r.to /\ ClientSock' = ClientSock
    BY <1>4, <1>11, <2>1 DEF Reacts, ClientAt, Committed, ClientSock
  <2>7. InPhase' /\ ~Unacked'
    BY <1>4, <2>2, <2>4, <2>5, <2>6 DEF InPhase, Unacked
  <2>8. WriteWaits'
    BY <1>1, <1>5, <1>11, <2>4, <2>6, <2>7, WriteWaitsKept DEF Reacts
  <2>9. ClientThread'
    <3>1. c = "SYNSENT" => "conn" \notin ClientSock.ready
      BY <1>1 DEF ClientInv, Answered, ClientAt
    <3> QED
      BY <1>11, <2>1, <2>2, <2>3, <2>4, <2>6, <3>1 DEF Reacts, ClientThread
  <2> QED
    BY <1>1, <1>4, <2>4, <2>6, <2>7, <2>8, <2>9 DEF Phased, GoesOn
<1>12. CASE Stores(sender)
  <2>1. Line' = Line /\ ClientLine' = ClientLine
    BY <1>7, <1>12, SMTT(40) DEF Stores, Idles, ClientLine, LineOf, HandOf
  <2>2. ClientAt' = ClientAt
    BY <1>4, <1>6, <1>12, ClientIs DEF Stores, Idles, ClientAt, Committed
  <2>3. InPhase' /\ (Unacked' => Unacked)
    BY <1>1, <1>2, <1>4, <2>1, <2>2, SMTT(40) DEF InPhase, Unacked
  <2>4. /\ ClientSock'.writep = ClientSock.writep /\ ClientSock'.sizep = ClientSock.sizep
        /\ Notified(sender) /\ rx'[sender].pc = "pop"
    BY <1>6, <1>12 DEF Stores, Idles, SameStream, ClientSock, ClientFd
  <2>5. WriteWaits'
    BY <1>5, <2>2, <2>3, <2>4, WriteWaitsKept
  <2>6. ClientThread'
    BY <2>4 DEF ClientThread
  <2> QED
    BY <1>1, <1>4, <2>2, <2>3, <2>5, <2>6 DEF Phased, GoesOn, Onward
<1>13. CASE Ignores(sender)
  <2>1. /\ c = ClientSock.status /\ rx[sender].seen = c
        /\ k # <<>> /\ k[1] = rx[sender].pkt.kind /\ Kinds(ClientLine') = Tail(k)
    BY <1>9, <1>13 DEF Ignores, Idles
  <2>2. k[1] = "ACK" /\ c = "ESTAB"
    BY <1>2, <1>6, <1>13, <2>1, PhaseAnswers DEF Ignores, Applicable
  <2>3. Phase(c, s, l, Tail(k)) /\ ~Busy(c, l, Tail(k))
    BY <1>2, <2>1, <2>2, DataPhase
  <2>4. /\ ClientAt' = c /\ ClientSock' = ClientSock /\ Line' = Line
        /\ app' = app /\ rx'[sender].pc = "pop"
    BY <1>1, <1>7, <1>13, <2>1 DEF Ignores, Idles, ClientAt, Committed, ClientSock, ClientFd
  <2>5. InPhase' /\ ~Unacked'
    BY <1>1, <1>4, <2>1, <2>3, <2>4 DEF InPhase, Unacked
  <2>6. WriteWaits'
    BY <1>1, <1>5, <2>4, <2>5, WriteWaitsKept
  <2>7. ClientThread'
    BY <2>4 DEF ClientThread
  <2> QED
    BY <1>1, <1>4, <2>4, <2>5, <2>6, <2>7 DEF Phased, GoesOn, Onward
<1>14. CASE StoresData(sender)
  <2>1. k # <<>> /\ k[1] = "DATA"
    BY <1>9, <1>14 DEF StoresData, Idles
  <2> QED
    BY <1>2, <2>1, PhaseAnswers, SMTT(40)
<1>15. CASE Acks(sender)
  <2>1. PICK p : p = rx[sender].pkt
    BY SMTT(40)
  <2>2. /\ c = ClientSock.status /\ rx[sender].seen = c
        /\ k # <<>> /\ k[1] = "ACK" /\ Kinds(ClientLine') = Tail(k)
    BY <1>9, <1>15, Zenon DEF Acks, Idles
  <2>3. c = "ESTAB"
    BY <1>6, <1>15, <2>2, Zenon DEF Acks, RxSock
  <2>4. /\ Phase(c, s, l, Tail(k)) /\ ~Busy(c, l, Tail(k))
        /\ Phase(c, s, l \o <<"DATA">>, Tail(k)) /\ Busy(c, l, k)
    BY <1>2, <2>2, <2>3, DataPhase, Zenon
  <2>5. app[sender].pc = "spin"
    BY <1>2, <1>5, <2>4 DEF WriteWaits
  <2>6. /\ ClientSock'.writep = p.ack /\ ClientSock'.sizep = ClientSock.sizep
        /\ ClientSock'.status = ClientSock.status /\ app' = app /\ rx'[sender].pc = "pop"
    BY <1>6, <1>15, <2>1
    DEF Acks, Idles, SameState, SameBuffer, ClientSock, ClientFd, RxSock
  <2>7. ClientAt' = c
    BY <2>2, <2>6 DEF ClientAt, Committed, ClientSock, ClientFd
  <2>8. \/ Kinds(Line') = l
        \/ Kinds(Line') = l \o <<"DATA">> /\ p.ack < ClientSock.sizep
    <3>1. CASE wire' = wire
      BY <1>1, <1>7, <3>1
    <3>2. CASE wire' # wire
      <4>1. PICK q : /\ q.kind = "DATA" /\ p.ack < ClientSock.sizep
                     /\ SendTCPPackets(sender, sport, <<q>>)
        BY <1>6, <1>15, <2>1, <3>2, Zenon DEF Acks, Segment, RxSock
      <4>2. PICK ps, T : ps = <<q>> /\ T = {q}
        BY Zenon
      <4>3. ps \in Seq(T) /\ SendTCPPackets(sender, sport, ps) /\ Kinds(ps) = <<"DATA">>
        <5>1. ps \in Seq(T)
          BY <4>2
        <5> QED
          BY <4>1, <4>2, <5>1, KindsOfOne
      <4> QED
        BY <1>8, <4>1, <4>3, Zenon
    <3> QED
      BY <3>1, <3>2
  <2>9. InPhase'
    BY <1>4, <2>2, <2>4, <2>7, <2>8, Zenon DEF InPhase
  <2>10. Unacked' => p.ack < ClientSock.sizep
    BY <2>2, <2>4, <2>7, <2>8 DEF Unacked
  <2>11. WriteWaits'
    BY <2>3, <2>5, <2>6, <2>7, <2>10 DEF WriteWaits
  <2>12. ClientThread'
    BY <2>6 DEF ClientThread
  <2> QED
    BY <1>1, <1>4, <2>7, <2>9, <2>11, <2>12 DEF Phased, GoesOn, Onward
<1> QED
  BY <1>10, <1>11, <1>12, <1>13, <1>14, <1>15 DEF ClientReceives, RxMoves

\* processip of the server.
LEMMA ServerReceivesPhased ==
  ASSUME OneWay, StreamIInv, IInv', ServerReceives, OneSocket, Phased
  PROVE  Phased' /\ GoesOn
<1> USE DEF StreamIInv, StreamInv, IInv
<1>1. PICK c, s, l, k : /\ c = ClientAt /\ s = ServerAt
                        /\ l = Kinds(Line) /\ k = Kinds(ClientLine)
  OBVIOUS
<1>2. Phase(c, s, l, k) /\ (Unacked <=> Busy(c, l, k))
  BY <1>1 DEF Phased, InPhase, Unacked
<1>3. /\ sender \in Host /\ recver \in Host /\ FirstFd \in Fd /\ ServerFd \in Fd
      /\ sender # recver
  BY Hypothesis
<1>4. /\ rx'[recver].fd = ServerFd /\ wire'[sender][recver] = wire[sender][recver]
      /\ \/ Pops(recver) \/ Reacts(recver) \/ Stores(recver) \/ Ignores(recver)
         \/ StoresData(recver)
  BY ServerReceivesOne
<1>5. WriteWaits /\ ClientThread
  BY DEF Phased
<1>6. /\ c = ClientAt' /\ ClientSock' = ClientSock /\ app'[sender] = app[sender]
      /\ rx'[sender] = rx[sender]
  BY <1>1 DEF ServerReceives, KeepsClient, ClientAt, Committed, ClientSock, ClientFd
<1>7. /\ \A ps : SendTCPPackets(recver, cport, ps) =>
           wire'[recver][sender] = wire[recver][sender] \o ps
      /\ wire' = wire => wire'[recver][sender] = wire[recver][sender]
  BY SentOnLine
<1>8. queue'[sender] = queue[sender]
  <2>1. \A f \in Fd : queue'[sender][f] = queue[sender][f]
    BY <1>3, <1>4, Zenon DEF Pops, Reacts, Stores, Ignores, StoresData, Idles
  <2>2. queue[sender] \in [Fd -> Seq(SafePacket)] /\ queue'[sender] \in [Fd -> Seq(SafePacket)]
    BY <1>3, Zenon DEF TypeOK
  <2> QED
    BY <2>1, <2>2, SMTT(40)
<1>9. wire' = wire => k = Kinds(ClientLine')
  BY <1>1, <1>6, <1>8 DEF ClientLine, LineOf, HandOf
<1>10. ASSUME NEW ps, NEW T, ps \in Seq(T), SendTCPPackets(recver, cport, ps)
       PROVE  Kinds(ClientLine') = k \o Kinds(ps)
  <2>1. wire'[recver][sender] = wire[recver][sender] \o ps /\ TypeOK
    BY <1>10, SentOnLine
  <2>2. Kinds(ClientLine') = Kinds(ClientLine) \o Kinds(ps)
    BY <1>3, <1>6, <1>8, <1>10, <2>1, KindsSent DEF ClientLine
  <2> QED
    BY <1>1, <2>2
<1>11. rx[recver].pc # "pop" => /\ rx[recver].fd = ServerFd /\ rx[recver].pkt.src = cport
                                /\ RxSock(recver) = ServerSock
  BY InServersHand DEF OneSocket, FromClient, RxSock, ServerSock
<1>12. ASSUME rx[recver].pc = "react", rx'[recver].pc # "react", queue' = queue
       PROVE  /\ s = ServerSock.status /\ rx[recver].seen = s
              /\ l # <<>> /\ l[1] = rx[recver].pkt.kind /\ Kinds(Line') = Tail(l)
  <2>1. s = ServerSock.status /\ rx[recver].seen = s
    BY <1>1, <1>11, <1>12, ServerIs DEF RxInv
  <2>2. TypeOK /\ queue'[recver][ServerFd] = queue[recver][ServerFd]
    BY <1>12
  <2>3. /\ Kinds(Line) # <<>> /\ Kinds(Line)[1] = rx[recver].pkt.kind
        /\ Kinds(Line') = Tail(Kinds(Line))
    BY <1>3, <1>4, <1>12, <2>2, KindsDone DEF Line
  <2> QED
    BY <1>1, <2>1, <2>3
<1>13. ASSUME InPhase', Unacked' => Unacked, Onward(c, s, c, ServerAt')
       PROVE  Phased' /\ GoesOn
  <2>1. WriteWaits'
    BY <1>1, <1>5, <1>6, <1>13, WriteWaitsKept
  <2>2. ClientThread'
    BY <1>5, <1>6 DEF ClientThread
  <2> QED
    BY <1>1, <1>6, <1>13, <2>1, <2>2 DEF Phased, GoesOn
<1>14. CASE Pops(recver)
  <2>1. ServerAt' = ServerAt /\ k = Kinds(ClientLine')
    BY <1>9, <1>14 DEF Pops, ServerAt, Committed
  <2>2. Line' = Line
    BY <1>3, <1>4, <1>14, LinePops DEF Line
  <2>3. InPhase' /\ (Unacked' => Unacked)
    BY <1>1, <1>2, <1>6, <2>1, <2>2 DEF InPhase, Unacked
  <2> QED
    BY <1>1, <1>13, <2>1, <2>2, <2>3 DEF Onward
<1>15. CASE Reacts(recver)
  <2>1. PICK r \in Rules : r = rx'[recver].rule
    BY <1>15 DEF Reacts
  <2>2. /\ s = ServerSock.status /\ rx[recver].seen = s
        /\ l # <<>> /\ l[1] = rx[recver].pkt.kind /\ Kinds(Line') = Tail(l)
    BY <1>12, <1>15 DEF Reacts
  <2>3. r.on = l[1] /\ r.at = s
    BY <1>11, <1>15, <2>1, <2>2 DEF Reacts
  <2>4. /\ Phase(c, r.to, Tail(l), k \o r.send)
        /\ Busy(c, Tail(l), k \o r.send) => Busy(c, l, k)
        /\ Onward(c, s, c, r.to)
    BY <1>2, <2>2, <2>3, ServerRulePhase
  <2>5. Kinds(ClientLine') = k \o r.send
    <3>1. PICK ps, T : /\ ps = [i \in DOMAIN r.send |-> Reply(rx[recver].pkt, r.send[i])]
                       /\ T = {ps[i] : i \in DOMAIN r.send}
      BY Zenon
    <3>2. ps \in Seq(T) /\ Kinds(ps) = r.send
      <4>1. ps \in [DOMAIN r.send -> T]
        BY <3>1
      <4>2. \A i \in DOMAIN r.send : ps[i].kind = r.send[i]
        BY <3>1 DEF Reply, Segment
      <4> QED
        BY <4>1, <4>2, KindsAnswered
    <3>3. SendTCPPackets(recver, cport, ps)
      BY <1>11, <1>15, <2>1, <3>1 DEF Reacts
    <3> QED
      BY <1>10, <3>2, <3>3, Zenon
  <2>6. ServerAt' = r.to
    BY <1>4, <1>15, <2>1 DEF Reacts, ServerAt, Committed
  <2>7. InPhase' /\ (Unacked' => Unacked)
    BY <1>2, <1>6, <2>2, <2>4, <2>5, <2>6 DEF InPhase, Unacked
  <2> QED
    BY <1>13, <2>4, <2>6, <2>7
<1>16. CASE Stores(recver)
  <2>1. Line' = Line /\ k = Kinds(ClientLine')
    BY <1>4, <1>9, <1>16, SMTT(40) DEF Stores, Idles, Line, LineOf, HandOf
  <2>2. ServerAt' = ServerAt
    BY <1>4, <1>11, <1>16, ServerIs DEF Stores, Idles, ServerAt, Committed
  <2>3. InPhase' /\ (Unacked' => Unacked)
    BY <1>1, <1>2, <1>6, <2>1, <2>2 DEF InPhase, Unacked
  <2> QED
    BY <1>1, <1>13, <2>1, <2>2, <2>3, SMTT(40) DEF Onward
<1>17. CASE Ignores(recver)
  <2>1. /\ s = ServerSock.status /\ rx[recver].seen = s
        /\ l # <<>> /\ l[1] = rx[recver].pkt.kind
    BY <1>12, <1>17 DEF Ignores, Idles
  <2>2. /\ l[1] # "DATA"
        /\ \/ ~\E r \in Rules : r.on = l[1] /\ r.at = s
           \/ l[1] = "ACK" /\ s = "ESTAB"
    BY <1>11, <1>17, <2>1 DEF Ignores, Applicable
  <2> QED
    BY <1>2, <2>1, <2>2, PhaseAnswers
<1>18. CASE StoresData(recver)
  <2>1. /\ s = ServerSock.status /\ l # <<>> /\ l[1] = "DATA" /\ Kinds(Line') = Tail(l)
    BY <1>12, <1>18 DEF StoresData, Idles
  <2>2. Phase(c, s, Tail(l), k \o <<"ACK">>) /\ Busy(c, l, k)
    BY <1>2, <2>1, DataPhase
  <2>3. Kinds(ClientLine') = k \o <<"ACK">>
    <3>1. PICK q : q.kind = "ACK" /\ SendTCPPackets(recver, cport, <<q>>)
      BY <1>11, <1>18, Zenon DEF StoresData, Segment
    <3>2. PICK ps, T : ps = <<q>> /\ T = {q}
      BY Zenon
    <3>3. ps \in Seq(T) /\ SendTCPPackets(recver, cport, ps) /\ Kinds(ps) = <<"ACK">>
      <4>1. ps \in Seq(T)
        BY <3>2
      <4> QED
        BY <3>1, <3>2, <4>1, KindsOfOne
    <3> QED
      BY <1>10, <3>3, Zenon
  <2>4. ServerAt' = s
    BY <1>4, <1>11, <1>18, <2>1, Zenon
    DEF StoresData, Idles, SameState, ServerAt, Committed, ServerSock
  <2>5. InPhase' /\ Unacked
    BY <1>2, <1>6, <2>1, <2>2, <2>3, <2>4 DEF InPhase
  <2> QED
    BY <1>13, <2>4, <2>5, ZenonT(40) DEF Onward
<1> QED
  BY <1>4, <1>14, <1>15, <1>16, <1>17, <1>18

-----------------------------------------------------------------------------
(* What arrives. *)

\* Nothing is on its way but on the two lines.
NothingElse ==
  /\ wire[sender][sender] = <<>>
  /\ \A f \in Fd \ {FirstFd} : queue[sender][f] = <<>>
  /\ \A f \in Fd \ {FirstFd, ServerFd} : queue[recver][f] = <<>>

\* What arrives at the client is for its socket.
LEMMA ClientsDestination ==
  ASSUME OneWay, StreamIInv, NothingElse, NEW g \in Host, Arrival(g, sender)
  PROVE  g = recver /\ Destination(sender, Head(wire[recver][sender])) = FirstFd
<1> USE DEF StreamIInv, StreamInv, IInv
<1>1. Host = {sender, recver} /\ sender \in Host /\ recver \in Host
  BY Hypothesis, Zenon
<1>2. wire[g][sender] # <<>> /\ g = recver
  BY <1>1, Zenon DEF Arrival, NothingElse
<1>3. PICK w \in Seq(SafePacket) : w = wire[recver][sender]
  BY <1>1 DEF TypeOK
<1>4. PICK p : p = Head(w)
  OBVIOUS
<1>5. p = w[1] /\ 1 \in DOMAIN w
  BY <1>2, <1>3, <1>4
<1>6. p \in Pending(sender)
  BY <1>1, <1>2, <1>3, <1>5, PendingIs
<1>7. FromServer(p)
  BY <1>6 DEF PacketsInv
<1> QED
  BY <1>2, <1>3, <1>4, <1>7, ClientDestination

\* A packet that arrives keeps its place in its line.
LEMMA ArrivalPhased ==
  ASSUME OneWay, StreamIInv, IInv', ClientArrival \/ ServerArrival, OneSyn,
         OneSocket, NothingElse, Phased
  PROVE  Phased' /\ GoesOn
<1> USE DEF StreamIInv, StreamInv, IInv
<1>1. /\ sender \in Host /\ recver \in Host /\ FirstFd \in Fd /\ ServerFd \in Fd
      /\ sender # recver /\ TypeOK
  BY Hypothesis
<1>2. /\ KeepsClient /\ app' = app /\ rx' = rx /\ (ClientArrival => sock' = sock)
  BY ArrivalGrows
<1>3. ClientSock' = ClientSock
  BY <1>2 DEF KeepsClient, ClientSock, ClientFd
<1>4. CASE ClientArrival
  <2>1. /\ Arrival(recver, sender)
        /\ Destination(sender, Head(wire[recver][sender])) = FirstFd
    BY <1>4, ClientsDestination DEF ClientArrival
  <2>2. ClientLine' = ClientLine
    BY <1>1, <2>1, LineArrives DEF ClientLine
  <2>3. Line' = Line
    <3>1. wire'[sender][recver] = wire[sender][recver]
      BY <1>1, <2>1, ZenonT(40) DEF Arrival, Arrives, TypeOK
    <3>2. queue'[recver] = queue[recver]
      BY <1>4 DEF ClientArrival, KeepsServer
    <3> QED
      BY <1>2, <3>1, <3>2, ZenonT(40) DEF Line, LineOf, HandOf
  <2>4. ServerAt' = ServerAt
    BY <1>2, <1>4 DEF ServerAt, Committed
  <2> QED
    BY <1>2, <1>3, <2>2, <2>3, <2>4, PhasedKept
<1>5. CASE ServerArrival
  <2>1. /\ Arrival(sender, recver)
        /\ Destination(recver, Head(wire[sender][recver])) = ServerFd
    BY <1>5, OneDestination DEF ServerArrival
  <2>2. Line' = Line
    BY <1>1, <2>1, LineArrives DEF Line
  <2>3. ClientLine' = ClientLine
    <3>1. wire'[recver][sender] = wire[recver][sender]
      BY <1>1, <2>1, Zenon DEF Arrival, Arrives, TypeOK
    <3>2. queue'[sender][FirstFd] = queue[sender][FirstFd]
      BY <1>1, <2>1, Zenon DEF Arrival
    <3> QED
      BY <1>2, <3>1, <3>2, Zenon DEF ClientLine, LineOf, HandOf
  <2>4. ServerAt' = ServerAt
    <3>1. ServerSock'.status = ServerSock.status
      BY <2>1, Zenon DEF Arrival, SameState, ServerSock
    <3> QED
      BY <1>2, <3>1, Zenon DEF ServerAt, Committed, ServerSock
  <2> QED
    BY <1>2, <1>3, <2>2, <2>3, <2>4, PhasedKept
<1> QED
  BY <1>4, <1>5

\* No step leaves the phases.
LEMMA PhasedStep ==
  ASSUME OneWay, Orderly, StreamIInv, IInv', [Next]_vars, OneSyn, OneSocket,
         NothingElse, Phased, ~ServerDies
  PROVE  Phased' /\ GoesOn
<1>1. CASE UNCHANGED vars
  <2>1. /\ ClientSock' = ClientSock /\ app' = app /\ rx' = rx /\ ServerAt' = ServerAt
        /\ Line' = Line /\ ClientLine' = ClientLine
    BY <1>1 DEF vars, Line, ClientLine, LineOf, HandOf, ClientSock, ClientFd,
                ServerAt, Committed
  <2> QED
    BY <2>1, PhasedKept
<1>2. ~Faulty
  BY NothingFaulty DEF Orderly
<1> QED
  BY <1>1, <1>2, ClientActsPhased, ClientReceivesPhased, ServerActsPhased,
     ServerReceivesPhased, ArrivalPhased, Steps

\* Every packet goes to one of the two lines.
LEMMA NothingElseStep ==
  ASSUME OneWay, Faults = {}, StreamIInv, IInv', [Next]_vars, OneSyn, OneSocket,
         NothingElse, ~ServerDies
  PROVE  NothingElse'
<1> USE DEF StreamIInv, StreamInv, IInv
<1>1. /\ FirstFd \in Fd /\ ServerFd \in Fd /\ Host = {sender, recver}
      /\ sender \in Host /\ recver \in Host /\ sender # recver
  BY Hypothesis
<1>2. CASE ClientActs
  <2>1. queue' = queue
    BY <1>2 DEF ClientActs, ClientStep, ClientFrame
  <2>2. wire' = wire \/ \E ps : SendTCPPackets(sender, sport, ps)
    BY <1>2
    DEF ClientActs, ClientStep, ClientSocket, ClientConnects, ClientWaits,
        ClientConnected, ClientAppends, ClientSends, ClientWritten, ClientCloses,
        ClientStoresClose, ClientClosed, ClientMoves
  <2>3. wire'[sender][sender] = <<>>
    BY <2>2, SentOnLine DEF NothingElse
  <2> QED
    BY <2>1, <2>3 DEF NothingElse
<1>3. CASE ClientReceives
  <2>1. rx[sender].pc # "pop" => rx[sender].pkt.src = sport
    BY InClientsHand, Zenon DEF FromServer
  <2>2. wire' = wire \/ \E ps : SendTCPPackets(sender, sport, ps)
    BY <1>3, <2>1, Zenon
    DEF ClientReceives, RxMoves, Pops, Reacts, Stores, Ignores, StoresData, Acks
  <2>3. wire'[sender][sender] = <<>>
    BY <2>2, SentOnLine DEF NothingElse
  <2>4. queue'[recver] = queue[recver] /\ rx'[sender].fd = FirstFd
    BY <1>3, Zenon DEF ClientReceives, KeepsServer
  <2>5. \A f \in Fd \ {FirstFd} : queue'[sender][f] = queue[sender][f]
    BY <1>1, <1>3, <2>4, Zenon
    DEF ClientReceives, RxMoves, Pops, Reacts, Stores, Ignores, StoresData, Acks, Idles
  <2> QED
    BY <2>3, <2>4, <2>5 DEF NothingElse
<1>4. CASE ServerActs
  BY <1>4, ServerActsSockets DEF NothingElse
<1>5. CASE ServerReceives
  <2>1. rx'[recver].fd = ServerFd /\ ~Accepts
    BY <1>5, ServerReceivesOne
  <2>2. \/ Pops(recver) \/ Reacts(recver) \/ Stores(recver) \/ Ignores(recver)
        \/ StoresData(recver)
    BY <1>5, ServerReceivesOne, ZenonT(40)
  <2>3. \A h \in Host, f \in Fd : (h # recver \/ f # ServerFd) =>
          queue'[h][f] = queue[h][f]
    BY <2>1, <2>2, Zenon DEF Pops, Reacts, Stores, Ignores, StoresData, Idles
  <2>4. wire'[sender][sender] = wire[sender][sender]
    <3>1. rx[recver].pc # "pop" => rx[recver].pkt.src = cport
      BY InServersHand, ZenonT(40) DEF FromClient
    <3>2. wire' = wire \/ \E ps : SendTCPPackets(recver, cport, ps)
      BY <2>2, <3>1, Zenon DEF Pops, Reacts, Stores, Ignores, StoresData
    <3> QED
      BY <3>2, SentOnLine
  <2> QED
    BY <1>1, <2>3, <2>4 DEF NothingElse
<1>6. CASE ClientArrival
  <2>1. /\ Arrival(recver, sender)
        /\ Destination(sender, Head(wire[recver][sender])) = FirstFd
    BY <1>6, ClientsDestination, Zenon DEF ClientArrival
  <2>2. wire'[sender][sender] = wire[sender][sender]
    BY <1>1, <2>1, Zenon DEF Arrival, Arrives, TypeOK
  <2>3. \A h \in Host, f \in Fd : (h # sender \/ f # FirstFd) =>
          queue'[h][f] = queue[h][f]
    BY <2>1, Zenon DEF Arrival
  <2> QED
    BY <1>1, <2>2, <2>3 DEF NothingElse
<1>7. CASE ServerArrival
  <2>1. /\ Arrival(sender, recver)
        /\ Destination(recver, Head(wire[sender][recver])) = ServerFd
    BY <1>7, OneDestination, Zenon DEF ServerArrival
  <2>2. wire'[sender][sender] = wire[sender][sender]
    BY <1>1, <2>1, Zenon DEF Arrival, Arrives, TypeOK
  <2>3. \A h \in Host, f \in Fd : (h # recver \/ f # ServerFd) =>
          queue'[h][f] = queue[h][f]
    BY <2>1, Zenon DEF Arrival
  <2> QED
    BY <1>1, <2>2, <2>3 DEF NothingElse
<1>8. CASE UNCHANGED vars
  BY <1>8 DEF vars, NothingElse
<1> QED
  BY <1>2, <1>3, <1>4, <1>5, <1>6, <1>7, <1>8, Steps, NothingFaulty

-----------------------------------------------------------------------------
(* The invariant of a connection that is orderly. *)

OrderlyInv ==
  /\ up[recver] /\ OneSyn /\ OneSocket /\ NoGap /\ ReadSame
  /\ NothingElse /\ Phased

\* In the beginning nothing is on its way.
LEMMA OrderlyInit ==
  ASSUME OneWay, Init
  PROVE  OrderlyInv
<1>1. FirstFd \in Fd /\ ServerFd \in Fd /\ sender \in Host /\ recver \in Host
  BY Hypothesis
<1>2. /\ \A h \in Host : \A f \in Fd : sock[h][f] = NoSocket /\ queue[h][f] = <<>>
      /\ \A h \in Host : \A g \in Host : wire[g][h] = <<>>
      /\ \A h \in Host : rx[h].pc = "pop" /\ app[h].ip = 1 /\ app[h].pc = "call"
      /\ up[recver]
  BY <1>1 DEF Init
<1>3. OneSyn /\ OneSocket /\ NoGap /\ ReadSame
  BY <1>2, InOrderInit DEF InOrder
<1>4. NothingElse
  BY <1>1, <1>2 DEF NothingElse
<1>5. Kinds(Line) = <<>> /\ Kinds(ClientLine) = <<>>
  <2>1. /\ HandOf(recver) = <<>> /\ queue[recver][ServerFd] = <<>>
        /\ wire[sender][recver] = <<>>
        /\ HandOf(sender) = <<>> /\ queue[sender][FirstFd] = <<>>
        /\ wire[recver][sender] = <<>>
    BY <1>1, <1>2 DEF HandOf
  <2>2. Line = <<>> /\ ClientLine = <<>>
    BY <2>1 DEF Line, ClientLine, LineOf
  <2>3. <<>> \in Seq(SafePacket)
    OBVIOUS
  <2> QED
    BY <2>2, <2>3, KindsOf, Zenon
<1>6. ClientSock.writep = ClientSock.sizep /\ ClientAt = "FREE" /\ ServerAt = "FREE"
  BY <1>1, <1>2 DEF ClientSock, ClientFd, ClientAt, ServerAt, Committed, NoSocket
<1>7. InPhase /\ ~Unacked
  BY <1>5, <1>6 DEF InPhase, Unacked, Phase, Busy
<1>8. WriteWaits
  BY <1>1, <1>2, <1>6, <1>7 DEF WriteWaits
<1>9. ClientThread
  BY <1>1, <1>2 DEF ClientThread
<1> QED
  BY <1>2, <1>3, <1>4, <1>7, <1>8, <1>9 DEF OrderlyInv, Phased

\* It is inductive, and the ends go on as they should.
LEMMA OrderlyStep ==
  ASSUME OneWay, Orderly, StreamIInv, IInv', [Next]_vars, OrderlyInv
  PROVE  OrderlyInv' /\ GoesOn
<1>1. Faults = {} /\ "start" \notin Races
  BY DEF Orderly
<1>2. up[recver] /\ OneSyn /\ OneSocket /\ NoGap /\ ReadSame /\ NothingElse /\ Phased
  BY DEF OrderlyInv
<1>3. ~ServerDies
  BY <1>1, <1>2, SynFindsListener
<1>4. OneSyn' /\ up'[recver]
  BY <1>1, <1>2, <1>3, OneSynStep, Zenon
<1>5. OneSocket' /\ NoGap'
  BY <1>1, <1>2, <1>3, OneSocketStep, NoGapStep
<1>6. ReadSame'
  BY <1>1, <1>2, ReadSameStep DEF InOrder
<1>7. NothingElse'
  BY <1>1, <1>2, <1>3, NothingElseStep
<1>8. Phased' /\ GoesOn
  BY <1>2, <1>3, PhasedStep
<1> QED
  BY <1>4, <1>5, <1>6, <1>7, <1>8 DEF OrderlyInv

\* The invariant of all that follows.
LEMMA OrderlyInductive ==
  ASSUME OneWay, Orderly
  PROVE  Spec => [](StreamIInv /\ OrderlyInv)
<1>1. Init => OrderlyInv
  BY OrderlyInit
<1>2. ASSUME StreamIInv, IInv', [Next]_vars, OrderlyInv PROVE OrderlyInv'
  BY <1>2, OrderlyStep
<1>3. StreamIInv => IInv
  BY DEF StreamIInv
<1> QED
  BY <1>1, <1>2, <1>3, StreamInductive, PTL DEF Spec

\* When nothing is lost and every write is longer than a segment, close() leaves
\* no byte behind: write() has returned after the acknowledgement of its last
\* byte, and no late ACK has moved writep back.
THEOREM ClosesAfterTheLastByte ==
  ASSUME OneWay, Orderly
  PROVE  Spec => []AllSentBeforeClose
<1>1. ASSUME StreamIInv, OrderlyInv PROVE AllSentBeforeClose
  <2> USE DEF StreamIInv, StreamInv, IInv
  <2>1. SUFFICES ASSUME ClientSock.status \in {"FINWAIT1", "FINWAIT2", "CLOSING", "TIMEWAIT"}
                 PROVE  ClientSock.writep = ClientSock.sizep
    BY DEF AllSentBeforeClose
  <2>2. InPhase /\ WriteWaits /\ ClientThread
    BY <1>1 DEF OrderlyInv, Phased
  <2>3. ClientAt \in {"FINWAIT1", "FINWAIT2", "CLOSING", "TIMEWAIT"}
    <3>1. CASE rx[sender].pc # "store"
      BY <1>1, <2>1, <3>1, ClientIs
    <3>2. CASE rx[sender].pc = "store"
      <4>1. PICK r : r = rx[sender].rule
        OBVIOUS
      <4>2. r \in Rules
        BY <1>1, <3>2, <4>1, Hypothesis DEF PendingSocketsExist, PendingExist
      <4>3. r.at = ClientSock.status /\ r.to \in {"ESTAB", "FINWAIT2", "TIMEWAIT"}
        BY <2>2, <3>2, <4>1 DEF ClientThread
      <4>4. r.to # "ESTAB"
        BY <2>1, <4>2, <4>3 DEF Rules, Rule
      <4> QED
        BY <1>1, <3>2, <4>1, <4>3, <4>4, ClientIs
    <3> QED
      BY <3>1, <3>2
  <2>4. ClientAt \in {"FINWAIT1", "FINWAIT2", "TIMEWAIT"}
    BY <2>2, <2>3 DEF InPhase, Phase
  <2>5. app[sender].pc \notin {"send", "spin"}
    <3>1. app[sender].ip \in Nat /\ Len(Script[sender]) \in Nat
      BY <1>1, Hypothesis DEF TypeOK, AppThread
    <3>2. InCall(sender)
      BY <1>1, Hypothesis DEF CallsInv
    <3> QED
      BY <2>2, <2>4, <3>1, <3>2 DEF WriteWaits, InCall
  <2> QED
    BY <2>2, <2>5 DEF WriteWaits
<1> QED
  BY <1>1, OrderlyInductive, PTL

\* A set of at most one element.
LEMMA AtMostOne ==
  ASSUME NEW S, NEW x, S \subseteq {x}
  PROVE  /\ Cardinality(S) \in Nat /\ Cardinality(S) <= 1
         /\ S = {} => Cardinality(S) = 0
<1>1. S = {} \/ S = {x}
  OBVIOUS
<1>2. Cardinality({}) = 0 /\ Cardinality({x}) = 1
  BY FS_EmptySet, FS_Singleton, Zenon
<1> QED
  BY <1>1, <1>2

\* How many packets are on a line.
LEMMA LineLength ==
  ASSUME TypeOK, NEW h \in Host, NEW f \in Fd, NEW g \in Host
  PROVE  /\ Len(HandOf(h)) = (IF rx[h].pc = "react" THEN 1 ELSE 0)
         /\ Len(queue[h][f]) \in Nat /\ Len(wire[g][h]) \in Nat
         /\ Len(LineOf(h, f, g)) = Len(HandOf(h)) + Len(queue[h][f]) + Len(wire[g][h])
<1>1. Len(HandOf(h)) = (IF rx[h].pc = "react" THEN 1 ELSE 0)
  BY DEF HandOf
<1>2. PICK a, b, d : a = HandOf(h) /\ b = queue[h][f] /\ d = wire[g][h]
  OBVIOUS
<1>3. a \in Seq(SafePacket) /\ b \in Seq(SafePacket) /\ d \in Seq(SafePacket)
  BY <1>2, LineParts
<1>4. Len(a \o (b \o d)) = Len(a) + Len(b) + Len(d)
  BY <1>3
<1> QED
  BY <1>1, <1>2, <1>3, <1>4 DEF LineOf

\* With one packet on the two lines, one packet is on its way.
LEMMA OneInTransit ==
  ASSUME OneWay, StreamIInv, OneSocket, NothingElse,
         Len(Line) + Len(ClientLine) <= 1, NEW kinds
  PROVE  InTransit(kinds) <= 1
<1> USE DEF StreamIInv, StreamInv, IInv
<1>1. /\ FirstFd \in Fd /\ ServerFd \in Fd /\ Host = {sender, recver}
      /\ sender \in Host /\ recver \in Host /\ sender # recver
  BY Hypothesis
<1>2. PICK a, b, c, a2, b2, c2 :
        /\ a = Len(wire[sender][recver]) /\ b = Len(queue[recver][ServerFd])
        /\ a2 = Len(wire[recver][sender]) /\ b2 = Len(queue[sender][FirstFd])
        /\ c = Len(HandOf(recver)) /\ c2 = Len(HandOf(sender))
  BY Zenon
<1>3. /\ a \in Nat /\ b \in Nat /\ a2 \in Nat /\ b2 \in Nat
      /\ c = (IF rx[recver].pc = "react" THEN 1 ELSE 0)
      /\ c2 = (IF rx[sender].pc = "react" THEN 1 ELSE 0)
      /\ a + b + c + a2 + b2 + c2 <= 1
  <2>1. Len(Line) = c + b + a /\ a \in Nat /\ b \in Nat
        /\ c = (IF rx[recver].pc = "react" THEN 1 ELSE 0)
    BY <1>1, <1>2, LineLength, Zenon DEF Line
  <2>2. Len(ClientLine) = c2 + b2 + a2 /\ a2 \in Nat /\ b2 \in Nat
        /\ c2 = (IF rx[sender].pc = "react" THEN 1 ELSE 0)
    BY <1>1, <1>2, LineLength, Zenon DEF ClientLine
  <2> QED
    BY <2>1, <2>2
<1>4. PICK some : some = 1 .. 9
  BY Zenon
<1>5. PICK W, Q, H :
        /\ W = {x \in Host \X Host \X some :
                  LET w == wire[x[1]][x[2]]
                  IN  x[3] \in DOMAIN w /\ w[x[3]].kind \in kinds}
        /\ Q = {x \in Host \X Fd \X some :
                  LET w == queue[x[1]][x[2]]
                  IN  x[3] \in DOMAIN w /\ w[x[3]].kind \in kinds}
        /\ H = {h \in Host : rx[h].pc = "react" /\ rx[h].pkt.kind \in kinds}
  BY Zenon
<1>6. InTransit(kinds) = Cardinality(W) + Cardinality(Q) + Cardinality(H)
  BY <1>4, <1>5 DEF InTransit
<1>7. Cardinality(W) \in Nat /\ Cardinality(W) <= a + a2
  <2>1. ASSUME NEW g \in Host, NEW h \in Host, NEW i \in DOMAIN wire[g][h]
        PROVE  \/ g = sender /\ h = recver /\ i = 1 /\ a = 1
               \/ g = recver /\ h = sender /\ i = 1 /\ a2 = 1
    <3>1. wire[g][h] \in Seq(SafePacket) /\ wire[g][h] # <<>> /\ i \in 1 .. Len(wire[g][h])
      BY <2>1 DEF TypeOK
    <3>2. (g = sender /\ h = recver) \/ (g = recver /\ h = sender)
      BY <1>1, <3>1 DEF NothingElse, OneSocket
    <3>3. CASE g = sender /\ h = recver
      <4>1. i \in 1 .. a
        BY <1>2, <3>1, <3>3
      <4> QED
        BY <1>3, <3>3, <4>1
    <3>4. CASE g = recver /\ h = sender
      <4>1. i \in 1 .. a2
        BY <1>2, <3>1, <3>4
      <4> QED
        BY <1>3, <3>4, <4>1
    <3> QED
      BY <3>2, <3>3, <3>4
  <2>2. \A x \in W : \/ x = <<sender, recver, 1>> /\ a = 1
                     \/ x = <<recver, sender, 1>> /\ a2 = 1
    <3>1. TAKE x \in W
    <3>2. PICK g \in Host, h \in Host, i \in some : x = <<g, h, i>>
      BY <1>5
    <3>3. i \in DOMAIN wire[g][h]
      BY <1>5, <3>2
    <3> QED
      BY <2>1, <3>2, <3>3
  <2>3. PICK x, y : x = <<sender, recver, 1>> /\ y = <<recver, sender, 1>>
    BY Zenon
  <2>4. CASE a = 1
    <3>1. W \subseteq {x}
      BY <1>3, <2>2, <2>3, <2>4
    <3>2. Cardinality(W) \in Nat /\ Cardinality(W) <= 1
      BY <3>1, AtMostOne, Zenon
    <3> QED
      BY <1>3, <2>4, <3>2
  <2>5. CASE a2 = 1
    <3>1. W \subseteq {y}
      BY <1>3, <2>2, <2>3, <2>5
    <3>2. Cardinality(W) \in Nat /\ Cardinality(W) <= 1
      BY <3>1, AtMostOne, Zenon
    <3> QED
      BY <1>3, <2>5, <3>2
  <2>6. CASE a # 1 /\ a2 # 1
    <3>1. W \subseteq {x} /\ W = {}
      BY <2>2, <2>6
    <3>2. Cardinality(W) = 0
      BY <3>1, AtMostOne, Zenon
    <3> QED
      BY <1>3, <3>2
  <2> QED
    BY <2>4, <2>5, <2>6
<1>8. Cardinality(Q) \in Nat /\ Cardinality(Q) <= b + b2
  <2>1. ASSUME NEW h \in Host, NEW f \in Fd, NEW i \in DOMAIN queue[h][f]
        PROVE  \/ h = recver /\ f = ServerFd /\ i = 1 /\ b = 1
               \/ h = sender /\ f = FirstFd /\ i = 1 /\ b2 = 1
    <3>1. queue[h][f] \in Seq(SafePacket) /\ queue[h][f] # <<>> /\ i \in 1 .. Len(queue[h][f])
      BY <2>1 DEF TypeOK
    <3>2. (h = recver /\ f = ServerFd) \/ (h = sender /\ f = FirstFd)
      BY <1>1, <3>1 DEF NothingElse, OneSocket
    <3>3. CASE h = recver /\ f = ServerFd
      <4>1. i \in 1 .. b
        BY <1>2, <3>1, <3>3
      <4> QED
        BY <1>3, <3>3, <4>1
    <3>4. CASE h = sender /\ f = FirstFd
      <4>1. i \in 1 .. b2
        BY <1>2, <3>1, <3>4
      <4> QED
        BY <1>3, <3>4, <4>1
    <3> QED
      BY <3>2, <3>3, <3>4
  <2>2. \A x \in Q : \/ x = <<recver, ServerFd, 1>> /\ b = 1
                     \/ x = <<sender, FirstFd, 1>> /\ b2 = 1
    <3>1. TAKE x \in Q
    <3>2. PICK h \in Host, f \in Fd, i \in some : x = <<h, f, i>>
      BY <1>5, SMTT(40)
    <3>3. i \in DOMAIN queue[h][f]
      BY <1>5, <3>2
    <3> QED
      BY <2>1, <3>2, <3>3
  <2>3. PICK x, y : x = <<recver, ServerFd, 1>> /\ y = <<sender, FirstFd, 1>>
    BY Zenon
  <2>4. CASE b = 1
    <3>1. Q \subseteq {x}
      BY <1>3, <2>2, <2>3, <2>4
    <3>2. Cardinality(Q) \in Nat /\ Cardinality(Q) <= 1
      BY <3>1, AtMostOne, Zenon
    <3> QED
      BY <1>3, <2>4, <3>2
  <2>5. CASE b2 = 1
    <3>1. Q \subseteq {y}
      BY <1>3, <2>2, <2>3, <2>5
    <3>2. Cardinality(Q) \in Nat /\ Cardinality(Q) <= 1
      BY <3>1, AtMostOne, Zenon
    <3> QED
      BY <1>3, <2>5, <3>2
  <2>6. CASE b # 1 /\ b2 # 1
    <3>1. Q \subseteq {x} /\ Q = {}
      BY <2>2, <2>6
    <3>2. Cardinality(Q) = 0
      BY <3>1, AtMostOne, Zenon
    <3> QED
      BY <1>3, <3>2
  <2> QED
    BY <2>4, <2>5, <2>6
<1>9. Cardinality(H) \in Nat /\ Cardinality(H) <= c + c2
  <2>1. CASE c = 1
    <3>1. H \subseteq {recver}
      BY <1>1, <1>3, <1>5, <2>1
    <3>2. Cardinality(H) \in Nat /\ Cardinality(H) <= 1
      BY <3>1, AtMostOne, Zenon
    <3> QED
      BY <1>3, <2>1, <3>2, SMTT(40)
  <2>2. CASE c2 = 1
    <3>1. H \subseteq {sender}
      BY <1>1, <1>3, <1>5, <2>2
    <3>2. Cardinality(H) \in Nat /\ Cardinality(H) <= 1
      BY <3>1, AtMostOne, Zenon
    <3> QED
      BY <1>3, <2>2, <3>2, SMTT(40)
  <2>3. CASE c = 0 /\ c2 = 0
    <3>1. H \subseteq {sender} /\ H = {}
      BY <1>1, <1>3, <1>5, <2>3
    <3>2. Cardinality(H) = 0
      BY <3>1, AtMostOne, Zenon
    <3> QED
      BY <1>3, <3>2, SMTT(40)
  <2> QED
    BY <1>3, <2>1, <2>2, <2>3
<1>10. c \in Nat /\ c2 \in Nat
  BY <1>3
<1> QED
  BY <1>3, <1>6, <1>7, <1>8, <1>9, <1>10

\* When nothing is lost and every write is longer than a segment, an open
\* connection has at most one data segment or ACK on its way, on the wires, in
\* the queues and in the hands of processip: write() and recvTCPPacket, which
\* both send, never do so for the same byte.
THEOREM OneAtATime ==
  ASSUME OneWay, Orderly
  PROVE  Spec => []StopAndWait
<1>1. ASSUME StreamIInv, OrderlyInv PROVE StopAndWait
  <2>1. SUFFICES ASSUME ClientEnd = "open", ServerEnd = "open"
                 PROVE  InTransit({"DATA", "ACK"}) <= 1
    BY DEF StopAndWait
  <2>2. InPhase /\ OneSocket /\ NothingElse
    BY <1>1 DEF OrderlyInv, Phased
  <2>3. ClientAt = "ESTAB"
    BY <2>1, <2>2 DEF ClientEnd, ClientFd, ClientAt, InPhase, Phase
  <2>4. ServerAt = "ESTAB"
    BY <2>1, <2>2, <2>3 DEF ServerEnd, ServerAt, InPhase, Phase
  <2>5. PICK l, k : l = Kinds(Line) /\ k = Kinds(ClientLine)
    OBVIOUS
  <2>6. Len(l) + Len(k) <= 1
    <3>1. \/ l = <<>> /\ k \in {<<>>, <<"ACK">>}
          \/ l = <<"DATA">> /\ k = <<>>
      BY <2>2, <2>3, <2>4, <2>5 DEF InPhase, Phase
    <3>2. Len(<<>>) = 0 /\ Len(<<"ACK">>) = 1 /\ Len(<<"DATA">>) = 1
      OBVIOUS
    <3>3. CASE l = <<>> /\ k = <<>>
      BY <3>2, <3>3
    <3>4. CASE l = <<>> /\ k = <<"ACK">>
      BY <3>2, <3>4
    <3>5. CASE l = <<"DATA">> /\ k = <<>>
      BY <3>2, <3>5
    <3> QED
      BY <3>1, <3>3, <3>4, <3>5
  <2>7. Len(l) = Len(Line) /\ Len(k) = Len(ClientLine)
    <3>1. Line \in Seq(SafePacket) /\ ClientLine \in Seq(SafePacket)
      BY <1>1, Hypothesis, LineParts DEF StreamIInv, IInv, Line, ClientLine
    <3> QED
      BY <2>5, <3>1, KindsOf
  <2> QED
    BY <1>1, <2>2, <2>6, <2>7, OneInTransit
<1> QED
  BY <1>1, OrderlyInductive, PTL

-----------------------------------------------------------------------------
(* The refinement of Connection. *)

\* The ends of the connection in the phases.
Ends ==
  /\ ClientAt \in {"FREE", "NONE", "SYNSENT"} => ClientEnd = "idle" /\ ServerEnd = "idle"
  /\ ClientAt = "ESTAB" => ClientEnd = "open"
  /\ ClientAt \in {"FINWAIT1", "FINWAIT2"} => ClientEnd = "closing"
  /\ ClientAt = "TIMEWAIT" => ClientEnd = "closed"
  /\ ServerAt = "SYNRCVD" => ServerEnd = "idle"
  /\ ServerAt = "ESTAB" => ServerEnd = "open"
  /\ ServerAt = "LASTACK" => ServerEnd = "closing"
  /\ ServerAt = "CLOSED" /\ ClientAt = "TIMEWAIT" => ServerEnd = "closed"

\* They are, in every phase.
LEMMA EndsAre ==
  ASSUME OneWay, StreamIInv, InPhase
  PROVE  Ends
<1> USE DEF StreamIInv, StreamInv, IInv
<1>1. NoEndpoint = none /\ cport # none
  BY Hypothesis DEF OneWay
<1>2. ServerSock.remote \in {none, cport}
  BY <1>1 DEF ServerInv, IsServer
<1>3. Taken <=> ServerSock.remote # none
  BY <1>1, <1>2 DEF Taken
<1>4. ClientEnd = CASE ClientAt \in {"FREE", "NONE", "SYNSENT"} -> "idle"
                    [] ClientAt \in {"FINWAIT1", "FINWAIT2", "CLOSING"} -> "closing"
                    [] ClientAt = "TIMEWAIT" -> "closed"
                    [] OTHER -> "open"
  BY DEF ClientEnd, ClientFd, ClientAt
<1>5. ServerEnd = IF ServerSock.remote = none THEN "idle"
                  ELSE CASE ServerAt \in {"LISTEN", "SYNRCVD"} -> "idle"
                         [] ServerAt = "LASTACK" -> "closing"
                         [] ServerAt = "CLOSED" -> "closed"
                         [] OTHER -> "open"
  BY DEF ServerEnd, ServerAt
<1>6. ClientAt \in {"FREE", "NONE"} => ~Taken
  <2>1. ClientAt \in {"FREE", "NONE"} => ~Connected
    <3>1. CASE rx[sender].pc # "store"
      BY <3>1, ClientIs DEF Connected
    <3>2. CASE rx[sender].pc = "store"
      <4>1. rx[sender].rule \in Rules
        BY <3>2, Hypothesis DEF PendingSocketsExist, PendingExist
      <4> QED
        BY <3>2, <4>1, ClientIs, RuleFacts
    <3> QED
      BY <3>1, <3>2
  <2> QED
    BY <2>1 DEF HandshakeInv
<1>7. ClientAt \notin {"FREE", "NONE", "SYNSENT"} => Taken
  BY DEF HandshakeInv, Answered, ClientAt
<1>8. Phase(ClientAt, ServerAt, Kinds(Line), Kinds(ClientLine))
  BY DEF InPhase
<1>9. ClientAt \in {"FREE", "NONE", "SYNSENT"} => ClientEnd = "idle" /\ ServerEnd = "idle"
  <2>1. ClientAt \in {"FREE", "NONE", "SYNSENT"} => ClientEnd = "idle"
    BY <1>4
  <2>2. ClientAt \in {"FREE", "NONE"} => ServerEnd = "idle"
    BY <1>3, <1>5, <1>6
  <2>3. ClientAt = "SYNSENT" => ServerAt \in {"LISTEN", "SYNRCVD"}
    BY <1>8 DEF Phase
  <2>4. ClientAt = "SYNSENT" => ServerEnd = "idle"
    BY <1>5, <2>3
  <2> QED
    BY <2>1, <2>2, <2>4
<1>10. ServerAt \in {"SYNRCVD", "ESTAB", "LASTACK"} \/ ClientAt = "TIMEWAIT" =>
         Taken \/ ServerAt = "SYNRCVD"
  BY <1>7, <1>8 DEF Phase
<1>11. /\ ServerAt = "SYNRCVD" => ServerEnd = "idle"
       /\ ServerAt = "ESTAB" => ServerEnd = "open"
       /\ ServerAt = "LASTACK" => ServerEnd = "closing"
       /\ ServerAt = "CLOSED" /\ ClientAt = "TIMEWAIT" => ServerEnd = "closed"
  BY <1>3, <1>5, <1>10
<1> QED
  BY <1>4, <1>9, <1>11 DEF Ends

\* A step that moves neither end.
LEMMA EndsKept ==
  ASSUME ClientAt' = ClientAt, ServerAt' = ServerAt,
         ServerSock'.remote = ServerSock.remote
  PROVE  ClientEnd' = ClientEnd /\ ServerEnd' = ServerEnd
  BY DEF ClientEnd, ServerEnd, ClientFd, ClientAt, ServerAt

\* The server's close finds all bytes there: they were all on their way, and
\* there is only the FIN.
LEMMA FinComesLast ==
  ASSUME OneWay, StreamIInv, OrderlyInv, ServerAt = "ESTAB", ClientAt = "FINWAIT1"
  PROVE  ServerSock.sizep = ClientSock.sizep
<1> USE DEF StreamIInv, StreamInv, IInv
<1>1. InPhase /\ WriteWaits /\ SentOnWay
  BY DEF OrderlyInv, Phased, NoGap
<1>2. Kinds(Line) = <<"FIN">>
  BY <1>1 DEF InPhase, Phase
<1>3. PICK line : line = Line
  OBVIOUS
<1>4. line \in Seq(SafePacket) /\ Len(line) = 1 /\ line[1].kind = "FIN"
  BY <1>2, <1>3, LineType, KindsOf
<1>5. ~Sending
  <2>1. app[sender].ip \in Nat /\ Len(Script[sender]) \in Nat
    BY Hypothesis DEF TypeOK, AppThread
  <2>2. InCall(sender)
    BY Hypothesis DEF CallsInv
  <2> QED
    BY <1>1, <2>1, <2>2 DEF WriteWaits, InCall, Sending
<1>6. \A x \in 0 .. (ClientSock.sizep - 1) : x < ServerSock.sizep
  BY <1>1, <1>3, <1>4, <1>5 DEF SentOnWay, Reaches, Covers
<1>7. /\ ClientSock.sizep \in Nat /\ ServerSock.sizep \in Nat
      /\ ServerSock.sizep <= ClientSock.sizep
  BY SeqsOfStream, LineType DEF StreamSeqs
<1> QED
  BY <1>6, <1>7

\* A step that moves an end and no byte is one of Connection.
LEMMA EndsMove ==
  ASSUME OneWay, StreamIInv, OrderlyInv, InPhase', Ends, Ends', GoesOn,
         Sent' = Sent, ServerSock'.sizep = ServerSock.sizep, Received' = Received
  PROVE  [Stream!Next]_(Stream!vars)
<1>1. PICK c, s, d, t : c = ClientAt /\ s = ServerAt /\ d = ClientAt' /\ t = ServerAt'
  OBVIOUS
<1>2. Onward(c, s, d, t)
  BY <1>1 DEF GoesOn
<1>3. PICK l, k, m, n : Phase(c, s, l, k) /\ Phase(d, t, m, n)
  BY <1>1 DEF OrderlyInv, Phased, InPhase
<1>4. CASE d = c /\ t = s
  <2>1. ClientEnd' = ClientEnd /\ ServerEnd' = ServerEnd
    BY <1>1, <1>3, <1>4 DEF Ends, Phase
  <2> QED
    BY <2>1 DEF Stream!vars
<1>5. CASE c \in {"FREE", "NONE"} /\ d \in {"FREE", "NONE", "SYNSENT"}
  BY <1>1, <1>5 DEF Ends, Stream!vars
<1>6. CASE c = "SYNSENT" /\ d = "ESTAB" /\ t = s
  <2>1. s = "SYNRCVD"
    BY <1>3, <1>6 DEF Phase
  <2> QED
    BY <1>1, <1>6, <2>1 DEF Ends, Stream!Next, Stream!ClientOpens
<1>7. CASE c = "ESTAB" /\ d = "FINWAIT1" /\ t = s
  <2>1. s \in {"SYNRCVD", "ESTAB"}
    BY <1>3, <1>7 DEF Phase
  <2> QED
    BY <1>1, <1>7, <2>1 DEF Ends, Stream!Next, Stream!ClientCloses
<1>8. CASE c = "FINWAIT1" /\ d = "FINWAIT2" /\ t = s
  <2>1. s = "LASTACK"
    BY <1>3, <1>8 DEF Phase
  <2> QED
    BY <1>1, <1>8, <2>1 DEF Ends, Stream!vars
<1>9. CASE c = "FINWAIT2" /\ d = "TIMEWAIT" /\ t = s
  <2>1. s = "LASTACK"
    BY <1>3, <1>9 DEF Phase
  <2> QED
    BY <1>1, <1>9, <2>1 DEF Ends, Stream!Next, Stream!ClientClosed
<1>10. CASE d = c /\ s = "LISTEN" /\ t = "SYNRCVD"
  <2>1. c \in {"FREE", "NONE", "SYNSENT"}
    BY <1>3, <1>10 DEF Phase
  <2> QED
    BY <1>1, <1>10, <2>1 DEF Ends, Stream!vars
<1>11. CASE d = c /\ s = "SYNRCVD" /\ t = "ESTAB"
  <2>1. c \in {"ESTAB", "FINWAIT1"}
    BY <1>3, <1>11 DEF Phase
  <2> QED
    BY <1>1, <1>11, <2>1 DEF Ends, Stream!Next, Stream!ServerOpens
<1>12. CASE d = c /\ s = "ESTAB" /\ t = "LASTACK"
  <2>1. c = "FINWAIT1"
    BY <1>3, <1>12 DEF Phase
  <2>2. Len(Sent) = ServerSock.sizep
    BY <1>1, <1>12, <2>1, FinComesLast, SeqsOfStream DEF StreamSeqs
  <2> QED
    BY <1>1, <1>12, <2>1, <2>2 DEF Ends, Stream!Next, Stream!ServerCloses
<1>13. CASE d = c /\ s = "LASTACK" /\ t = "CLOSED"
  <2>1. c = "TIMEWAIT"
    BY <1>3, <1>13 DEF Phase
  <2> QED
    BY <1>1, <1>13, <2>1 DEF Ends, Stream!Next, Stream!ServerClosed
<1> QED
  BY <1>2, <1>4, <1>5, <1>6, <1>7, <1>8, <1>9, <1>10, <1>11, <1>12, <1>13 DEF Onward

\* write() adds its bytes while the client is open.
LEMMA AppendWrites ==
  ASSUME OneWay, Orderly, StreamIInv, OrderlyInv, Ends, Grows, StreamSeqs, StreamSeqs',
         ClientActs, ClientAppends
  PROVE  [Stream!Next]_(Stream!vars)
<1> USE DEF StreamIInv, StreamInv, IInv
<1>1. /\ ClientSock.sizep \in Nat /\ Len(Script[sender]) \in Nat
      /\ app[sender].ip \in Nat /\ MSS \in Nat
  BY LineType, Hypothesis, TcpAssumption, Zenon DEF TypeOK, AppThread, TcpAssumption
<1>2. ClientAt = "ESTAB"
  BY <1>1, ClientOpen DEF ClientAppends, OrderlyInv, Phased
<1>3. /\ KeepsServer /\ rx' = rx
      /\ ClientSock'.status = ClientSock.status
  BY DEF ClientActs, ClientStep, ClientFrame, ClientAppends, SameState
<1>4. /\ ClientAt' = ClientAt /\ ServerAt' = ServerAt
      /\ ServerSock' = ServerSock /\ Received' = Received
  BY <1>3 DEF KeepsServer, ClientAt, ServerAt, Committed, ClientSock, ClientFd,
              ServerSock, Received
<1>5. ClientEnd = "open" /\ ClientEnd' = ClientEnd /\ ServerEnd' = ServerEnd
  BY <1>2, <1>4, EndsKept DEF Ends
<1>6. ClientSock.sizep < ClientSock'.sizep
  <2>1. PICK d : /\ Call(sender).op = "write" /\ d = Call(sender).data
                 /\ d \in Seq(Byte) /\ ClientSock'.sizep = ClientSock.sizep + Len(d)
    BY DEF ClientAppends
  <2>2. Len(d) > MSS /\ Len(d) \in Nat
    BY <1>1, <2>1, SMTT(40) DEF Orderly, Call, ClientAppends
  <2> QED
    BY <1>1, <2>1, <2>2
<1>7. PICK u, w : u = Sent /\ w = Sent'
  OBVIOUS
<1>8. u \in Seq(Content) /\ w \in Seq(Content) /\ Len(u) < Len(w)
  BY <1>6, <1>7 DEF StreamSeqs
<1>9. \A k \in 1 .. Len(u) : u[k] = w[k]
  <2>1. TAKE k \in 1 .. Len(u)
  <2>2. /\ k \in 1 .. ClientSock.sizep /\ k \in 1 .. ClientSock'.sizep
        /\ k - 1 \in Nat /\ k - 1 < ClientSock.sizep
    BY <1>1, <1>7, <1>8 DEF StreamSeqs
  <2> QED
    BY <1>7, <2>2, Zenon DEF StreamSeqs, Grows
<1>10. SubSeq(u, 1, Len(u)) = SubSeq(w, 1, Len(u)) /\ u # w
  BY <1>8, <1>9, PrefixIs
<1> QED
  BY <1>4, <1>5, <1>7, <1>8, <1>10
  DEF Stream!Next, Stream!Write, Stream!IsStrictPrefix, Stream!IsPrefix

\* The server's processip takes data while the server is open.
LEMMA DataArrives ==
  ASSUME OneWay, StreamIInv, IInv', OrderlyInv, Ends, StreamSeqs, StreamSeqs',
         ServerReceives, StoresData(recver), Sent' = Sent, Received' = Received
  PROVE  [Stream!Next]_(Stream!vars)
<1> USE DEF StreamIInv, StreamInv, IInv
<1>1. /\ sender \in Host /\ recver \in Host /\ ServerFd \in Fd
      /\ OneSocket /\ InPhase
  BY Hypothesis, ZenonT(40) DEF OrderlyInv, Phased
<1>2. /\ rx[recver].fd = ServerFd /\ rx[recver].pc = "react" /\ rx'[recver].pc = "pop"
      /\ rx[recver].pkt.kind = "DATA" /\ queue' = queue
      /\ wire'[sender][recver] = wire[sender][recver]
  BY <1>1, ServerReceivesOne DEF StoresData, Idles, OneSocket
<1>3. /\ ServerSock'.status = ServerSock.status /\ ServerSock'.remote = ServerSock.remote
      /\ ServerSock'.sizep >= ServerSock.sizep
  <2>1. PICK end : end = rx[recver].pkt.seq + Len(rx[recver].pkt.data)
    OBVIOUS
  <2>2. ServerSock'.sizep = (IF end > ServerSock.sizep THEN end ELSE ServerSock.sizep)
    BY <1>2, <2>1 DEF StoresData, ServerSock
  <2>3. end \in Nat /\ ServerSock.sizep \in Nat
    <3>1. rx[recver].pkt \in SafePacket
      BY <1>1 DEF TypeOK, RxThread
    <3>2. rx[recver].pkt.seq \in Nat /\ Len(rx[recver].pkt.data) \in Nat
      BY <3>1, PacketFields
    <3>3. ServerSock.sizep \in Nat
      BY DEF StreamSeqs
    <3> QED
      BY <2>1, <3>2, <3>3, SMTT(40)
  <2> QED
    BY <1>2, <2>2, <2>3 DEF StoresData, SameState, SameEnds, ServerSock
<1>4. Kinds(Line) # <<>> /\ Kinds(Line)[1] = "DATA"
  <2>1. TypeOK /\ FirstFd \in Fd
    BY Hypothesis
  <2> QED
    BY <1>1, <1>2, <2>1, KindsDone DEF Line
<1>5. ServerAt = "ESTAB"
  BY <1>1, <1>4, DataPhase, Zenon DEF InPhase
<1>6. ClientAt' = ClientAt /\ ServerAt' = ServerAt
  BY <1>1, <1>2, <1>3, <1>5, ServerIs
  DEF ServerReceives, KeepsClient, ClientAt, ServerAt, Committed, ClientSock, ServerSock
<1>7. ServerEnd = "open" /\ ClientEnd' = ClientEnd /\ ServerEnd' = ServerEnd
  BY <1>3, <1>5, <1>6, EndsKept DEF Ends
<1>8. CASE ServerSock'.sizep = ServerSock.sizep
  BY <1>7, <1>8 DEF Stream!vars
<1>9. CASE ServerSock'.sizep # ServerSock.sizep
  <2>1. ServerSock'.sizep \in (ServerSock.sizep + 1) .. Len(Sent)
    <3>1. /\ ServerSock.sizep \in Nat /\ ServerSock'.sizep \in Nat
          /\ ServerSock'.sizep <= ClientSock'.sizep /\ Len(Sent') = ClientSock'.sizep
      BY DEF StreamSeqs
    <3>2. Len(Sent) \in Nat
      BY DEF StreamSeqs
    <3> QED
      BY <1>3, <1>9, <3>1, <3>2
  <2> QED
    BY <1>7, <2>1 DEF Stream!Next, Stream!Arrive
<1> QED
  BY <1>8, <1>9

\* read() takes bytes that have arrived.
LEMMA ReadReceives ==
  ASSUME OneWay, StreamIInv, StreamIInv', OrderlyInv, OrderlyInv', StreamSeqs,
         StreamSeqs', ServerActs, ServerHasRead
  PROVE  [Stream!Next]_(Stream!vars)
<1> USE DEF StreamIInv, StreamInv, IInv
<1>1. /\ KeepsClient /\ rx' = rx /\ ServerSock'.status = ServerSock.status
      /\ ServerSock'.remote = ServerSock.remote
      /\ ServerSock'.sizep = ServerSock.sizep
  BY DEF ServerActs, ServerStep, ServerFrame, ServerHasRead, SameEnds, SameState,
         SameBuffer
<1>2. ClientSock' = ClientSock /\ Sent' = Sent
  BY <1>1 DEF KeepsClient, ClientSock, ClientFd, Sent
<1>3. ClientEnd' = ClientEnd /\ ServerEnd' = ServerEnd
  <2>1. ClientAt' = ClientAt /\ ServerAt' = ServerAt
    BY <1>1, <1>2 DEF ClientAt, ServerAt, Committed, ClientSock, ClientFd, ServerSock
  <2> QED
    BY <1>1, <2>1, EndsKept
<1>4. PICK u, v, w : u = Received /\ v = Received' /\ w = Sent
  OBVIOUS
<1>5. /\ u \in Seq(Content) /\ v \in Seq(Content) /\ w \in Seq(Content)
      /\ Len(w) = ClientSock.sizep /\ ClientSock.sizep \in Nat
      /\ \A k \in 1 .. ClientSock.sizep : w[k] = ClientSock.databuf[k - 1]
  BY <1>4, LineType, Zenon DEF StreamSeqs
<1>6. /\ Len(u) <= Len(v) /\ Len(v) <= ServerSock.sizep
      /\ ServerSock.sizep \in Nat /\ ServerSock.sizep <= Len(w)
  <2>1. PICK n \in Nat : /\ ServerSock.readp + n <= ServerSock.sizep
                         /\ ServerSock'.readp = ServerSock.readp + n
    BY DEF ServerHasRead
  <2>2. Len(u) = ServerSock.readp /\ Len(v) = ServerSock'.readp
    BY <1>4 DEF BytesInv
  <2>3. ServerSock.sizep \in Nat /\ ServerSock.sizep <= ClientSock.sizep
    BY DEF StreamSeqs
  <2> QED
    BY <1>5, <2>1, <2>2, <2>3
<1>7. /\ \A k \in 1 .. Len(u) : u[k] = ClientSock.databuf[k - 1]
      /\ \A k \in 1 .. Len(v) : v[k] = ClientSock.databuf[k - 1]
  BY <1>2, <1>4 DEF OrderlyInv, ReadSame
<1>8. SubSeq(u, 1, Len(u)) = SubSeq(v, 1, Len(u))
  <2>1. \A k \in 1 .. Len(u) : u[k] = v[k]
    BY <1>5, <1>6, <1>7
  <2> QED
    BY <1>5, <1>6, <2>1, PrefixIs
<1>9. PICK a : a = SubSeq(w, 1, ServerSock.sizep)
  BY Zenon
<1>10. /\ a \in Seq(Content) /\ Len(a) = ServerSock.sizep
       /\ \A k \in 1 .. ServerSock.sizep : a[k] = w[k]
  BY <1>5, <1>6, <1>9
<1>11. SubSeq(v, 1, Len(v)) = SubSeq(a, 1, Len(v))
  <2>1. \A k \in 1 .. Len(v) : v[k] = a[k]
    BY <1>5, <1>6, <1>7, <1>10
  <2> QED
    BY <1>5, <1>6, <1>10, <2>1, PrefixIs
<1>12. CASE u = v
  BY <1>1, <1>2, <1>3, <1>4, <1>12 DEF Stream!vars
<1>13. CASE u # v
  BY <1>1, <1>2, <1>3, <1>4, <1>6, <1>8, <1>9, <1>10, <1>11, <1>13
  DEF Stream!Next, Stream!Receive, Stream!IsStrictPrefix, Stream!IsPrefix
<1> QED
  BY <1>12, <1>13

\* Every step of an orderly connection is one of Connection or changes nothing
\* of it.
LEMMA StreamStep ==
  ASSUME OneWay, Orderly, StreamIInv, StreamIInv', OrderlyInv, OrderlyInv', GoesOn,
         Ends, Ends', StreamSeqs, StreamSeqs', [Next]_vars
  PROVE  [Stream!Next]_(Stream!vars)
<1> USE DEF StreamIInv, StreamInv, IInv
<1>1. /\ sender \in Host /\ recver \in Host /\ FirstFd \in Fd /\ ServerFd \in Fd
      /\ sender # recver
  BY Hypothesis
<1>2. /\ up[recver] /\ OneSyn /\ OneSocket /\ Phased /\ InPhase'
  BY DEF OrderlyInv, Phased
<1>3. Faults = {} /\ "start" \notin Races
  BY DEF Orderly
<1>4. ~ServerDies /\ ~Faulty
  BY <1>2, <1>3, SynFindsListener, NothingFaulty
<1>5. ASSUME Sent' = Sent, ServerSock'.sizep = ServerSock.sizep, Received' = Received
      PROVE  [Stream!Next]_(Stream!vars)
  BY <1>2, <1>5, EndsMove
<1>6. SameBuffer(ClientSock', ClientSock) => Sent' = Sent
  BY DEF SameBuffer, Sent, Slice
<1>7. KeepsServer => ServerSock' = ServerSock /\ Received' = Received
  BY DEF KeepsServer, ServerSock, Received
<1>8. KeepsClient => ClientSock' = ClientSock /\ Sent' = Sent
  BY DEF KeepsClient, ClientSock, ClientFd, Sent
<1>9. CASE ClientActs
  <2>1. CASE ClientAppends
    <3>1. Grows
      BY <1>9, ClientGrows
    <3> QED
      BY <1>9, <2>1, <3>1, AppendWrites
  <2>2. CASE ClientSocket
    <3>1. ClientSock.sizep = 0 /\ ClientSock'.sizep = 0
      <4>1. Grows
        BY <1>9, ClientGrows
      <4>2. ClientSock'.sizep = 0 /\ ClientSock.sizep \in Nat
        BY <2>2, LineType DEF ClientSocket
      <4> QED
        BY <4>1, <4>2 DEF Grows
    <3>2. PICK u, w : u = Sent /\ w = Sent'
      OBVIOUS
    <3>3. u \in Seq(Content) /\ w \in Seq(Content) /\ Len(u) = 0 /\ Len(w) = 0
      BY <3>1, <3>2 DEF StreamSeqs
    <3>4. Sent' = Sent
      BY <3>2, <3>3
    <3> QED
      BY <1>5, <1>7, <1>9, <3>4 DEF ClientActs
  <2>3. CASE ~ClientAppends /\ ~ClientSocket
    <3>1. SameBuffer(ClientSock', ClientSock)
      BY <1>9, <2>3
      DEF ClientActs, ClientStep, ClientConnects, ClientWaits, ClientConnected,
          ClientSends, ClientWritten, ClientCloses, ClientStoresClose, ClientClosed,
          ClientMoves, SameStream, SameBuffer, ClientSock
    <3> QED
      BY <1>5, <1>6, <1>7, <1>9, <3>1, SMTT(40) DEF ClientActs
  <2> QED
    BY <2>1, <2>2, <2>3
<1>10. CASE ClientReceives
  <2>1. rx[sender].pc # "pop" => RxSock(sender) = ClientSock /\ rx[sender].fd = FirstFd
    BY ClientIs DEF RxSock, ClientSock, ClientFd
  <2>2. ~StoresData(sender)
    BY InClientsHand, Zenon DEF StoresData, FromServer
  <2>3. SameBuffer(ClientSock', ClientSock)
    BY <1>10, <2>1, <2>2, Zenon
    DEF ClientReceives, RxMoves, Pops, Reacts, Stores, Ignores, Acks, SameStream,
        SameBuffer, ClientSock, ClientFd
  <2> QED
    BY <1>5, <1>6, <1>7, <1>10, <2>3 DEF ClientReceives
<1>11. CASE ServerActs
  <2>1. CASE ServerHasRead
    BY <1>11, <2>1, ReadReceives
  <2>2. CASE ~ServerHasRead
    <3>1. Received' = Received
      BY <2>2, OnlyReads
    <3>2. ServerSock'.sizep = ServerSock.sizep
      BY <1>2, <1>11, ServerActsSockets
    <3> QED
      BY <1>5, <1>8, <1>11, <3>1, <3>2 DEF ServerActs
  <2> QED
    BY <2>1, <2>2
<1>12. CASE ServerReceives
  <2>1. \/ Pops(recver) \/ Reacts(recver) \/ Stores(recver) \/ Ignores(recver)
        \/ StoresData(recver)
    BY <1>2, <1>12, ServerReceivesOne
  <2>2. Sent' = Sent
    BY <1>8, <1>12, Zenon DEF ServerReceives
  <2>3. Received' = Received
    BY <2>1, Zenon DEF Pops, Reacts, Stores, Ignores, StoresData, Idles, RxFrame, Received
  <2>4. CASE StoresData(recver)
    BY <1>12, <2>2, <2>3, <2>4, DataArrives
  <2>5. CASE ~StoresData(recver)
    <3>1. rx[recver].pc # "pop" => rx[recver].fd = ServerFd
      BY <1>2, ZenonT(40) DEF OneSocket
    <3>2. ServerSock'.sizep = ServerSock.sizep
      BY <2>1, <2>5, <3>1
      DEF Pops, Reacts, Stores, Ignores, SameStream, ServerSock
    <3> QED
      BY <1>5, <2>2, <2>3, <3>2
  <2> QED
    BY <2>4, <2>5
<1>13. CASE ClientArrival \/ ServerArrival
  <2>1. /\ KeepsClient /\ got' = got /\ (ClientArrival => sock' = sock)
    BY <1>13, ArrivalGrows
  <2>2. ServerSock'.sizep = ServerSock.sizep
    <3>1. CASE ClientArrival
      BY <2>1, <3>1, Zenon DEF ServerSock
    <3>2. CASE ServerArrival
      <4>1. /\ Arrival(sender, recver)
            /\ Destination(recver, Head(wire[sender][recver])) = ServerFd
        BY <1>2, <3>2, OneDestination DEF ServerArrival
      <4> QED
        BY <4>1, Zenon DEF Arrival, SameStream, ServerSock
    <3> QED
      BY <1>13, <3>1, <3>2
  <2> QED
    BY <1>5, <1>8, <2>1, <2>2 DEF Received
<1>14. CASE UNCHANGED vars
  <2>1. ClientSock' = ClientSock /\ ServerSock' = ServerSock /\ Received' = Received
    BY <1>14 DEF vars, ClientSock, ClientFd, ServerSock, Received
  <2>2. Sent' = Sent
    BY <2>1 DEF Sent
  <2> QED
    BY <1>5, <2>1, <2>2
<1> QED
  BY <1>4, <1>9, <1>10, <1>11, <1>12, <1>13, <1>14, Steps

\* In the beginning both ends are idle.
LEMMA StreamBegins ==
  ASSUME OneWay, Init
  PROVE  Stream!Init
<1>1. FirstFd \in Fd /\ ServerFd \in Fd /\ sender \in Host /\ recver \in Host
  BY Hypothesis
<1>2. /\ ClientSock = NoSocket /\ ServerSock = NoSocket
      /\ ClientAt = "FREE" /\ Received = <<>>
  BY <1>1 DEF Init, ClientSock, ServerSock, ClientFd, ClientAt, Committed, Received,
              NoSocket
<1>3. ServerSock.remote = none /\ ServerSock.sizep = 0 /\ ClientSock.sizep = 0
  BY <1>2, Hypothesis DEF NoSocket, OneWay
<1>4. ServerEnd = "idle"
  BY <1>3 DEF ServerEnd
<1>5. ClientEnd = "idle"
  BY <1>2 DEF ClientEnd, ClientAt, ClientFd
<1>6. Sent = <<>>
  BY <1>3 DEF Sent, Slice
<1> QED
  BY <1>2, <1>3, <1>4, <1>5, <1>6 DEF Stream!Init

\* The sockets, queues, wires and threads implement one connection when nothing
\* is lost, the threads do not race at its start and at its end, and every write
\* is longer than a segment: both ends open by the handshake, bytes arrive and
\* are read in order while they are open, and the close loses none.
THEOREM ImplementsOneConnection ==
  ASSUME OneWay, Orderly
  PROVE  Spec => ImplementsConnection
<1>1. Init => Stream!Init
  BY StreamBegins
<1>2. StreamIInv /\ OrderlyInv => Ends /\ StreamSeqs
  BY EndsAre, SeqsOfStream DEF OrderlyInv, Phased
<1>3. ASSUME StreamIInv, StreamIInv', OrderlyInv, OrderlyInv', Ends, Ends',
             StreamSeqs, StreamSeqs', [Next]_vars
      PROVE  [Stream!Next]_(Stream!vars)
  <2>1. GoesOn
    BY <1>3, OrderlyStep DEF StreamIInv
  <2> QED
    BY <1>3, <2>1, StreamStep
<1> QED
  BY <1>1, <1>2, <1>3, OrderlyInductive, PTL DEF Spec, ImplementsConnection, Stream!Spec

-----------------------------------------------------------------------------
(* The scripts of the programs meet the hypothesis. *)

\* A client whose writes are all longer than a segment.
LEMMA LongWritesFit ==
  ASSUME Host = MCHost, NEW datas \in Seq(Seq(Byte)), NEW server,
         Script = Programs(Client(WriteEach(datas)), server),
         \A k \in 1 .. Len(datas) : Len(datas[k]) > MSS,
         Faults = {}, Races \subseteq {"wakeup"}
  PROVE  Orderly
<1>1. \A k \in DOMAIN Script[sender] :
        Script[sender][k].op = "write" => Len(Script[sender][k].data) > MSS
  BY ClientWrites
<1> QED
  BY <1>1, Zenon DEF Orderly
=============================================================================
