-------------------------------- MODULE Tcp --------------------------------
(***************************************************************************)
(* The iTCP transport layer: the POSIX-like calls of src/src/socket.cc on  *)
(* the socket table of src/include/core.h, and the segment processing of   *)
(* src/src/tcp.cc.                                                         *)
(*                                                                         *)
(* Each host is one process (sender.cc, recver.cc) with three threads:     *)
(*   - the application thread (work), which runs a script of calls;        *)
(*   - the main thread, which hands each packet that reached the host to   *)
(*     recvIPPacket, which queues it at a socket;                          *)
(*   - the processip thread, which pops a packet and runs readIPPacket.    *)
(* The threads share the sockets.  Only data_mtx sections exclude each     *)
(* other, so a section is one action and everything else is split where    *)
(* another thread can come between.                                        *)
(***************************************************************************)
EXTENDS Integers, SequencesExt

CONSTANTS
  Host,          \* network namespaces that run the library
  Endpoint,      \* (IP address, port) pairs
  HostOf,        \* the host that packets for an endpoint reach
  NoEndpoint,    \* the uninitialised bytes of a fresh sockaddr
  FirstFd,       \* first descriptor socket_create hands out (100)
  LastFd,        \* last one (199); LastFd + 1 is what a full table returns
  MSS,           \* most bytes in a data segment (1000)
  BufSize,       \* bytes of databuf (2^20)
  Byte,          \* byte values the applications write
  Zero,          \* what memset left in databuf
  Script,        \* the calls each host's application thread makes
  Races,         \* which scheduling windows another thread may hit (below)
  Garbage,       \* values the uninitialised acc_ack_ready may have
  Faults,        \* what the network may do: subset of FaultKind
  MaxFaults      \* bound: how many faults occur in a behaviour

(***************************************************************************)
(* "wakeup": processip runs between a waiter's test and its wait, which is *)
(*           possible because notifiers hold no mutex;                     *)
(* "close":  processip runs between close()'s FIN and its FINWAIT1 store;  *)
(* "start":  connect() is called although no server listens yet, against   *)
(*           the operating note of src/L4Test.sh.                          *)
(* A run without one of them assumes a schedule in which that window is    *)
(* never hit.                                                              *)
(***************************************************************************)
RaceKind == {"wakeup", "close", "start"}
FaultKind == {"lose", "duplicate", "reorder"}

Fd == FirstFd .. (LastFd + 1)
Address == Endpoint \cup {NoEndpoint}
Content == Byte \cup {Zero}

Status == {"FREE", "NONE", "CLOSED", "LISTEN", "SYNSENT", "SYNRCVD", "ESTAB",
           "FINWAIT1", "FINWAIT2", "LASTACK", "CLOSING", "TIMEWAIT"}
Role == {"none", "client", "server"}
Flag == {"conn", "syn", "ack"}      \* conn_ready, acc_syn_ready, acc_ack_ready
Kind == {"SYN", "SYNACK", "ACK", "FIN", "DATA"}

Packet == [kind : Kind, src : Address, dst : Address, seq : Nat, ack : Nat,
           data : Seq(Content)]

\* A descriptor with status FREE is not in socket_set.
Socket == [role : Role, tcbRole : Role, status : Status,
           local : Address, remote : Address, ready : SUBSET Flag,
           readp : Nat, writep : Nat, sizep : Nat,
           databuf : [0 .. (BufSize - 1) -> Content]]

Calls == [op : {"socket", "listen", "accept", "close"}]
           \cup [op : {"bind"}, at : Endpoint]
           \cup [op : {"connect"}, from : Endpoint, to : Endpoint]
           \cup [op : {"write"}, data : Seq(Byte)]
           \cup [op : {"read"}, n : Nat]

ASSUME TcpAssumption ==
  /\ HostOf \in [Endpoint -> Host]
  /\ NoEndpoint \notin Endpoint
  /\ FirstFd \in Nat /\ LastFd \in Nat /\ FirstFd <= LastFd
  /\ MSS \in Nat \ {0} /\ BufSize \in Nat \ {0}
  /\ Zero \notin Byte
  /\ Script \in [Host -> Seq(Calls)]
  /\ Races \subseteq RaceKind /\ Faults \subseteq FaultKind
  /\ Garbage \subseteq BOOLEAN /\ Garbage # {}
  /\ MaxFaults \in Nat

(***************************************************************************)
(* The control packets readIPPacket answers: on a packet of kind `on` at a *)
(* socket whose status is `at` it sends `send`, then stores `to` and       *)
(* raises the flag `wake` with its notify_all.                             *)
(***************************************************************************)
Rule(on, at, send, to, wake) ==
  [on |-> on, at |-> at, send |-> send, to |-> to, wake |-> wake]

\* Mutant: on a FIN an established socket goes to CLOSEWAIT.
RulesWithCloseWait ==
  { Rule("SYNACK", "SYNSENT",  <<"ACK">>,        "ESTAB",     {"conn"}),
    Rule("SYN",    "LISTEN",   <<"SYNACK">>,     "SYNRCVD",   {"syn"}),
    Rule("FIN",    "ESTAB",    <<"ACK", "FIN">>, "CLOSEWAIT", {}),
    Rule("ACK",    "SYNRCVD",  <<>>,             "ESTAB",     {"ack"}) }

Rules ==
  { Rule("SYNACK", "SYNSENT",  <<"ACK">>,        "ESTAB",    {"conn"}),
    Rule("SYN",    "LISTEN",   <<"SYNACK">>,     "SYNRCVD",  {"syn"}),
    Rule("SYN",    "SYNSENT",  <<"ACK">>,        "SYNRCVD",  {}),
    Rule("FIN",    "ESTAB",    <<"ACK", "FIN">>, "LASTACK",  {}),
    Rule("FIN",    "FINWAIT1", <<"ACK">>,        "CLOSING",  {}),
    Rule("FIN",    "FINWAIT2", <<"ACK">>,        "TIMEWAIT", {}),
    Rule("ACK",    "SYNRCVD",  <<>>,             "ESTAB",    {"ack"}),
    Rule("ACK",    "FINWAIT1", <<>>,             "FINWAIT2", {}),
    Rule("ACK",    "CLOSING",  <<>>,             "TIMEWAIT", {}),
    Rule("ACK",    "LASTACK",  <<>>,             "CLOSED",   {}) }

NoSocket ==
  [role |-> "none", tcbRole |-> "none", status |-> "FREE",
   local |-> NoEndpoint, remote |-> NoEndpoint, ready |-> {},
   readp |-> 0, writep |-> 0, sizep |-> 0,
   databuf |-> [i \in 0 .. (BufSize - 1) |-> Zero]]

NoRule == Rule("DATA", "FREE", <<>>, "FREE", {})
NoPacket == [kind |-> "DATA", src |-> NoEndpoint, dst |-> NoEndpoint,
             seq |-> 0, ack |-> 0, data |-> <<>>]

VARIABLES
  sock,      \* socket_set: the sockets of each host, by descriptor
  queue,     \* socket_queue: packets waiting at each socket
  unsolved,  \* unSolvedSocket: descriptors with a packet to process, in order
  wire,      \* packets from one host on their way to another
  app,       \* application thread: script position, label, descriptors
  rx,        \* processip thread: label, packet at hand, reaction to store
  got,       \* what read() has returned, per descriptor (history)
  up,        \* FALSE once the process has died of a bad dereference
  faults     \* network faults so far

vars == <<sock, queue, unsolved, wire, app, rx, got, up, faults>>
-----------------------------------------------------------------------------
(* Helpers on buffers, descriptors and packets. *)

\* memcpy(buf + at, data, Len(data))
CopyIn(buf, at, data) ==
  [i \in DOMAIN buf |->
     IF at <= i /\ i < at + Len(data) THEN data[i - at + 1] ELSE buf[i]]

\* The n bytes at buf + at.
Slice(buf, at, n) == [k \in 1 .. n |-> buf[at + k - 1]]

Lesser(a, b) == IF a <= b THEN a ELSE b

Opened(h) == {f \in Fd : sock[h][f].status # "FREE"}

\* The search for a free descriptor; LastFd + 1 when it runs off the end.
FreshFd(h) ==
  LET free == {f \in FirstFd .. LastFd : f \notin Opened(h)}
  IN  IF free = {} THEN LastFd + 1 ELSE Min(free)

Segment(kind, src, dst, seq, ack, data) ==
  [kind |-> kind, src |-> src, dst |-> dst, seq |-> seq, ack |-> ack,
   data |-> data]

\* readIPPacket's answers go back with seq = ack and ack = seq + 1.
Reply(p, kind) == Segment(kind, p.dst, p.src, p.ack, p.seq + 1, <<>>)

\* sendTCPPacket, once per packet of ps; nobody has the endpoint NoEndpoint.
SendTCPPackets(h, dst, ps) ==
  wire' = IF dst \in Endpoint
          THEN [wire EXCEPT ![h][HostOf[dst]] = @ \o ps]
          ELSE wire

\* Store s as socket f of host h.
Put(h, f, s) == sock' = [sock EXCEPT ![h][f] = s]

-----------------------------------------------------------------------------
(* The application thread. *)

Call(h) == Script[h][app[h].ip]
Connfd(h) == app[h].cfd
Conn(h) == sock[h][app[h].cfd]
Listener(h) == sock[h][app[h].lfd]

AtCall(h, op) ==
  /\ up[h]
  /\ app[h].pc = "call"
  /\ app[h].ip <= Len(Script[h])
  /\ Call(h).op = op

At(h, pc) == up[h] /\ app[h].pc = pc

Goto(h, pc) == app' = [app EXCEPT ![h].pc = pc]

AwaitFlag(h, cv) == app' = [app EXCEPT ![h].pc = "test", ![h].cv = cv]

\* The call is over: the thread makes the next one of its script.
Return(h) == app' = [app EXCEPT ![h].pc = "call", ![h].ip = @ + 1]

\* acc_ack_ready is left uninitialised by the constructor.
NewSocket(garbage) ==
  [NoSocket EXCEPT !.status = "NONE", !.ready = IF garbage THEN {"ack"} ELSE {}]

\* socket(): a full table yields LastFd + 1 and creates nothing.
SocketCreate(h) ==
  /\ AtCall(h, "socket")
  /\ LET f == FreshFd(h)
     IN  /\ IF f <= LastFd THEN \E g \in Garbage : Put(h, f, NewSocket(g))
            ELSE UNCHANGED sock
         /\ app' = [app EXCEPT ![h].lfd = f, ![h].cfd = f, ![h].ip = @ + 1]
  /\ UNCHANGED <<queue, unsolved, wire, rx, got, up, faults>>

\* bind() replaces the TCB of a socket that has no role yet.
SocketBind(h) ==
  /\ AtCall(h, "bind")
  /\ LET s == Listener(h)
     IN  IF s.status # "FREE" /\ s.role = "none"
         THEN Put(h, app[h].lfd,
                [s EXCEPT !.role = "server", !.tcbRole = "server",
                          !.status = "CLOSED", !.local = Call(h).at,
                          !.remote = NoEndpoint])
         ELSE UNCHANGED sock
  /\ Return(h)
  /\ UNCHANGED <<queue, unsolved, wire, rx, got, up, faults>>

SocketListen(h) ==
  /\ AtCall(h, "listen")
  /\ Listener(h).status # "FREE"
  /\ Put(h, app[h].lfd, [Listener(h) EXCEPT !.status = "LISTEN"])
  /\ Return(h)
  /\ UNCHANGED <<queue, unsolved, wire, rx, got, up, faults>>

\* Some socket would take a SYN for e.
Listening(e) ==
  \E f \in Fd : /\ sock[HostOf[e]][f].status = "LISTEN"
               /\ sock[HostOf[e]][f].local = e

\* Mutant: the SYN leaves twice.
ConnectTwice(h) ==
  /\ AtCall(h, "connect")
  /\ Conn(h).status # "FREE"
  /\ "start" \in Races \/ Listening(Call(h).to)
  /\ Put(h, Connfd(h),
         [Conn(h) EXCEPT !.tcbRole = "client", !.status = "SYNSENT",
                         !.local = Call(h).from, !.remote = Call(h).to])
  /\ SendTCPPackets(h, Call(h).to,
       [i \in 1 .. 2 |-> Segment("SYN", Call(h).from, Call(h).to, 0, 0, <<>>)])
  /\ AwaitFlag(h, "conn")
  /\ UNCHANGED <<queue, unsolved, rx, got, up, faults>>

\* connect() up to its wait for conn_ready.
Connect(h) ==
  /\ AtCall(h, "connect")
  /\ Conn(h).status # "FREE"
  /\ "start" \in Races \/ Listening(Call(h).to)
  /\ Put(h, Connfd(h),
         [Conn(h) EXCEPT !.tcbRole = "client", !.status = "SYNSENT",
                         !.local = Call(h).from, !.remote = Call(h).to])
  /\ SendTCPPackets(h, Call(h).to,
       <<Segment("SYN", Call(h).from, Call(h).to, 0, 0, <<>>)>>)
  /\ AwaitFlag(h, "conn")
  /\ UNCHANGED <<queue, unsolved, rx, got, up, faults>>

ConnectReturn(h) ==
  /\ At(h, "ready") /\ app[h].cv = "conn"
  /\ Return(h)
  /\ UNCHANGED <<sock, queue, unsolved, wire, rx, got, up, faults>>

\* accept() copies the listener, flags included; a descriptor already in use
\* (the table was full) keeps its socket.
AcceptCreate(h) ==
  /\ AtCall(h, "accept")
  /\ Listener(h).status # "FREE"
  /\ LET f == FreshFd(h)
     IN  /\ IF f \in Opened(h) THEN UNCHANGED sock
            ELSE Put(h, f, Listener(h))
         /\ app' = [app EXCEPT ![h].cfd = f, ![h].pc = "demote"]
  /\ UNCHANGED <<queue, unsolved, wire, rx, got, up, faults>>

AcceptDemote(h) ==
  /\ At(h, "demote")
  /\ Put(h, app[h].lfd, [Listener(h) EXCEPT !.status = "CLOSED"])
  /\ Goto(h, "promote")
  /\ UNCHANGED <<queue, unsolved, wire, rx, got, up, faults>>

AcceptPromote(h) ==
  /\ At(h, "promote")
  /\ Put(h, Connfd(h), [Conn(h) EXCEPT !.status = "LISTEN"])
  /\ AwaitFlag(h, "syn")
  /\ UNCHANGED <<queue, unsolved, wire, rx, got, up, faults>>

\* Mutant: accept() does not wait for the ACK.
AcceptUnacknowledged(h) ==
  /\ At(h, "ready") /\ app[h].cv = "syn"
  /\ app' = [app EXCEPT ![h].cv = "ack"]
  /\ UNCHANGED <<sock, queue, unsolved, wire, rx, got, up, faults>>

AcceptAwaitAck(h) ==
  /\ At(h, "ready") /\ app[h].cv = "syn"
  /\ AwaitFlag(h, "ack")
  /\ UNCHANGED <<sock, queue, unsolved, wire, rx, got, up, faults>>

AcceptReturn(h) ==
  /\ At(h, "ready") /\ app[h].cv = "ack"
  /\ Put(h, app[h].lfd, [Listener(h) EXCEPT !.status = "LISTEN"])
  /\ Return(h)
  /\ UNCHANGED <<queue, unsolved, wire, rx, got, up, faults>>

(***************************************************************************)
(* The waits of connect, accept and read: test the condition, sleep on a   *)
(* condition variable, test again.  Notifiers hold no mutex, so they may   *)
(* run after the test and before the thread sleeps.                        *)
(***************************************************************************)
\* Mutant: read() waits for some bytes and not for all of them.
AwaitedSome(h) ==
  IF app[h].cv = "read"
  THEN Conn(h).readp < Conn(h).sizep
  ELSE app[h].cv \in Conn(h).ready

Awaited(h) ==
  IF app[h].cv = "read"
  THEN Conn(h).readp + Call(h).n <= Conn(h).sizep
  ELSE app[h].cv \in Conn(h).ready

TestCondition(h) ==
  /\ At(h, "test")
  /\ Goto(h, IF Awaited(h) THEN "ready"
             ELSE IF "wakeup" \in Races THEN "block" ELSE "wait")
  /\ UNCHANGED <<sock, queue, unsolved, wire, rx, got, up, faults>>

Block(h) ==
  /\ At(h, "block")
  /\ Goto(h, "wait")
  /\ UNCHANGED <<sock, queue, unsolved, wire, rx, got, up, faults>>

\* A condition variable may wake its waiter for no reason.
SpuriousWakeup(h) ==
  /\ At(h, "wait")
  /\ Goto(h, "test")
  /\ UNCHANGED <<sock, queue, unsolved, wire, rx, got, up, faults>>

\* notify_all() on the condition variables cvs of socket f.
NotifyAll(h, f, cvs) ==
  app' = [app EXCEPT ![h].pc =
            IF @ = "wait" /\ app[h].cv \in cvs /\ app[h].cfd = f
            THEN "test" ELSE @]

Read(h) ==
  /\ AtCall(h, "read")
  /\ Conn(h).status # "FREE"
  /\ AwaitFlag(h, "read")
  /\ UNCHANGED <<sock, queue, unsolved, wire, rx, got, up, faults>>

ReadReturn(h) ==
  /\ At(h, "ready") /\ app[h].cv = "read"
  /\ Put(h, Connfd(h), [Conn(h) EXCEPT !.readp = @ + Call(h).n])
  /\ got' = [got EXCEPT ![h][Connfd(h)] =
               @ \o Slice(Conn(h).databuf, Conn(h).readp, Call(h).n)]
  /\ Return(h)
  /\ UNCHANGED <<queue, unsolved, wire, rx, up, faults>>

\* mywrite(); bound: a connection never carries more than BufSize bytes.
WriteAppend(h) ==
  /\ AtCall(h, "write")
  /\ LET s == Conn(h)
         d == Call(h).data
     IN  /\ s.status # "FREE"
         /\ s.sizep + Len(d) <= BufSize
         /\ Put(h, Connfd(h), [s EXCEPT !.databuf = CopyIn(@, s.sizep, d),
                                        !.sizep = @ + Len(d)])
  /\ Goto(h, "send")
  /\ UNCHANGED <<queue, unsolved, wire, rx, got, up, faults>>

(***************************************************************************)
(* Send the first segment of what is not acknowledged.  With writep beyond *)
(* sizep the length is negative, memcpy takes it for a huge one and the    *)
(* process dies.                                                           *)
(***************************************************************************)
WriteSend(h) ==
  /\ At(h, "send")
  /\ LET s == Conn(h)
         n == IF s.writep + MSS > s.sizep THEN s.sizep - s.writep ELSE MSS
     IN  IF n >= 0
         THEN /\ SendTCPPackets(h, s.remote,
                   <<Segment("DATA", s.local, s.remote, s.writep, 0,
                             Slice(s.databuf, s.writep, n))>>)
              /\ Put(h, Connfd(h), [s EXCEPT !.writep = @ + n])
              /\ UNCHANGED up
         ELSE /\ up' = [up EXCEPT ![h] = FALSE]
              /\ UNCHANGED <<wire, sock>>
  /\ Goto(h, "spin")
  /\ UNCHANGED <<queue, unsolved, rx, got, faults>>

\* Mutant: write() returns at once.
WriteReturnAtOnce(h) ==
  /\ At(h, "spin")
  /\ Return(h)
  /\ UNCHANGED <<sock, queue, unsolved, wire, rx, got, up, faults>>

\* write() spins until everything has been sent.
WriteReturn(h) ==
  /\ At(h, "spin")
  /\ Conn(h).writep = Conn(h).sizep
  /\ Return(h)
  /\ UNCHANGED <<sock, queue, unsolved, wire, rx, got, up, faults>>

\* The server's close() only waits for the client's.
CloseServer(h) ==
  /\ AtCall(h, "close")
  /\ Conn(h).status # "FREE" /\ Conn(h).tcbRole = "server"
  /\ Goto(h, "closing")
  /\ UNCHANGED <<sock, queue, unsolved, wire, rx, got, up, faults>>

\* Any other close() sends a FIN before it stores FINWAIT1.
CloseSendFin(h) ==
  /\ AtCall(h, "close")
  /\ Conn(h).status # "FREE" /\ Conn(h).tcbRole # "server"
  /\ SendTCPPackets(h, Conn(h).remote,
       <<Segment("FIN", Conn(h).local, Conn(h).remote, 0, 0, <<>>)>>)
  /\ IF "close" \in Races
     THEN Goto(h, "finsent") /\ UNCHANGED sock
     ELSE /\ Goto(h, "closing")
          /\ Put(h, Connfd(h), [Conn(h) EXCEPT !.status = "FINWAIT1"])
  /\ UNCHANGED <<queue, unsolved, rx, got, up, faults>>

CloseStore(h) ==
  /\ At(h, "finsent")
  /\ Put(h, Connfd(h), [Conn(h) EXCEPT !.status = "FINWAIT1"])
  /\ Goto(h, "closing")
  /\ UNCHANGED <<queue, unsolved, wire, rx, got, up, faults>>

CloseReturn(h) ==
  /\ At(h, "closing")
  /\ Conn(h).status = IF Conn(h).tcbRole = "server" THEN "CLOSED" ELSE "TIMEWAIT"
  /\ Return(h)
  /\ UNCHANGED <<sock, queue, unsolved, wire, rx, got, up, faults>>

\* A call on a descriptor without a socket dereferences socket_set.end().
CallOnMissingSocket(h) ==
  /\ \/ \E op \in {"listen", "accept"} :
           AtCall(h, op) /\ Listener(h).status = "FREE"
     \/ \E op \in {"connect", "read", "write", "close"} :
           AtCall(h, op) /\ Conn(h).status = "FREE"
  /\ up' = [up EXCEPT ![h] = FALSE]
  /\ UNCHANGED <<sock, queue, unsolved, wire, app, rx, got, faults>>

AppStep(h) ==
  \/ SocketCreate(h) \/ SocketBind(h) \/ SocketListen(h)
  \/ Connect(h) \/ ConnectReturn(h)
  \/ AcceptCreate(h) \/ AcceptDemote(h) \/ AcceptPromote(h)
  \/ AcceptAwaitAck(h) \/ AcceptReturn(h)
  \/ TestCondition(h) \/ Block(h)
  \/ Read(h) \/ ReadReturn(h)
  \/ WriteAppend(h) \/ WriteSend(h) \/ WriteReturn(h)
  \/ CloseServer(h) \/ CloseSendFin(h) \/ CloseStore(h) \/ CloseReturn(h)
  \/ CallOnMissingSocket(h)
-----------------------------------------------------------------------------
(* The main thread: recvIPPacket. *)

\* Mutant: a SYN is matched by where it comes from.
MatchingSource(h, p) ==
  IF p.kind = "SYN"
  THEN {f \in Opened(h) : /\ sock[h][f].status = "LISTEN"
                          /\ sock[h][f].local = p.src}
  ELSE {f \in Opened(h) : /\ sock[h][f].local = p.dst
                          /\ sock[h][f].remote = p.src}

\* The sockets that match packet p; the lowest descriptor is taken.
Matching(h, p) ==
  IF p.kind = "SYN"
  THEN {f \in Opened(h) : /\ sock[h][f].status = "LISTEN"
                          /\ sock[h][f].local = p.dst}
  ELSE {f \in Opened(h) : /\ sock[h][f].local = p.dst
                          /\ sock[h][f].remote = p.src}

\* Mutant: whatever matches nothing goes to FirstFd.
DestinationDefault(h, p) ==
  IF Matching(h, p) # {} THEN Min(Matching(h, p)) ELSE FirstFd

\* Without a match a SYN dereferences socket_set.end(); any other packet
\* goes to FirstFd, or dereferences socket_queue.end().
Destination(h, p) ==
  IF Matching(h, p) # {} THEN Min(Matching(h, p))
  ELSE IF p.kind # "SYN" /\ FirstFd \in Opened(h) THEN FirstFd
  ELSE LastFd + 2

\* The oldest packet on the wire from g to h leaves it.
Arrives(g, h) == wire' = [wire EXCEPT ![g][h] = Tail(@)]

RecvIPPacket(g, h) ==
  /\ up[h] /\ wire[g][h] # <<>>
  /\ LET p == Head(wire[g][h])
         f == Destination(h, p)
     IN  /\ f \in Fd
         /\ IF p.kind = "SYN"
            THEN Put(h, f, [sock[h][f] EXCEPT !.local = p.dst, !.remote = p.src])
            ELSE UNCHANGED sock
         /\ queue' = [queue EXCEPT ![h][f] = Append(@, p)]
         /\ unsolved' = [unsolved EXCEPT ![h] = Append(@, f)]
  /\ Arrives(g, h)
  /\ UNCHANGED <<app, rx, got, up, faults>>

RecvUnmatchedPacket(g, h) ==
  /\ up[h] /\ wire[g][h] # <<>>
  /\ Destination(h, Head(wire[g][h])) \notin Fd
  /\ Arrives(g, h)
  /\ up' = [up EXCEPT ![h] = FALSE]
  /\ UNCHANGED <<sock, queue, unsolved, app, rx, got, faults>>
-----------------------------------------------------------------------------
(* The processip thread: readIPPacket and recvTCPPacket. *)

RxSock(h) == sock[h][rx[h].fd]
RxAt(h, pc) == up[h] /\ rx[h].pc = pc
Idle(h) == rx' = [rx EXCEPT ![h].pc = "pop"]

\* Take the packet and make the first test of its socket's status.
Pop(h) ==
  /\ RxAt(h, "pop")
  /\ unsolved[h] # <<>>
  /\ LET f == Head(unsolved[h])
     IN  /\ queue[h][f] # <<>>
         /\ rx' = [rx EXCEPT ![h].pc = "react", ![h].fd = f,
                             ![h].pkt = Head(queue[h][f]),
                             ![h].seen = sock[h][f].status]
         /\ queue' = [queue EXCEPT ![h][f] = Tail(@)]
  /\ unsolved' = [unsolved EXCEPT ![h] = Tail(@)]
  /\ UNCHANGED <<sock, wire, app, got, up, faults>>

(***************************************************************************)
(* The status is read again for every branch, and the application thread   *)
(* may store one in between: a branch may be taken for the status seen     *)
(* first or for the present one.                                           *)
(***************************************************************************)
Applicable(h, s) == {r \in Rules : r.on = rx[h].pkt.kind /\ r.at = s}

React(h) ==
  /\ RxAt(h, "react")
  /\ \E r \in Applicable(h, rx[h].seen) \cup Applicable(h, RxSock(h).status) :
        /\ SendTCPPackets(h, rx[h].pkt.src,
             [i \in DOMAIN r.send |-> Reply(rx[h].pkt, r.send[i])])
        /\ rx' = [rx EXCEPT ![h].pc = "store", ![h].rule = r]
  /\ UNCHANGED <<sock, queue, unsolved, app, got, up, faults>>

\* Mutant: nobody is notified.
StoreSilently(h) ==
  /\ RxAt(h, "store")
  /\ Put(h, rx[h].fd, [RxSock(h) EXCEPT !.status = rx[h].rule.to,
                                        !.ready = @ \cup rx[h].rule.wake])
  /\ Idle(h)
  /\ UNCHANGED <<queue, unsolved, wire, app, got, up, faults>>

\* The status is stored after the answer has left, whatever it is by then.
Store(h) ==
  /\ RxAt(h, "store")
  /\ LET r == rx[h].rule
     IN  /\ Put(h, rx[h].fd, [RxSock(h) EXCEPT !.status = r.to,
                                               !.ready = @ \cup r.wake])
         /\ NotifyAll(h, rx[h].fd, r.wake)
  /\ Idle(h)
  /\ UNCHANGED <<queue, unsolved, wire, got, up, faults>>

\* Mutant: what is sent again is labelled with writep.
RecvTCPAckStale(h) ==
  /\ RxAt(h, "react") /\ rx[h].pkt.kind = "ACK"
  /\ "ESTAB" \in {rx[h].seen, RxSock(h).status}
  /\ LET s == RxSock(h)
         p == rx[h].pkt
         n == Lesser(MSS, s.sizep - p.ack)
     IN  IF s.role = "server" THEN UNCHANGED <<sock, wire>>
         ELSE /\ Put(h, rx[h].fd, [s EXCEPT !.writep = p.ack])
              /\ IF p.ack >= s.sizep THEN UNCHANGED wire
                 ELSE SendTCPPackets(h, p.src,
                        <<Segment("DATA", p.dst, p.src, s.writep, 0,
                                  Slice(s.databuf, p.ack, n))>>)
  /\ Idle(h)
  /\ UNCHANGED <<queue, unsolved, app, got, up, faults>>

\* An ACK of data: nothing at a server's socket; elsewhere it moves writep,
\* and the next segment goes out.
RecvTCPAck(h) ==
  /\ RxAt(h, "react") /\ rx[h].pkt.kind = "ACK"
  /\ "ESTAB" \in {rx[h].seen, RxSock(h).status}
  /\ LET s == RxSock(h)
         p == rx[h].pkt
         n == Lesser(MSS, s.sizep - p.ack)
     IN  IF s.role = "server" THEN UNCHANGED <<sock, wire>>
         ELSE /\ Put(h, rx[h].fd, [s EXCEPT !.writep = p.ack])
              /\ IF p.ack >= s.sizep THEN UNCHANGED wire
                 ELSE SendTCPPackets(h, p.src,
                        <<Segment("DATA", p.dst, p.src, p.ack, 0,
                                  Slice(s.databuf, p.ack, n))>>)
  /\ Idle(h)
  /\ UNCHANGED <<queue, unsolved, app, got, up, faults>>

\* Mutant: data is appended wherever it belongs.
RecvTCPDataAppend(h) ==
  /\ RxAt(h, "react") /\ rx[h].pkt.kind = "DATA"
  /\ LET s == RxSock(h)
         p == rx[h].pkt
         end == p.seq + Len(p.data)
     IN  /\ Put(h, rx[h].fd, [s EXCEPT !.databuf = CopyIn(@, s.sizep, p.data),
                                       !.sizep = @ + Len(p.data)])
         /\ NotifyAll(h, rx[h].fd, {"read"})
         /\ SendTCPPackets(h, p.src, <<Segment("ACK", p.dst, p.src, 0, end, <<>>)>>)
  /\ Idle(h)
  /\ UNCHANGED <<queue, unsolved, got, up, faults>>

\* Mutant: the ACK counts one byte too many, as the ACK of a SYN does.
RecvTCPDataAckNext(h) ==
  /\ RxAt(h, "react") /\ rx[h].pkt.kind = "DATA"
  /\ LET s == RxSock(h)
         p == rx[h].pkt
         end == p.seq + Len(p.data)
     IN  /\ Put(h, rx[h].fd, [s EXCEPT !.databuf = CopyIn(@, p.seq, p.data),
                                       !.sizep = IF end > @ THEN end ELSE @])
         /\ NotifyAll(h, rx[h].fd, {"read"})
         /\ SendTCPPackets(h, p.src,
              <<Segment("ACK", p.dst, p.src, 0, end + 1, <<>>)>>)
  /\ Idle(h)
  /\ UNCHANGED <<queue, unsolved, got, up, faults>>

\* Data is stored and acknowledged whatever the status of the socket.
RecvTCPData(h) ==
  /\ RxAt(h, "react") /\ rx[h].pkt.kind = "DATA"
  /\ LET s == RxSock(h)
         p == rx[h].pkt
         end == p.seq + Len(p.data)
     IN  /\ Put(h, rx[h].fd, [s EXCEPT !.databuf = CopyIn(@, p.seq, p.data),
                                       !.sizep = IF end > @ THEN end ELSE @])
         /\ IF end > s.sizep THEN NotifyAll(h, rx[h].fd, {"read"})
            ELSE UNCHANGED app
         /\ SendTCPPackets(h, p.src, <<Segment("ACK", p.dst, p.src, 0, end, <<>>)>>)
  /\ Idle(h)
  /\ UNCHANGED <<queue, unsolved, got, up, faults>>

\* No branch is taken: none fits, or the one that fits the present status
\* was tested before that status was stored.
Ignore(h) ==
  /\ RxAt(h, "react") /\ rx[h].pkt.kind # "DATA"
  /\ Applicable(h, rx[h].seen) = {}
  /\ LET now == RxSock(h).status
     IN  \/ now # rx[h].seen
         \/ ~(rx[h].pkt.kind = "ACK" /\ now = "ESTAB")
  /\ Idle(h)
  /\ UNCHANGED <<sock, queue, unsolved, wire, app, got, up, faults>>

RxStep(h) ==
  Pop(h) \/ React(h) \/ Store(h) \/ RecvTCPAck(h) \/ RecvTCPData(h) \/ Ignore(h)
-----------------------------------------------------------------------------
(* The network below: frames, routes and links. *)

Fault(kind) ==
  /\ kind \in Faults
  /\ faults < MaxFaults
  /\ faults' = faults + 1
  /\ UNCHANGED <<sock, queue, unsolved, app, rx, got, up>>

Lose(g, h) ==
  /\ \E i \in DOMAIN wire[g][h] :
        wire' = [wire EXCEPT ![g][h] = RemoveAt(@, i)]
  /\ Fault("lose")

Duplicate(g, h) ==
  /\ \E i \in DOMAIN wire[g][h] :
        wire' = [wire EXCEPT ![g][h] = Append(@, wire[g][h][i])]
  /\ Fault("duplicate")

Reorder(g, h) ==
  /\ \E i \in DOMAIN wire[g][h] :
        /\ i + 1 \in DOMAIN wire[g][h]
        /\ wire' = [wire EXCEPT ![g][h][i] = wire[g][h][i + 1],
                                ![g][h][i + 1] = wire[g][h][i]]
  /\ Fault("reorder")
-----------------------------------------------------------------------------
Init ==
  /\ sock = [h \in Host |-> [f \in Fd |-> NoSocket]]
  /\ queue = [h \in Host |-> [f \in Fd |-> <<>>]]
  /\ unsolved = [h \in Host |-> <<>>]
  /\ wire = [g \in Host |-> [h \in Host |-> <<>>]]
  /\ app = [h \in Host |-> [ip |-> 1, pc |-> "call", cv |-> "conn",
                            lfd |-> FirstFd, cfd |-> FirstFd]]
  /\ rx = [h \in Host |-> [pc |-> "pop", fd |-> FirstFd, pkt |-> NoPacket,
                           seen |-> "FREE", rule |-> NoRule]]
  /\ got = [h \in Host |-> [f \in Fd |-> <<>>]]
  /\ up = [h \in Host |-> TRUE]
  /\ faults = 0

Finished(h) == app[h].ip > Len(Script[h])

\* Every script has run or its process has died: nothing needs to happen.
Terminated ==
  /\ \A h \in Host : ~up[h] \/ Finished(h)
  /\ UNCHANGED vars

Next ==
  \/ \E h \in Host : AppStep(h) \/ SpuriousWakeup(h) \/ RxStep(h)
  \/ \E g, h \in Host : \/ RecvIPPacket(g, h) \/ RecvUnmatchedPacket(g, h)
                        \/ Lose(g, h) \/ Duplicate(g, h) \/ Reorder(g, h)
  \/ Terminated

Spec == Init /\ [][Next]_vars

\* Every thread is scheduled again and again; the network delivers what it
\* does not lose.
Fairness ==
  /\ \A h \in Host : WF_vars(AppStep(h)) /\ WF_vars(RxStep(h))
  /\ \A g, h \in Host :
       WF_vars(RecvIPPacket(g, h) \/ RecvUnmatchedPacket(g, h))

FairSpec == Spec /\ Fairness
-----------------------------------------------------------------------------
(* Properties. *)

\* Sockets and packets whose bytes lie inside databuf.
SafeSocket == {s \in Socket : s.sizep <= BufSize}
SafePacket ==
  {p \in Packet : p.kind = "DATA" => p.seq + Len(p.data) <= BufSize}

AppThread ==
  [ip : Nat \ {0},
   pc : {"call", "demote", "promote", "test", "block", "wait", "ready", "send",
         "spin", "finsent", "closing"},
   cv : Flag \cup {"read"}, lfd : Fd, cfd : Fd]

RxThread ==
  [pc : {"pop", "react", "store"}, fd : Fd, pkt : SafePacket, seen : Status,
   rule : Rules \cup {NoRule}]

\* The type invariant: threads, sockets and packets are well formed, and
\* every byte sent or stored lies inside databuf.
TypeOK ==
  /\ sock \in [Host -> [Fd -> SafeSocket]]
  /\ queue \in [Host -> [Fd -> Seq(SafePacket)]]
  /\ unsolved \in [Host -> Seq(Fd)]
  /\ wire \in [Host -> [Host -> Seq(SafePacket)]]
  /\ app \in [Host -> AppThread]
  /\ rx \in [Host -> RxThread]
  /\ got \in [Host -> [Fd -> Seq(Content)]]
  /\ up \in [Host -> BOOLEAN]
  /\ faults \in 0 .. MaxFaults

\* read() copies only bytes that have arrived: what made it stop waiting is
\* still true when it copies, whatever arrived in between.
ReadWaits(h) ==
  app[h].pc \in {"test", "block", "wait", "ready"} /\ app[h].cv = "read"

WithinArrived(h) ==
  ReadWaits(h) =>
    /\ app[h].ip <= Len(Script[h]) /\ Call(h).op = "read"
    /\ app[h].pc = "ready" => Conn(h).readp + Call(h).n <= Conn(h).sizep

ReadWithinArrived == \A h \in Host : WithinArrived(h)

\* Every packet handed to processip is for a socket that exists when it is
\* processed, and is answered by one of the rules.
PendingExist(h) ==
  /\ \A i \in DOMAIN unsolved[h] : unsolved[h][i] \in Opened(h)
  /\ rx[h].pc # "pop" => rx[h].fd \in Opened(h)
  /\ rx[h].pc = "store" => rx[h].rule \in Rules

PendingSocketsExist == \A h \in Host : PendingExist(h)

\* The status a socket has as soon as the packet that decides it is answered.
Committed(h, f) ==
  IF rx[h].pc = "store" /\ rx[h].fd = f THEN rx[h].rule.to ELSE sock[h][f].status

\* No packet and no call makes a process dereference a missing socket.
NoCrash == \A h \in Host : up[h]

\* When accept() has just returned, its socket is one end of a connection
\* whose other end has taken part in the handshake.
JustAccepted(h) ==
  /\ app[h].pc = "call" /\ app[h].ip > 1
  /\ Script[h][app[h].ip - 1].op = "accept"

AcceptAgreement ==
  \A h \in Host : JustAccepted(h) =>
    /\ Conn(h).status \in {"ESTAB", "LASTACK", "CLOSED"}
    /\ \E g \in Host, f \in Fd :
         /\ sock[g][f].local = Conn(h).remote
         /\ sock[g][f].remote = Conn(h).local
         /\ Committed(g, f) \notin {"FREE", "NONE", "SYNSENT"}

\* Every call of a program returns, unless its process dies first.
EveryCallReturns == <>(\A h \in Host : Finished(h) \/ ~up[h])
=============================================================================
