---------------------------- MODULE RecvPipeline ----------------------------
(***************************************************************************)
(* How a program receives: main() of src/src/recver.cc, which sender.cc    *)
(* and daemon.cc share.  It fills the device table (DeviceTable), starts   *)
(* one reader thread per device and then takes frames from a queue that    *)
(* the readers fill; a TCP segment for this host goes to the queue of its  *)
(* socket and the socket's descriptor to unSolvedSocket, from which        *)
(* processip serves one segment per descriptor.  work() starts processip   *)
(* and makes the sockets.                                                  *)
(*                                                                         *)
(* The queues are BlockingQueues: bounded, first in first out, a push      *)
(* waits for room and a pop for an item, which BlockingQueue shows of the  *)
(* ring.  What processip does with a segment is Tcp's React, what main     *)
(* does with a frame for another host is Routing's Receive.                *)
(***************************************************************************)
EXTENDS DeviceTable, FiniteSets

CONSTANTS
  Fd,                  \* descriptors of sockets
  NoFd,
  Traffic,             \* what frames on the wires carry
  MaxReaders,          \* bound: devices by which frames arrive
  MaxFrames,           \* bound: frames that arrive
  FrameCapacity,       \* of q, 1024
  SocketCapacity,      \* of each socket's queue, 1000 or (from accept) 2000
  UnsolvedCapacity     \* of unSolvedSocket, 2000

ASSUME PipelineAssumption ==
  /\ NoFd \notin Fd
  /\ Traffic \subseteq [src : Mac, dst : Ip, sock : Fd]
  /\ MaxReaders \in Nat /\ MaxFrames \in Nat
  /\ FrameCapacity \in Nat \ {0}
  /\ SocketCapacity \in [Fd -> Nat \ {0}]
  /\ UnsolvedCapacity \in Nat \ {0}

\* A frame, the device it came by and its number in the order of arrival.
Frame == [src : Mac, dst : Ip, sock : Fd, via : 1 .. MaxReaders, nr : 1 .. MaxFrames]
NoFrame == [nr |-> 0]

VARIABLES
  spawned,      \* how many readers main has started
  working,      \* work() has started processip and made the sockets
  arrived,      \* how many frames the readers have got
  held,         \* the frames that readers hold, one per reader
  frames,       \* q
  current,      \* the segment main is queueing, or NoFrame
  stored,       \* it is in its socket's queue
  socketQueue,  \* socket_queue
  unsolved,     \* unSolvedSocket
  serving,      \* the descriptor processip has popped, or NoFd
  processed     \* the segments it has read (history)

queueVars == <<frames, current, stored, socketQueue, unsolved, serving, processed>>
readVars == <<spawned, working, arrived, held>>
vars == <<deviceVars, readVars, queueVars>>

Init ==
  /\ DeviceInit
  /\ spawned = 0 /\ working = FALSE /\ arrived = 0 /\ held = {}
  /\ frames = <<>>
  /\ current = NoFrame /\ stored = FALSE
  /\ socketQueue = [f \in Fd |-> <<>>]
  /\ unsolved = <<>> /\ serving = NoFd
  /\ processed = <<>>

\* main's addAll.
SetUp == DeviceNext /\ UNCHANGED <<readVars, queueVars>>

\* Mutant: the loop ends one device late.
SpawnOneMore ==
  /\ pass = "done" /\ spawned <= deviceNum
  /\ spawned' = spawned + 1
  /\ UNCHANGED <<deviceVars, working, arrived, held, queueVars>>

\* Its loop over deviceNum; the readers before i run already.
Spawn ==
  /\ pass = "done" /\ spawned < deviceNum
  /\ spawned' = spawned + 1
  /\ UNCHANGED <<deviceVars, working, arrived, held, queueVars>>

Spawned == pass = "done" /\ spawned = deviceNum

Work ==
  /\ Spawned /\ ~working
  /\ working' = TRUE
  /\ UNCHANGED <<deviceVars, spawned, arrived, held, queueVars>>

\* recvFrame drops what this device sent itself, and takes for its own what
\* has the address of the device it came by.
IsLocal(f) ==
  /\ f.src # currDevice[f.via].Mac
  /\ f.dst = currDevice[f.via].IP

\* Reader i gets a frame, by the handle it has opened for itself, which nobody
\* else uses and nothing closes.  Segments come once their sockets exist (Tcp has
\* the program's death if they come before).
PcapNext(i) ==
  /\ i <= MaxReaders /\ arrived < MaxFrames
  /\ \A f \in held : f.via # i
  /\ \E t \in Traffic :
       LET f == [src |-> t.src, dst |-> t.dst, sock |-> t.sock, via |-> i,
                 nr |-> arrived + 1]
       IN  /\ IsLocal(f) => working
           /\ held' = held \cup {f}
  /\ arrived' = arrived + 1
  /\ UNCHANGED <<deviceVars, spawned, working, queueVars>>

\* Mutant: a full queue drops the frame.
PushFrameOrDrop(i) ==
  \E f \in held :
    /\ f.via = i
    /\ held' = held \ {f}
    /\ frames' = IF Len(frames) < FrameCapacity THEN Append(frames, f) ELSE frames
    /\ UNCHANGED <<deviceVars, spawned, working, arrived, current, stored,
                   socketQueue, unsolved, serving, processed>>

\* Mutant: the newest frame goes first.
PushFrameInFront(i) ==
  \E f \in held :
    /\ f.via = i
    /\ Len(frames) < FrameCapacity
    /\ held' = held \ {f}
    /\ frames' = <<f>> \o frames
    /\ UNCHANGED <<deviceVars, spawned, working, arrived, current, stored,
                   socketQueue, unsolved, serving, processed>>

PushFrame(i) ==
  \E f \in held :
    /\ f.via = i
    /\ Len(frames) < FrameCapacity
    /\ held' = held \ {f}
    /\ frames' = Append(frames, f)
    /\ UNCHANGED <<deviceVars, spawned, working, arrived, current, stored,
                   socketQueue, unsolved, serving, processed>>

Reader(i) == PcapNext(i) \/ PushFrame(i)

\* main takes a frame; recvFrame drops it, passes it to recvArp or forward,
\* or calls recvIPPacket.
PopFrame ==
  /\ Spawned
  /\ current = NoFrame /\ frames # <<>>
  /\ frames' = Tail(frames)
  /\ current' = IF IsLocal(Head(frames)) THEN Head(frames) ELSE NoFrame
  /\ UNCHANGED <<deviceVars, readVars, stored, socketQueue, unsolved, serving,
                 processed>>

\* recvIPPacket's first push.
PushPacket ==
  /\ current # NoFrame /\ ~stored
  /\ Len(socketQueue[current.sock]) < SocketCapacity[current.sock]
  /\ socketQueue' = [socketQueue EXCEPT ![current.sock] = Append(@, current)]
  /\ stored' = TRUE
  /\ UNCHANGED <<deviceVars, readVars, frames, current, unsolved, serving,
                 processed>>

\* Mutant: only the first segment of a socket needs a descriptor.
PushTicketOnce ==
  /\ current # NoFrame /\ stored
  /\ Len(unsolved) < UnsolvedCapacity
  /\ unsolved' = IF Len(socketQueue[current.sock]) > 1 THEN unsolved
                 ELSE Append(unsolved, current.sock)
  /\ current' = NoFrame /\ stored' = FALSE
  /\ UNCHANGED <<deviceVars, readVars, frames, socketQueue, serving, processed>>

\* Its second push.
PushTicket ==
  /\ current # NoFrame /\ stored
  /\ Len(unsolved) < UnsolvedCapacity
  /\ unsolved' = Append(unsolved, current.sock)
  /\ current' = NoFrame /\ stored' = FALSE
  /\ UNCHANGED <<deviceVars, readVars, frames, socketQueue, serving, processed>>

Main == PopFrame \/ PushPacket \/ PushTicket

PopTicket ==
  /\ working
  /\ serving = NoFd /\ unsolved # <<>>
  /\ serving' = Head(unsolved)
  /\ unsolved' = Tail(unsolved)
  /\ UNCHANGED <<deviceVars, readVars, frames, current, stored, socketQueue,
                 processed>>

\* Mutant: the newest segment is read.
ReadNewest ==
  /\ serving # NoFd /\ socketQueue[serving] # <<>>
  /\ LET q == socketQueue[serving]
     IN  /\ processed' = Append(processed, q[Len(q)])
         /\ socketQueue' = [socketQueue EXCEPT ![serving] = SubSeq(q, 1, Len(q) - 1)]
  /\ serving' = NoFd
  /\ UNCHANGED <<deviceVars, readVars, frames, current, stored, unsolved>>

\* readIPPacket pops the socket's queue.
ReadIPPacket ==
  /\ serving # NoFd /\ socketQueue[serving] # <<>>
  /\ processed' = Append(processed, Head(socketQueue[serving]))
  /\ socketQueue' = [socketQueue EXCEPT ![serving] = Tail(@)]
  /\ serving' = NoFd
  /\ UNCHANGED <<deviceVars, readVars, frames, current, stored, unsolved>>

ProcessIPPacket == PopTicket \/ ReadIPPacket

\* Every thread waits for the network, and the bound is reached.
AtRest ==
  /\ Spawned /\ working
  /\ arrived = MaxFrames \/ spawned = 0
  /\ held = {} /\ frames = <<>> /\ current = NoFrame
  /\ unsolved = <<>> /\ serving = NoFd
  /\ UNCHANGED vars

Next ==
  \/ SetUp \/ Spawn \/ Work
  \/ \E i \in 1 .. spawned : Reader(i)
  \/ Main \/ ProcessIPPacket
  \/ AtRest

Spec == Init /\ [][Next]_vars

\* Every thread runs; nothing makes a frame arrive.  A reader waits for room
\* only as often as others fill it, and MaxFrames bounds that.
Fairness ==
  /\ WF_vars(SetUp) /\ WF_vars(Spawn) /\ WF_vars(Work)
  /\ \A i \in 1 .. MaxReaders : WF_vars(i <= spawned /\ PushFrame(i))
  /\ WF_vars(Main) /\ WF_vars(ProcessIPPacket)

FairSpec == Spec /\ Fairness
-----------------------------------------------------------------------------
(* Properties. *)

PipelineTypeOK ==
  /\ DeviceTypeOK
  /\ spawned \in 0 .. deviceNum /\ spawned <= Len(currDevice)
  /\ spawned # 0 => pass = "done"
  /\ working \in BOOLEAN
  /\ arrived \in 0 .. MaxFrames
  /\ held \subseteq Frame /\ \A f, g \in held : f.via = g.via => f = g
  /\ frames \in Seq(Frame) /\ Len(frames) <= FrameCapacity
  /\ \A i \in DOMAIN frames : frames[i].via <= spawned
  /\ \A f \in held : f.via <= spawned
  /\ current \in Frame \cup {NoFrame}
  /\ stored \in BOOLEAN /\ (stored => current # NoFrame)
  /\ socketQueue \in [Fd -> Seq(Frame)]
  /\ \A f \in Fd : Len(socketQueue[f]) <= SocketCapacity[f]
  /\ unsolved \in Seq(Fd) /\ Len(unsolved) <= UnsolvedCapacity
  /\ serving \in Fd \cup {NoFd}
  /\ processed \in Seq(Frame)

\* The descriptors that processip has to serve, the one it has popped first.
Tickets == IF serving = NoFd THEN unsolved ELSE <<serving>> \o unsolved

\* How many of the first n elements of s are x.
CountTo(s, n, x) == Cardinality({i \in 1 .. n : s[i] = x})

\* The two queues that recvIPPacket fills and processip empties in two steps
\* each agree: a socket has as many segments as unSolvedSocket has its
\* descriptor, but for the one that main is queueing.  So processip never
\* waits at an empty socket queue, and no segment is left behind in one.
TicketsMatch ==
  \A f \in Fd :
    Len(socketQueue[f]) =
      CountTo(Tickets, Len(Tickets), f)
        + (IF stored /\ current.sock = f THEN 1 ELSE 0)

\* The i-th descriptor stands for the segment that it will find.
Announced ==
  [i \in 1 .. Len(Tickets) |->
     socketQueue[Tickets[i]][CountTo(Tickets, i, Tickets[i])]]

\* Together all the sockets' queues and unSolvedSocket are one queue:
\* processip reads the segments of all sockets in the order in which main
\* announced them.
Fifo == INSTANCE BoundedFifo WITH
          Item <- Frame, Capacity <- UnsolvedCapacity + 1,
          queued <- Announced, delivered <- processed
ImplementsFifo == Fifo!Spec

\* Segments that came by one device are read once and in the order in which
\* they came, whatever the sockets and queues they passed.
InOrderPerDevice ==
  \A i, j \in DOMAIN processed :
    i < j /\ processed[i].via = processed[j].via => processed[i].nr < processed[j].nr

\* Every segment for this host is read in the end: main and processip, each
\* waiting for room or for items in its turn, never wait for each other, and
\* no full queue loses one.
EverySegmentRead ==
  \A n \in 1 .. MaxFrames :
    (\E f \in held : f.nr = n /\ IsLocal(f))
      ~> (\E i \in DOMAIN processed : processed[i].nr = n)
=============================================================================
