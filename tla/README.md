# iTCP, modelled and verified

iTCP is a user-space TCP/IP stack on libpcap. Hosts are network namespaces
joined by veth pairs; each runs one process (`sender.cc`, `recver.cc`) that
announces its addresses, routes and forwards IP packets, and offers POSIX-like
calls (`__wrap_socket` ... `__wrap_close`) on TCP sockets. This directory holds
TLA+ models of its transport layer, its network layer, its device table and the
threads and queues by which a process receives, the TLC runs that check them, and
TLAPS proofs about them.

    tlc -workers 2 -config Tcp_small.cfg MCTcp.tla  # a run
    tlapm TcpProofs.tla                             # the proofs of a module

The module of each run is in `PROJECT.json`.

`PROJECT.json` lists the components, the runs, the hazards of the code, the
source lines of every definition, and for every property a mutant: a plausible
bug in a definition that makes TLC find the property violated. Definitions
marked `Mutant` in the modules are those; nothing uses them.

## The system

| component | source | state | operations |
|---|---|---|---|
| Socket API | `src/socket.cc` | the stack of the application thread | socket, bind, listen, connect, accept, read, write, close |
| Socket table | `include/core.h` | `socket_set`: per descriptor TCB (endpoints, status, role), ready flags, `databuf` with `readp`, `writep`, `sizep` | `socket_create`, `bind`, `socket_listen`, `myread`, `mywrite`, the copy constructor |
| Segment processing | `src/tcp.cc` | `socket_queue`, `unSolvedSocket` | `recvIPPacket` (match and queue), `readIPPacket` (status machine), `recvTCPPacket` (data, ACKs), `sendTCPPacket` |
| BlockingQueue | `include/utils.h` | ring `_vt`, `_start`, `_end`, mutex, two condition variables | push, pop |
| Routing table | `include/ip.h` | `routeTable`, `rt_m` | setRoutingTable, lookForRoute, myArpLookForRoute |
| myArp | `src/myArp.cc` | none | sendArp, recvArp, sendArpBroadCast |
| IP | `src/ip.cc`, `src/forward.cc` | none | sendIPPacket, recvFrame, forward |
| Device table | `src/device.cc`, `core.h` | `currDevice`, a vector of `device_t` with a pcap handle each | addDevice, addAll, addDeviceKernel, addIP; `device_t`'s copy and destruction |
| Frames | `src/packetio.cc` | pcap handles | sendFrame |
| Programs | `src/sender.cc`, `src/recver.cc`, `src/daemon.cc` | the threads below | main, work, periodSendMyArp, processIPPacket, recvPcapPacket |

**Threads of one process.** One `recvPcapPacket` thread per device pushes
frames into a `BlockingQueue` of 1024; the *main* thread pops them and runs
`recvFrame`, which delivers, learns a route, or forwards; a delivered packet goes
to `recvIPPacket`, which pushes it to the queue of a socket and the descriptor to
`unSolvedSocket`; the *processip* thread pops descriptors and runs
`readIPPacket`, which answers, stores a status and notifies; the *application*
thread (`work`) makes the calls; the *announcer* calls `sendArp` twice.
The application and processip threads share the sockets almost without locks:
flags, statuses and counters are set by one and tested, or spun on, by the other.

**What is hard.** Condition variables notified without the waiter's mutex;
answers sent before the status they belong to is stored (on both sides); a
status tested again for each branch of `readIPPacket` while another thread
stores one; a segment acknowledged after `write()` has returned; packets that
match no socket; a descriptor table at its limit; an uninitialised flag copied by
`accept()`; floods of announcements in a network with a cycle, and their 8-bit
ttl; bounded queues in a row, two of them filled by one thread and emptied by
another in two steps; devices that are copied, handles and all, whenever the
vector moves. Nothing is persisted, so there is no crash recovery; no timer retransmits.

**What makes each part correct.**
- *Socket API and segment processing*: both ends agree on a handshake before
  `connect()` and `accept()` return; `read()` returns what the peer wrote, in
  order and without gaps, and a byte that may be read does not change any more;
  a close loses nothing; every call returns; no packet kills a process.
- *Socket table*: all copies into and out of `databuf` stay inside it and inside
  what has arrived; a descriptor given to a caller is a new socket's (it is not
  when the table is full, run `v_full`).
- *BlockingQueue*: a bounded FIFO queue in which no wake-up is lost.
- *Device table*: IDs are positions, a device alone owns its open handle, and
  what `addAll` returns is the size of the table, since main starts that many
  readers.
- *Reader, main and processip threads*: every descriptor in `unSolvedSocket` has
  its segment, segments are read in order and none is lost, and no circle of
  threads waits.
- *Routing and IP*: every host learns a route; until an announcement's ttl wraps,
  routes never lead in a circle and a routed packet arrives once (after that they
  may lead in one, run `v_wrap`).

## The modules

| module | models | composes |
|---|---|---|
| `Tcp` | one process per host: application, main and processip threads, socket table, wires between hosts | |
| `Connection` | abstract: one connection as a stream of bytes, opened and closed by two ends | |
| `MCTcp` | the two programs of `L4Test.sh`, the refinement mapping, properties of a pair | `Tcp`, `Connection` |
| `MCTcpMany` | a third host beside them | `MCTcp` |
| `TcpProofs` | proofs about `Tcp`, for any programs | `Tcp` |
| `TcpStreamProofs` | one connection between two programs: its invariant, what the actions do, that it is inductive, and what follows | `MCTcp`, `TcpProofs` |
| `TcpOrderProofs` | the order of that connection's packets, without a fault and with one: what is read | `TcpStreamProofs` |
| `TcpPhaseProofs` | all of its packets, phase by phase, when writes are long and nothing is lost: how it closes, the refinement | `TcpOrderProofs`, `Connection` |
| `TcpManyProofs` | that connection with other hosts beside it | `MCTcpMany`, `TcpProofs`, instantiates `TcpPhaseProofs` |
| `BlockingQueue`, `BoundedFifo` | the ring with its sleepers; what a queue promises | `BlockingQueue` instantiates `BoundedFifo` |
| `MCBlockingQueue`, `QueueProofs` | an instance; the proofs | `BlockingQueue` |
| `DeviceTable` | `addDevice` and `addAll`, with the copies that the vector makes | |
| `RecvPipeline` | a process that starts up and receives: readers, main, processip and their queues | extends `DeviceTable`, instantiates `BoundedFifo` |
| `MCRecvPipeline` | interface lists and traffic | `RecvPipeline` |
| `PipelineProofs` | proofs about the two | `RecvPipeline` |
| `Routing` | the hosts' tables, the links, announcing, learning, forwarding | |
| `MCRouting`, `RoutingProofs` | two networks; the proofs | `Routing` |

### Tcp

- `sock[h][f]` is descriptor `f` of host `h` in `socket_set` (status `FREE`:
  not there); `queue`, `unsolved` are `socket_queue` and `unSolvedSocket`;
  `app[h]` and `rx[h]` are the program counters and locals of the application
  and processip threads; `wire[g][h]` is everything below `sendTCPPacket` and
  above `recvIPPacket`. `got`, `up` and `faults` are histories.
- Each call is split where another thread can come between and see a difference.
  `connect` = `Connect`, then the wait (`TestCondition`, `Block`,
  `SpuriousWakeup`), then `ConnectReturn`; `accept` = `AcceptCreate` (search,
  copy), `AcceptDemote` (listener to CLOSED), `AcceptPromote` (copy to LISTEN),
  two waits, `AcceptReturn`; `write` = `WriteAppend`, `WriteSend`, the spin;
  `close` = `CloseServer`, or `CloseSendFin` and `CloseStore`, then the spin.
- `RecvIPPacket` is the main thread's whole handler: match, patch the endpoints
  of a listening socket, two pushes. `RecvUnmatchedPacket` is the dereference of
  `end()` at `tcp.cc:87` (a SYN without a listener) or of a missing queue. That it
  is one action matters only after `listen()`, when `accept()`'s copy and demotion
  could come between match and patch; the one run that calls `listen()` and
  receives, `v_listen`, is violated without that.
- `Pop` takes a packet and reads the status; `React` sends the answers; `Store`
  stores status and flag and notifies. The statuses of `readIPPacket` are a
  table, `Rules`. Since the code reads the status again for every branch,
  `React` may follow the status seen first or the present one, and `Ignore`
  covers the branch that was passed before its status came.
- A call on a descriptor that is not in the table kills the process
  (`CallOnMissingSocket`), as does a negative length in `WriteSend`.

`Races` names the scheduling windows, so that a run can say which of them it
excludes: `"wakeup"` (processip runs between a waiter's test and its wait),
`"close"` (between the FIN and the store of FINWAIT1), `"start"` (the client
starts first, which the note of `L4Test.sh` tells the user to avoid). A run
without one shows what holds under every schedule that does not hit it; the
violation runs show what happens when it is hit, and `windows` what still holds.

Abstractions. A segment is a kind with the fields something reads: the seq of an
ACK and the ack of a data segment are 0. `MSS` (1000 in the code) is 2 and
`BufSize` (1 MiB) is what the script writes. The two queues are unbounded here
(1000 and more in the code, beyond anything a run puts in); their blocking is the
subject of `RecvPipeline`. The programs are built without optimisation
(`CFLAGS = -w -g`), so the spins re-read memory. The table is changed atomically:
the unlocked `std::map` is undefined behaviour without a set of outcomes to
choose from. `processIPPacket` starts ten seconds late in the code, when nothing
has arrived; here it is there from the start. CLOSEWAIT is stored nowhere and the
branch at `tcp.cc:148` (SYNSENT at a TCP_SERVER) cannot be reached.

### BlockingQueue

One action per pass through the loop of `push` or `pop`, since both hold the
mutex except while they wait. `notFull` and `notEmpty` are the threads asleep on
each condition variable, `woken` those that have left their sleep and want the
mutex. `notify_one` picks any sleeper; sleepers may wake for no reason.

### DeviceTable and RecvPipeline

`DeviceTable` takes one step per entry of `getifaddrs`. `addAll` has two passes
over the list: the first adds a device per "packet" entry of a name that begins
with `v`, the second sets addresses. A `device_t` is its name, ID, addresses and
handle; `open` is the set of handles that pcap has open. `PushBack` is
`push_back` of a temporary: the vector copies it, and if it moves it copies all
devices and destroys the old ones; whether it moves is left open. `Requested` are
devices that a program adds itself before, of any name; calls of `addDevice` that
change nothing (NULL, a name without an entry) are left out. A device of a name
that `addAll` does not take is in the table but not in `addAll`'s count, and has no
reader, so `CountsTheTable` is claimed for `Requested \subseteq Veth` only; the
programs of the repository add none themselves. IDs count from 1 here.
`pcap_open_live` succeeds. Each reader also opens a handle of its own
(`recver.cc:25`, `daemon.cc:25`) and never closes it; it belongs to no `device_t`
and is not in `open`.

`RecvPipeline` is `main` of `recver.cc`, `sender.cc` and `daemon.cc`, which are
alike: it runs `DeviceTable` (`SetUp`), starts one reader per counted device
(`Spawn`; those before already read), and then takes frames (`PopFrame`). `work()`
starts processip and makes the sockets (`Work`). The state: `frames` is `q`;
`held` are the frames that readers have got and wait to push; `current` and
`stored` are main's place in `recvIPPacket` between its two pushes (`PushPacket`,
`PushTicket`); `serving` is processip's between its two pops (`PopTicket`,
`ReadIPPacket`); `arrived` and `processed` are histories.

The queues are sequences with a capacity; a push waits for room and a pop for an
item. That a `BlockingQueue` is one is the theorem `QueueImplementsFifo`. A frame
carries what `recvFrame` compares, its sender's MAC and its destination, and the
descriptor that the search of `recvIPPacket` ends at (Tcp models the search). What
main does with a frame for another host (`recvArp`, `forward`) is one step of
Routing and needs no queue here. Segments for this host come only once their
sockets exist; earlier ones kill the process, which `Tcp` shows. A reader waits
until `pcap_next` has a frame; its timeout, after which the code copies through
NULL, is not modelled.

`Announced`, the refinement mapping to `BoundedFifo`, replaces every descriptor
by the segment that it will find: the k-th occurrence of a descriptor in
`unSolvedSocket` by the k-th segment of its queue.

### Routing

A veth end has one address, so a `Device` stands for its address and its MAC, and
the next hop of a route is the peer of its device. `link[d]` holds the frames that
go to device `d` or wait there. `recvFrame` is split by the branch it takes:
`ReceiveHere`, `RecvOwnArp`, `RecvArp`, `Forward`, each the whole handler with the
sending it does. A frame is one action: only the main thread writes the table
after start-up, and `rt_m` covers each access. `sendIPPacket` puts its copies on
all links at once; the order on each link is what the code gives, while the code
may interleave the copies of two threads differently on two links.
`ConstructIPPacket` stores the ttl modulo `Width`, as the 8-bit field does.
`ReceiveHere` compares the destination with the address of the arrival device
only, as `ip.cc:127` does (its loop tests `id` where it counts `i`): packets to
another address of the host are forwarded. The history field `routed` marks
packets sent when every host had a route.

## The runs

| run | question | result |
|---|---|---|
| `l4` | the programs of `L4Test.sh`, each write longer than a segment | the sockets implement `Connection`; `accept()` returns one end of a real handshake; data and ACKs are stop-and-wait; nothing is unsent at close; every call returns. Beside them a third host asks for a second socket on a full table, and connects with the number `LastFd + 1` that the library returns without a socket: its process dies, a fault of the library (`v_full`), and the two others are as before |
| `small` | writes of at most a segment, which return before their ACK | late ACKs move `writep` back and segments go out again, yet the bytes arrive in order and every call returns; no process dies |
| `windows` | all windows open, any value of the uninitialised flag, a write that returns at once before one that waits, and one packet lost, duplicated or swapped with the next | a byte that is read is the one written or, where a segment of the first write is lost, the zero of the gap; the write that waits is read whole; bytes that have arrived never change; death only by a stray SYN; processip never works on a missing socket |
| `queue` | two producers, two consumers, capacity 2 | a bounded FIFO, no lost wake-up, everything delivered |
| `pipeline` | devices are added by name and by `addAll`; two readers, two sockets, four frames, and queues of capacity 1 and 2 | each device has one ID, one handle and one reader; descriptors and segments agree at every step; the sockets' queues together are one FIFO; every segment is read, those of one device in order |
| `ring` | announcements and a packet in a network with a cycle and a static route | no circles, exactly-once delivery of a routed packet, all before an announcement wraps; every host learns a route |
| `v_wakeup` | the answer comes between a waiter's test and its wait | violated: the call never returns |
| `v_close` | packets are processed between the FIN of `close()` and its store of FINWAIT1 | violated: `close()` never returns, because the ACK of the FIN is dropped, or because the peer's FIN is taken for a passive close and one of the two stores is lost. An early ACK alone that is taken for an ACK of data does not do it: the data goes out again, and the ACK of that brings TIMEWAIT |
| `v_listen` | `listen()` before `accept()`, as POSIX programs do | violated: `accept()` returns a socket that took part in no handshake |
| `v_full` | a server on a full table accepts, then makes another socket | violated: `socket()` makes none, and returns the descriptor of the accepted one |
| `v_rival` | a second client | violated: the server dies |
| `v_wrap` | announcements are followed after ttl 0 | violated: a good route is replaced by one that leads back |

The details of the violations, with the sentences of the code they contradict,
are under `findings` in `PROJECT.json`.

**Bounds.** Two hosts with one connection are the programs of the repository;
two writes of three bytes with `MSS = 2` make every write span a full and a
partial segment, the smallest sizes at which the resend of `recvTCPPacket`
happens in the middle of a write. `SmallScript` has writes of a full segment and
of less, and reads that end inside and at the end of a write. `LastFd` leaves
one free descriptor in the runs of two hosts; in `l4`, `v_rival` and `v_full` a
table has room for one socket, so that `accept()` takes `LastFd + 1`, 200 in the
code. `GapScript` of
`windows` has a write that returns at once before one that is longer than a
segment: the first may be lost for good, its late ACK moves `writep` back in the
middle of the second, and one fault is enough for each kind to matter, a swap
too. `View` merges states of `windows` that differ in `acc_ack_ready`
of a socket on which nobody will test it. Capacity 2 with two threads on each
side has three places, wrap-around, and sleepers on both sides. In `pipeline`
four frames fill `q` (capacity 2) with both readers waiting; one socket's queue
holds a single segment, so that the first push of `recvIPPacket` blocks too, and
`unSolvedSocket` one descriptor, so that the second does; the lists are the
order of Linux with a device that is not taken, and a device with two addresses.
In `ring` host B is the neighbour of A and on a triangle B, C, D: announcements
of A reach C and D over two paths. `ArpTtl = 2` is the longest path a host can
learn, minus one; `PacketTtl = ArpTtl` is the least that carries a packet along
every learned route, as 10 does for 8; D's route is static, as in `sender.cc`;
one round of announcements instead of two, of A only, since the addresses do not
interact; announcements are followed down to ttl 0 (`Followed`), while the code
sends them on with a wrapped ttl for ever. So the safety properties of `ring` are
about what happens before the wrap, and they do not survive it: `v_wrap` follows the
announcements further, with `Width = 8`. `EveryoneLearnsARoute` does not depend on
the bound, since more announcements cannot take a route away.

**Deadlock** is checked in `l4`, `small`, `queue` and `pipeline` (which stutters
explicitly when all traffic is read), not where the system may stop: after a
crash, a fault or a hung call, and in `ring`, which comes to rest.
`SpuriousWakeup` keeps a queue of sleepers from deadlocking formally, so that it
is `AllDelivered`, under a fairness that never wakes anybody spuriously, that
says that no set of threads sleeps on each other.

**Fairness.** Weak fairness of each thread's steps (the scheduler runs every
runnable thread), of delivery on each wire (a veth pair loses nothing while it
is up) and, for the queue, of each thread's getting the mutex. None for spurious
wake-ups, faults, or a program's wish to send a packet. In `pipeline` each
reader's push, main and processip are weakly fair; nothing makes a frame arrive.
A push at a full queue is enabled again and again rather than always, but the
arrivals are bounded and main takes everything that arrived, so that in the end
it stays enabled. In `ring` fairness is per device: each has a reader thread,
and the frame queue is FIFO.

## What is proved

All theorems hold for every value of the constants that meets the assumptions
named in the modules (`TcpAssumption`, `QueueAssumption`, `RoutingAssumption`,
`NoRouteAssumption`, `DeviceAssumption`, `PipelineAssumption`).

- `TcpProofs`: `TypeCorrect`, `ReadsArrived`, `PendingExists`, for any hosts,
  scripts, windows and faults. The inductive invariant (`Inductive`) is their
  conjunction: `TypeOK` says that every byte sent or stored lies inside `databuf`,
  and that a read does so follows only from `ReadWithinArrived`, which in turn
  needs that `sizep` never shrinks; that `processip` finds its socket needs the
  queued descriptors, since a socket is never removed. `WriteAppend`'s bound is the
  assumption on the length of a connection; the code has no such test.
- `TcpStreamProofs`: one connection. The
  hypothesis `OneWay` is that one host runs a program that makes a socket,
  connects, writes any number of times and closes, the other one that makes a
  socket, binds, accepts, reads any number of times and closes, as `sender.cc`
  and `recver.cc` do; `ScriptsFit` shows that the scripts of the runs meet it.
  Lengths, sizes of segments and buffers, races and faults are arbitrary.
  `StreamInductive` is the induction, on `StreamInv` with the invariant of
  `TcpProofs`. Its parts lean on each other: that a packet of data is a piece of
  the client's `databuf` (`PacketsInv`) makes the server's buffer a copy with gaps
  (`BytesInv`); that it goes to the accepted socket needs that the server has a
  peer before the client is answered (`HandshakeInv`); that `accept()`'s stores to
  the two sockets race with nothing needs that processip has nothing of the
  listener (`RxInv`), which needs where each thread may be (`CallsInv`,
  `ClientInv`, `ServerInv`). From it follow
  - `ReadsNoWrongByte`, `ArrivedBytesAreFinal` and `OnlyStraySynKills`, with no
    further hypothesis. The second needs
    `Untouched` besides: until `accept()` has made its socket, nothing but zeros is
    in its place, so that the copy of the listener overwrites no byte that arrived;
  - `AcceptedHasPeer`, that `AcceptAgreement` holds where the constructor's byte
    happens to be zero (`Garbage = {FALSE}`); it needs that no program runs past the
    end of its script (`WithinScript`);
  - `NothingKills`, that `NoCrash` holds if the server listens first (`"start"
    \notin Races`, the note of `L4Test.sh`) and nothing is duplicated: until the
    server has its peer the SYN is alone on the wires and there is a socket in
    LISTEN; afterwards no SYN is under way (`OneSyn`). Each hypothesis is needed:
    a client that starts first or a SYN that comes twice kills the server.
- `TcpOrderProofs`, first part: `ReadsWhatWasWritten`, that `ReadIntegrity` holds for
  any scripts of `OneWay`, any lengths and all races, if the network loses, repeats
  and swaps nothing (`Faults = {}`). Short writes return before they are
  acknowledged, late ACKs move `writep` back, and `write()` and `recvTCPPacket` both
  send, so the packets are not the stream in order. The invariant `NoGap` is about the
  line of packets between the client's thread and the accepted socket: in the hands
  of processip, then in the queue, then on the wire. No data segment
  is ahead of the bytes it follows (`GapFree`); every byte that counts as sent
  has arrived or is on the line (`SentOnWay`); no ACK is ahead of what has arrived
  (`AcksArrived`), so that `writep` never moves past a byte that is not on its way;
  and what has arrived is what was written (`SameBytes`). There is one line because
  there is one SYN, and because nothing but the SYN goes to the listener (`OneSyn`,
  `OneSocket`). All of it is claimed while the server's process lives; when a stray SYN
  has killed it, nothing is read any more.
- `TcpOrderProofs`, second part: `LongWritesSurvive`, that `LongWritesIntact` holds
  for any scripts of `OneWay`, any sizes, all races and any `Garbage`, if the network
  loses, repeats or swaps a packet at most once (`MaxFaults <= 1`). `LongWritesIntact`
  knows a byte of a long write by its value, so no short write may hold it
  (`SeparateBytes`; `SeparateWritesFit` shows that such scripts exist). The invariant
  `Whole` speaks of the bytes of long writes that have not arrived (`Missing`).
  In `Straight`, the ordinary case, every data segment on the line has before it a
  packet that brings each missing byte it follows, and before the fault it has *two*
  (`Intact`), because a long write's segments after the first go out twice, from
  `recvTCPPacket` when the ACK of what is before them comes and from `write()`, and
  nothing follows the first one until its ACK has come. So the fault, which takes
  one packet from the line or moves one back (`Harmed`), leaves one that brings the
  byte (`IntactHarmed`). The exception is a `write()` that waits for the ACK of a
  segment sent once (`Stuck`): there the loss of the segment stops the client for
  good, so that nothing ever follows the gap. A fault may also repeat the SYN: the
  server then gives all data to its listening socket, and the accepted one is left
  with what was queued before (`Aside`). In both cases no byte that `read()` may
  take is missing (`NoneBelow`), and `ReadNext` says what it returns then. One fault
  is the limit: of two, each may take one copy of a last segment.
- `TcpPhaseProofs`: `ClosesAfterTheLastByte`, `OneAtATime` and
  `ImplementsOneConnection`, under `OneWay` and `Orderly`: no fault, every write
  longer than a segment, and the windows `"start"` and `"close"` not hit
  (`"wakeup"` may be: it delays a call for ever, but does no harm to the data).
  `LongWritesFit` shows that such scripts exist. The invariant
  `OrderlyInv` adds to `NoGap` the phase of the connection (`Phase`): for
  each pair of statuses of the two ends, the kinds of all packets on the two lines, in
  order. It is inductive with what the two threads of the client may be doing in
  each phase: `write()` waits while a segment or its ACK is on its way
  (`WriteWaits`), and no status changes between processip's answer and its store
  (`ClientThread`); `NothingElse` says that no packet is on any other line. `Onward`
  lists the steps of the two statuses that remain possible, and these are the steps
  of `Connection`. That `ServerCloses` finds every byte there follows from
  `SentOnWay` and the phase, in which the FIN is alone on its line. The hypotheses are
  needed: in `v_close` the FIN is answered before its status is stored, and after a
  write of at most a segment `close()` comes before the ACK, with data and FIN on the
  line together.
- `TcpManyProofs`: the same connection among any number of hosts, which is what `l4`
  runs. `TwoAlone`: as long as no other host has sent a packet (`Quiet`), a behaviour
  of the system, restricted to the state of the two hosts (`sock2`, `wire2`, ...), is
  one of the system of the two alone, the instance `Two` of `TcpPhaseProofs`, so that
  every theorem above holds of it. `Beside` is the hypothesis: two of the hosts run a
  client and a server of `OneWay`; the others may make any calls and may die. Each
  action of a host is shown to read and write nothing but that host's state, the
  wires to and from it, and constants (`SameConstants`, `SameOperators`); `Apart`, that
  no packet is on a wire to or from another host or waits in its queues, is what
  makes every delivery one between the two. `ManyInv` is `Apart` with the invariant
  of `TcpProofs`, for all hosts and for the two. `ConnectionBeside` carries the refinement and its two invariants
  over.
  The rest is about the third program of `l4` (`FillsItsTable`: its second
  `socket()` finds the table full, and it connects with the number it was given).
  `OtherInv` follows its calls: it never has a second socket, so `connect` finds none
  and the host sends nothing (`ThirdIsQuiet`). Hence `ConnectionBesideFullTable` and
  `AcceptAgreesBesideFullTable`, for every pair of scripts where `l4` has one: the
  fault of `socket()` stays on its host.
- `QueueProofs`: `QueueTypeCorrect`; `WakeupsKept`, by the counting invariant
  `NoLostWakeup` itself: while a consumer sleeps, the woken consumers are at
  least as many as the items; `QueueImplementsFifo`, by the refinement mapping
  that reads the ring from `_start` to `_end`.
- `PipelineProofs`: `DeviceTableCorrect`, for every list of interfaces and
  `addDevice` of any names: IDs are positions and handles are owned.
  `PipelineTypeCorrect`, `HandlesStayOwned`, for any devices, sockets and
  capacities: the table's invariants, strengthened by the fact that nothing changes
  the table once a reader runs, and by what `addAll` has counted. For that count
  `Listed` says that every device of the table has an entry in the list
  (`AddedEntries`), and that `addAll` has counted the entries it has passed
  (`VethEntries`), whose devices are all in the table. So the count is never more than
  the table, and no reader looks past it; `EveryDeviceCounted`, that the two are
  equal, needs that the program adds only what `addAll` takes (`Requested \subseteq
  Veth`), and that a name has one "packet" entry (`DeviceAssumption`).
- `PipelineProofs`, the queues: `QueuesAgree`, that a socket's queue has as many segments
  as `unSolvedSocket` has its descriptor, plus the one that main is queueing; and
  `PipelineImplementsFifo`, the refinement of `BoundedFifo`. The first is
  inductive with the type invariant; the second needs `StoredLast`, that the
  segment main has stored is still the last of its queue when its descriptor is
  pushed. The lemmas on `Announce` say what appending to a queue, appending a
  descriptor and taking the first of both do to the mapping.
  `DevicesStayInOrder`, by the invariant `Ordered`: of the five places of a frame
  (its reader, `q`, main, the queue `Announced`, `processed`) each holds the frames
  of a device in order, and earlier ones than every place before it. It uses the
  refinement: what main and processip do to the sockets' queues is a Put and a
  Take.
- `RoutingProofs`: `RoutingTypeCorrect`; `RoutesFormNoLoop`, that learned routes
  lead closer in every network. It needs `NoWrap` (the announcements followed
  are those whose ttl has not wrapped, although the code follows them further: the
  theorem is about the time before, and `v_wrap` shows that it fails after) and the strengthening
  `Honest`: an announcement on its way was sent by a host that is closer to the
  address than the announcement says, and remains so, because tables only
  improve.
- `RoutingProofs`, delivery: `RoutedPacketsArriveOnce`, that `ExactlyOnce` holds in
  every network that meets `Delivers`, for any number of packets, sent at any time
  and under way while tables change. `ExactlyOnce` counts the links a routed packet
  is on plus its deliveries, so that each step must be shown to move one element of
  the finite set `Places` (`Counted`). What could go wrong is that a packet turns
  in a circle until its ttl is 0, or that its ttl is too small for the way. `Rank`
  says how close a host is to the address: a packet's ttl with the `Rank` of the host
  it goes to always exceeds `ArpTtl` (`Carries`), and every hop costs one and gains
  one, since a learned route was announced by a host with at least one more
  (`HopOK`, `Reach`, and `Announces` for the announcements still under way); the ranks
  of a host never fall (`Steady`), so a table that changes does no harm.
  The hypotheses: a packet's ttl is at least an announcement's (the code's are 10
  and 8); announcements do not wrap (`NoWrap`); a static route leads to the host next to
  the owner (`StaticToGate`: any other may close a circle); the addressed hosts have one
  device each (`SingleHomed`: a host with two forwards what arrives by the one and is
  meant for the other, since `recvFrame` compares with the device of arrival only,
  `ip.cc:127`). Run `ring` meets all of them.

Only model-checked: all liveness (`EveryCallReturns`, `AllDelivered`,
`EverySegmentRead`, `EveryoneLearnsARoute`), since TLAPS does not reason about ENABLED.
Every other property of a passing run is stated by a theorem. The violations are
TLC's as well.

## Not modelled

- `databuf` overflow beyond 1 MiB, and data races on `std::map`.
- The buffers of the applications. `recver.cc:79-80` (and `daemon.cc:78-79`) reads
  2002 bytes into a heap buffer of 1001: `read` here returns a sequence.
- A connection in both directions. One `databuf` and one `sizep` of a socket serve
  both (`core.h:83`, `core.h:98-101`), so that a client that writes a request and
  reads as many bytes reads its own request; `Tcp` would show it, but all scripts send
  one way, as the programs do.
- The layout of frames and headers, byte order, checksums (always 0), pcap,
  getaddrinfo, printing; the scripts that build the network.
- `main.cc`, a demonstration of one thread that reads its first device only.
- What happens after `pcap_next` returns NULL; segments for a router that runs
  `daemon.cc`, which makes no sockets.

## Plan

Done: `Tcp` with `Connection` (the core), `BlockingQueue` with `BoundedFifo`,
`Routing`, `DeviceTable` and `RecvPipeline`; the first theorems of each. Next, in
this order:

1. More of `Tcp`: a second `accept()` on a full table, which takes the descriptor
   of the first (`socket.cc:86`) as `socket()` does in `v_full`, and sets that socket
   to LISTEN (`socket.cc:102`); two connections on one host, simultaneous close.
2. Routing: packets to another address of a host; several announcing hosts.
3. Proofs: that a route of ttl t is at most `ArpTtl - t + 1` links long;
   `TwoAlone` with other hosts that send packets of their own to each other.
