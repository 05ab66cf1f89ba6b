---------------------------- MODULE DeviceTable ----------------------------
(***************************************************************************)
(* The device table of src/include/core.h, currDevice, and the functions   *)
(* of src/src/device.cc that fill it before any other thread exists:       *)
(* addDevice, which device.h offers, and addAll, which every program calls *)
(* first.  Each entry that getifaddrs returns is one step.  Left out are   *)
(* the families that the code does not test, and calls of addDevice that   *)
(* change nothing: for a name without an entry, or for NULL.               *)
(*                                                                         *)
(* A device_t owns a pcap handle: the constructors open one, the copy      *)
(* constructor too, the destructor closes it.  A std::vector copies and    *)
(* destroys devices whenever it moves them.  A reader also opens a handle  *)
(* of its own (recver.cc:25), which belongs to no device_t and is no part  *)
(* of `open`.  IDs count from 1 here.                                      *)
(***************************************************************************)
EXTENDS Naturals, Sequences

CONSTANTS
  Name,         \* names of interfaces
  Veth,         \* those that begin with 'v'
  Requested,    \* those that the program adds itself before addAll
  Mac, Ip,      \* addresses
  NoIp,         \* the address 0 of a device without one
  Interfaces    \* lists that getifaddrs may return

Entry == [family : {"packet"}, name : Name, addr : Mac]
           \cup [family : {"inet"}, name : Name, addr : Ip]

\* Linux returns one "packet" entry per interface.  addDevice takes any name,
\* addAll only Veth.
ASSUME DeviceAssumption ==
  /\ Requested \subseteq Name /\ Veth \subseteq Name
  /\ NoIp \notin Ip
  /\ Interfaces \subseteq Seq(Entry)
  /\ \A s \in Interfaces : \A i, j \in DOMAIN s :
       s[i].family = "packet" /\ s[j].family = "packet" /\ s[i].name = s[j].name
         => i = j

Device == [Name : Name, ID : Nat \ {0}, Mac : Mac, IP : Ip \cup {NoIp},
           handle : Nat \ {0}]

VARIABLES
  currDevice,   \* the devices, in the order they were added
  open,         \* pcap handles of device_t objects that are open
  opened,       \* how many have ever been opened
  ifaddr,       \* the list of this process
  pass,         \* "api" before addAll, its loops "packet" and "inet", "done"
  at,           \* the entry that the loop has reached
  deviceNum     \* ret, what addAll returns

deviceVars == <<currDevice, open, opened, ifaddr, pass, at, deviceNum>>

DeviceInit ==
  /\ currDevice = <<>> /\ open = {} /\ opened = 0
  /\ ifaddr \in Interfaces
  /\ pass = "api" /\ at = 1 /\ deviceNum = 0

\* The devices of a name: at most one.
Called(name) == {i \in DOMAIN currDevice : currDevice[i].Name = name}

Construct(name, mac, id, h) ==
  [Name |-> name, ID |-> id, Mac |-> mac, IP |-> NoIp, handle |-> h]

CopyShared(d, h) == d     \* mutant: a copy uses the handle of its original

\* device_t's copy constructor opens handle h.
Copy(d, h) == [d EXCEPT !.handle = h]

(***************************************************************************)
(* push_back of a temporary d: the vector takes a copy of it, and when it  *)
(* has no room left it moves: it copies the devices it has and destroys    *)
(* them.  Then the temporary is destroyed.                                 *)
(***************************************************************************)
PushBack(name, mac) ==
  LET n == Len(currDevice)
      d == Construct(name, mac, n + 1, opened + 1)
      added == Copy(d, opened + 2)
  IN  \/ /\ currDevice' = Append(currDevice, added)
         /\ opened' = opened + 2
         /\ open' = (open \cup {opened + 2}) \ {d.handle}
      \/ LET moved == [i \in 1 .. n |-> Copy(currDevice[i], opened + 2 + i)]
         IN  /\ currDevice' = Append(moved, added)
             /\ opened' = opened + 2 + n
             /\ open' = (open \cup {opened + 1 + i : i \in 1 .. (n + 1)})
                          \ ({d.handle} \cup {currDevice[i].handle : i \in 1 .. n})

\* Mutant: a known device is added again.
AddDeviceKernelTwice(name, mac) == PushBack(name, mac)

AddDeviceKernel(name, mac) ==
  IF Called(name) = {} THEN PushBack(name, mac)
  ELSE UNCHANGED <<currDevice, open, opened>>

AddIP(name, ip) ==
  /\ currDevice' = [i \in DOMAIN currDevice |->
       IF currDevice[i].Name = name THEN [currDevice[i] EXCEPT !.IP = ip]
       ELSE currDevice[i]]
  /\ UNCHANGED <<open, opened>>

\* addDevice(name).
AddDevice(name) ==
  /\ pass = "api"
  /\ \E i \in DOMAIN ifaddr :
       /\ ifaddr[i].name = name /\ ifaddr[i].family = "packet"
       /\ AddDeviceKernel(name, ifaddr[i].addr)
  /\ UNCHANGED <<ifaddr, pass, at, deviceNum>>

\* addAll asks for the list again and starts its first loop.
AddAll ==
  /\ pass = "api"
  /\ pass' = "packet"
  /\ UNCHANGED <<currDevice, open, opened, ifaddr, at, deviceNum>>

\* An entry that a loop over family takes.
Takes(family) ==
  /\ pass = family /\ at <= Len(ifaddr)
  /\ ifaddr[at].family = family /\ ifaddr[at].name \in Veth

\* Mutant: only new devices are counted.
AddAllNewDevice ==
  /\ Takes("packet")
  /\ AddDeviceKernel(ifaddr[at].name, ifaddr[at].addr)
  /\ deviceNum' = IF Called(ifaddr[at].name) = {} THEN deviceNum + 1 ELSE deviceNum
  /\ at' = at + 1
  /\ UNCHANGED <<ifaddr, pass>>

\* The first loop adds devices, and counts those that were there already.
AddAllDevice ==
  /\ Takes("packet")
  /\ AddDeviceKernel(ifaddr[at].name, ifaddr[at].addr)
  /\ deviceNum' = deviceNum + 1
  /\ at' = at + 1
  /\ UNCHANGED <<ifaddr, pass>>

AddAllIP ==
  /\ Takes("inet")
  /\ AddIP(ifaddr[at].name, ifaddr[at].addr)
  /\ at' = at + 1
  /\ UNCHANGED <<ifaddr, pass, deviceNum>>

Skip ==
  /\ pass \in {"packet", "inet"} /\ at <= Len(ifaddr) /\ ~Takes(pass)
  /\ at' = at + 1
  /\ UNCHANGED <<currDevice, open, opened, ifaddr, pass, deviceNum>>

\* Without a list addAll returns 0 at once.
GetifaddrsFails ==
  /\ pass = "api"
  /\ pass' = "done"
  /\ UNCHANGED <<currDevice, open, opened, ifaddr, at, deviceNum>>

NextPass ==
  /\ pass \in {"packet", "inet"} /\ at > Len(ifaddr)
  /\ pass' = IF pass = "packet" THEN "inet" ELSE "done"
  /\ at' = 1
  /\ UNCHANGED <<currDevice, open, opened, ifaddr, deviceNum>>

DeviceNext ==
  \/ \E name \in Requested : AddDevice(name)
  \/ AddAll \/ GetifaddrsFails \/ AddAllDevice \/ AddAllIP \/ Skip \/ NextPass

DeviceSpec == DeviceInit /\ [][DeviceNext]_deviceVars
-----------------------------------------------------------------------------
(* Properties. *)

DeviceTypeOK ==
  /\ currDevice \in Seq(Device)
  /\ opened \in Nat /\ open \subseteq 1 .. opened
  /\ ifaddr \in Interfaces
  /\ pass \in {"api", "packet", "inet", "done"}
  /\ at \in Nat \ {0}
  /\ deviceNum \in Nat

\* The ID of a device, which frames, routes and readers carry, is its place
\* in the table, and a name stands for one device: addDeviceKernel adds a
\* device that addDevice has added, or that has two addresses, once.
IdsArePositions ==
  \A i \in DOMAIN currDevice :
    /\ currDevice[i].ID = i
    /\ Called(currDevice[i].Name) = {i}

\* The pcap handles open are those of the devices, each its own, however
\* often the vector has moved: none leaks and none is closed under its owner.
HandlesOwned ==
  /\ open = {currDevice[i].handle : i \in DOMAIN currDevice}
  /\ \A i, j \in DOMAIN currDevice :
       currDevice[i].handle = currDevice[j].handle => i = j

\* What addAll returns is the size of the table, on which main's loop over
\* the readers relies; 0 if there was no list.  It needs Requested \subseteq
\* Veth: addAll counts what it takes itself, so that a device of another name,
\* added before, makes the table longer than the count.
CountsTheTable ==
  pass = "done" => deviceNum \in {0, Len(currDevice)}
=============================================================================
