--------------------------- MODULE PipelineProofs ---------------------------
(***************************************************************************)
(* Proofs about DeviceTable for every list of interfaces and every way in  *)
(* which the vector moves: IDs are positions, every device owns the handle *)
(* it uses, and addAll returns the size of the table.  Then, about         *)
(* RecvPipeline, for any devices, sockets, traffic and capacities: types,  *)
(* a device of its own for every reader, and the queues between main and   *)
(* processip.                                                              *)
(***************************************************************************)
EXTENDS RecvPipeline, FiniteSetTheorems, SequenceTheorems, TLAPS

(***************************************************************************)
(* Adding a device.                                                        *)
(***************************************************************************)

\* The two outcomes of push_back: the devices there were keep all but their
\* handles, which are new if the vector moved.
LEMMA PushBackOutcome ==
  ASSUME DeviceTypeOK, HandlesOwned, NEW name \in Name, NEW mac \in Mac,
         PushBack(name, mac)
  PROVE  /\ currDevice' \in Seq(Device) /\ Len(currDevice') = Len(currDevice) + 1
         /\ opened' \in Nat /\ open' \subseteq 1 .. opened'
         /\ HandlesOwned'
         /\ \A i \in 1 .. Len(currDevice) :
              /\ currDevice'[i].Name = currDevice[i].Name
              /\ currDevice'[i].ID = currDevice[i].ID
         /\ currDevice'[Len(currDevice) + 1].Name = name
         /\ currDevice'[Len(currDevice) + 1].ID = Len(currDevice) + 1
<1> DEFINE n == Len(currDevice)
           d == Construct(name, mac, n + 1, opened + 1)
           added == Copy(d, opened + 2)
           moved == [i \in 1 .. n |-> Copy(currDevice[i], opened + 2 + i)]
<1>1. /\ n \in Nat /\ opened \in Nat /\ open \subseteq 1 .. opened
      /\ currDevice \in Seq(Device) /\ DOMAIN currDevice = 1 .. n
      /\ \A i \in 1 .. n : currDevice[i] \in Device
  BY DEF DeviceTypeOK
<1>2. /\ added \in Device /\ added.handle = opened + 2
      /\ added.Name = name /\ added.ID = n + 1 /\ d.handle = opened + 1
  BY <1>1 DEF Construct, Copy, Device
<1>3. \A i \in 1 .. n : currDevice[i].handle \in 1 .. opened
  BY <1>1 DEF HandlesOwned
<1>4. CASE /\ currDevice' = Append(currDevice, added)
           /\ opened' = opened + 2
           /\ open' = (open \cup {opened + 2}) \ {d.handle}
  <2>1. /\ currDevice' \in Seq(Device) /\ Len(currDevice') = n + 1
        /\ DOMAIN currDevice' = 1 .. (n + 1)
        /\ \A i \in 1 .. n : currDevice'[i] = currDevice[i]
        /\ currDevice'[n + 1] = added
    BY <1>1, <1>2, <1>4
  <2>2. open' = open \cup {opened + 2}
    BY <1>1, <1>2, <1>4
  <2>3. open' \subseteq 1 .. opened'
    <3>1. opened' = opened + 2 /\ opened \in Nat /\ open \subseteq 1 .. opened
      BY <1>1, <1>4
    <3> QED
      BY ONLY <2>2, <3>1
  <2>4. \A i \in 1 .. (n + 1) : i \in 1 .. n \/ i = n + 1
    BY <1>1
  <2>5. open' = {currDevice'[i].handle : i \in DOMAIN currDevice'}
    <3>1. open = {currDevice[i].handle : i \in 1 .. n}
      BY <1>1 DEF HandlesOwned
    <3>2. n + 1 \in 1 .. (n + 1) /\ \A i \in 1 .. n : i \in 1 .. (n + 1)
      BY <1>1
    <3> HIDE DEF n, added, d
    <3> QED
      BY <1>2, <2>1, <2>2, <2>4, <3>1, <3>2
  <2>6. \A i, j \in DOMAIN currDevice' :
          currDevice'[i].handle = currDevice'[j].handle => i = j
    <3>1. \A i, j \in 1 .. n : currDevice[i].handle = currDevice[j].handle => i = j
      BY <1>1 DEF HandlesOwned
    <3>2. \A i \in 1 .. n : currDevice'[i].handle # opened + 2
      BY <1>1, <1>3, <2>1
    <3> HIDE DEF n, added, d
    <3> QED
      BY <1>2, <2>1, <2>4, <3>1, <3>2
  <2>7. HandlesOwned'
    BY <2>5, <2>6 DEF HandlesOwned
  <2>8. opened' \in Nat
    BY <1>1, <1>4
  <2> HIDE DEF n, added, d
  <2>9. /\ \A i \in 1 .. n : /\ currDevice'[i].Name = currDevice[i].Name
                           /\ currDevice'[i].ID = currDevice[i].ID
        /\ currDevice'[n + 1].Name = name
        /\ currDevice'[n + 1].ID = n + 1
    BY <1>2, <2>1
  <2> QED
    BY <2>1, <2>3, <2>7, <2>8, <2>9 DEF n
<1>5. CASE /\ currDevice' = Append(moved, added)
           /\ opened' = opened + 2 + n
           /\ open' = (open \cup {opened + 1 + i : i \in 1 .. (n + 1)})
                        \ ({d.handle} \cup {currDevice[i].handle : i \in 1 .. n})
  <2>1. /\ moved \in Seq(Device) /\ Len(moved) = n
        /\ \A i \in 1 .. n : /\ moved[i].handle = opened + 2 + i
                             /\ moved[i].Name = currDevice[i].Name
                             /\ moved[i].ID = currDevice[i].ID
    <3>1. \A x \in Device, h \in Nat \ {0} : Copy(x, h) \in Device
      BY DEF Copy, Device
    <3>2. \A i \in 1 .. n : Copy(currDevice[i], opened + 2 + i) \in Device
      BY <1>1, <3>1
    <3>3. moved \in [1 .. n -> Device]
      BY <3>2
    <3>4. moved \in Seq(Device) /\ Len(moved) = n
      BY <1>1, <3>3
    <3>5. \A i \in 1 .. n : /\ moved[i].handle = opened + 2 + i
                            /\ moved[i].Name = currDevice[i].Name
                            /\ moved[i].ID = currDevice[i].ID
      BY <1>1, Zenon DEF Copy, Device
    <3> QED
      BY <3>4, <3>5
  <2>2. /\ currDevice' \in Seq(Device) /\ Len(currDevice') = n + 1
        /\ DOMAIN currDevice' = 1 .. (n + 1)
        /\ \A i \in 1 .. n : currDevice'[i] = moved[i]
        /\ currDevice'[n + 1] = added
    <3> HIDE DEF moved, added, d, n
    <3> QED
      BY <1>1, <1>2, <1>5, <2>1
  <2>3. open = {currDevice[i].handle : i \in 1 .. n}
    BY <1>1 DEF HandlesOwned
  <2>4. open' = {opened + 1 + i : i \in 1 .. (n + 1)}
                  \ ({opened + 1} \cup {currDevice[i].handle : i \in 1 .. n})
    BY <1>2, <1>5, <2>3
  <2>5. open' = {opened + 1 + i : i \in 1 .. (n + 1)}
    BY <1>1, <1>3, <2>4, SMTT(40)
  <2>6. open' \subseteq 1 .. opened'
    BY <1>1, <1>5, <2>5
  <2>7. \A i \in 1 .. n : currDevice'[i].handle = opened + 2 + i
    BY <2>1, <2>2
  <2>8. currDevice'[n + 1].handle = opened + 2
    BY <1>2, <2>2
  <2> HIDE DEF n, moved, added, d
  <2>9. open' = {currDevice'[i].handle : i \in 1 .. (n + 1)}
    <3>1. ASSUME NEW h \in open'
          PROVE  \E i \in 1 .. (n + 1) : h = currDevice'[i].handle
      <4>1. PICK k \in 1 .. (n + 1) : h = opened + 1 + k
        BY <2>5
      <4>2. CASE k = 1
        BY <1>1, <2>8, <4>1, <4>2
      <4>3. CASE k # 1
        <5>1. k - 1 \in 1 .. n /\ opened + 2 + (k - 1) = opened + 1 + k
          BY <1>1, <4>3
        <5>2. currDevice'[k - 1].handle = opened + 2 + (k - 1)
          BY ONLY <2>7, <5>1
        <5>3. k - 1 \in 1 .. (n + 1)
          BY <1>1, <5>1
        <5> QED
          BY ONLY <4>1, <5>1, <5>2, <5>3
      <4> QED
        BY <4>2, <4>3
    <3>2. ASSUME NEW i \in 1 .. (n + 1)
          PROVE  currDevice'[i].handle \in open'
      <4>1. CASE i = n + 1
        <5>1. opened + 2 = opened + 1 + 1 /\ 1 \in 1 .. (n + 1)
          BY <1>1
        <5> QED
          BY <2>5, <2>8, <4>1, <5>1
      <4>2. CASE i # n + 1
        <5>1. i \in 1 .. n /\ i + 1 \in 1 .. (n + 1)
              /\ opened + 2 + i = opened + 1 + (i + 1)
          BY <1>1, <4>2
        <5> QED
          BY <2>5, <2>7, <5>1
      <4> QED
        BY <4>1, <4>2
    <3> QED
      BY <3>1, <3>2
  <2>10. \A i, j \in 1 .. (n + 1) :
           currDevice'[i].handle = currDevice'[j].handle => i = j
    <3>1. ASSUME NEW i \in 1 .. (n + 1)
          PROVE  currDevice'[i].handle = IF i = n + 1 THEN opened + 2 ELSE opened + 2 + i
      <4>1. CASE i = n + 1
        BY <2>8, <4>1
      <4>2. CASE i # n + 1
        <5>1. i \in 1 .. n
          BY <1>1, <4>2
        <5> QED
          BY <2>7, <4>2, <5>1
      <4> QED
        BY <4>1, <4>2
    <3> QED
      BY <1>1, <3>1
  <2>11. HandlesOwned'
    BY <2>2, <2>9, <2>10 DEF HandlesOwned
  <2>12. opened' \in Nat
    BY <1>1, <1>5
  <2>13. /\ \A i \in 1 .. n : /\ currDevice'[i].Name = currDevice[i].Name
                            /\ currDevice'[i].ID = currDevice[i].ID
         /\ currDevice'[n + 1].Name = name
         /\ currDevice'[n + 1].ID = n + 1
    BY <1>2, <2>1, <2>2
  <2> QED
    BY <2>2, <2>6, <2>11, <2>12, <2>13 DEF n
<1> QED
  BY <1>4, <1>5, Zenon DEF PushBack

\* addIP changes nothing but addresses.
LEMMA AddIPOutcome ==
  ASSUME DeviceTypeOK, HandlesOwned, NEW name \in Name, NEW ip \in Ip,
         AddIP(name, ip)
  PROVE  /\ currDevice' \in Seq(Device) /\ Len(currDevice') = Len(currDevice)
         /\ opened' \in Nat /\ open' \subseteq 1 .. opened'
         /\ HandlesOwned'
         /\ \A i \in 1 .. Len(currDevice) :
              /\ currDevice'[i].Name = currDevice[i].Name
              /\ currDevice'[i].ID = currDevice[i].ID
<1> DEFINE n == Len(currDevice)
<1>1. /\ n \in Nat /\ DOMAIN currDevice = 1 .. n
      /\ \A i \in 1 .. n : currDevice[i] \in Device
  BY DEF DeviceTypeOK
<1>2. \A x \in Device : [x EXCEPT !.IP = ip] \in Device
  BY DEF Device
<1>3. currDevice' \in [1 .. n -> Device]
  BY <1>1, <1>2 DEF AddIP
<1>4. currDevice' \in Seq(Device) /\ Len(currDevice') = n /\ DOMAIN currDevice' = 1 .. n
  BY <1>1, <1>3
<1>5. \A i \in 1 .. n : /\ currDevice'[i].Name = currDevice[i].Name
                        /\ currDevice'[i].ID = currDevice[i].ID
                        /\ currDevice'[i].handle = currDevice[i].handle
  BY <1>1 DEF AddIP, Device
<1>6. HandlesOwned'
  <2>1. open' = open /\ opened' = opened
    BY DEF AddIP
  <2> HIDE DEF n
  <2> QED
    BY <1>1, <1>4, <1>5, <2>1 DEF HandlesOwned
<1> QED
  BY <1>4, <1>5, <1>6 DEF AddIP, DeviceTypeOK

(***************************************************************************)
(* The invariant: besides the properties, that the table holds only        *)
(* interfaces of the list, and what the first loop has counted so far.     *)
(***************************************************************************)

\* The entries that may have a device, and those that addAll takes.
AddedEntries ==
  {j \in DOMAIN ifaddr : /\ ifaddr[j].family = "packet"
                         /\ ifaddr[j].name \in Veth \cup Requested}
VethEntries == {j \in DOMAIN ifaddr : ifaddr[j].family = "packet" /\ ifaddr[j].name \in Veth}

\* The entries before place k have been added and counted.
AddedBefore(k) ==
  /\ deviceNum = Cardinality({j \in VethEntries : j < k})
  /\ \A j \in VethEntries : j < k => Called(ifaddr[j].name) # {}

Listed ==
  /\ \A i \in DOMAIN currDevice : \E j \in AddedEntries :
       ifaddr[j].name = currDevice[i].Name
  /\ at <= Len(ifaddr) + 1
  /\ pass = "api" => deviceNum = 0 /\ at = 1
  /\ pass = "packet" => AddedBefore(at)
  /\ pass = "inet" => AddedBefore(Len(ifaddr) + 1)
  /\ pass = "done" => deviceNum = 0 \/ AddedBefore(Len(ifaddr) + 1)

DeviceInv == DeviceTypeOK /\ IdsArePositions /\ HandlesOwned /\ Listed

LEMMA ListFacts ==
  ASSUME DeviceTypeOK
  PROVE  /\ Len(ifaddr) \in Nat /\ DOMAIN ifaddr = 1 .. Len(ifaddr)
         /\ \A j \in 1 .. Len(ifaddr) : ifaddr[j] \in Entry
         /\ \A j, k \in AddedEntries : ifaddr[j].name = ifaddr[k].name => j = k
         /\ VethEntries \subseteq AddedEntries
         /\ Requested \subseteq Veth => AddedEntries = VethEntries
<1>1. ifaddr \in Interfaces /\ ifaddr \in Seq(Entry)
  BY DeviceAssumption DEF DeviceAssumption, DeviceTypeOK
<1> QED
  BY <1>1, DeviceAssumption DEF DeviceAssumption, VethEntries, AddedEntries

LEMMA EntriesFinite ==
  ASSUME DeviceTypeOK, NEW T \in SUBSET VethEntries
  PROVE  IsFiniteSet(T) /\ Cardinality(T) \in Nat
<1>1. IsFiniteSet(1 .. Len(ifaddr))
  BY ListFacts, FS_Interval
<1>2. T \in SUBSET (1 .. Len(ifaddr))
  BY ListFacts DEF VethEntries
<1> QED
  BY <1>1, <1>2, FS_Subset, FS_CardinalityType, Zenon

\* When all entries that addAll takes are in the table, there are at least as
\* many devices, and no others if the program has added none of another name.
LEMMA TableCounted ==
  ASSUME DeviceInv, AddedBefore(Len(ifaddr) + 1)
  PROVE  /\ deviceNum <= Len(currDevice)
         /\ Requested \subseteq Veth => deviceNum = Len(currDevice)
<1> DEFINE n == Len(currDevice)
           device == [j \in VethEntries |->
                        CHOOSE i \in 1 .. n : currDevice[i].Name = ifaddr[j].name]
<1>1. n \in Nat /\ DOMAIN currDevice = 1 .. n
  BY DEF DeviceInv, DeviceTypeOK
<1>2. {j \in VethEntries : j < Len(ifaddr) + 1} = VethEntries
  BY ListFacts DEF DeviceInv, VethEntries
<1>3. \A j \in VethEntries : \E i \in 1 .. n : currDevice[i].Name = ifaddr[j].name
  BY <1>1, <1>2 DEF AddedBefore, Called
<1>4. \A j \in VethEntries : /\ device[j] \in 1 .. n
                             /\ currDevice[device[j]].Name = ifaddr[j].name
  BY <1>3
<1>5. device \in Injection(VethEntries, 1 .. n)
  <2>1. device \in [VethEntries -> 1 .. n]
    BY <1>4
  <2>2. ASSUME NEW j \in VethEntries, NEW k \in VethEntries, device[j] = device[k]
        PROVE  j = k
    <3>1. ifaddr[j].name = ifaddr[k].name
      BY <1>4, <2>2, Zenon
    <3> QED
      BY <3>1, ListFacts DEF DeviceInv
  <2> HIDE DEF device
  <2> QED
    BY <2>1, <2>2 DEF Injection, IsInjective
<1>6. IsFiniteSet(1 .. n) /\ Cardinality(1 .. n) = n
  <2> HIDE DEF n
  <2>0. 1 \in Int /\ n \in Int
    BY <1>1
  <2>1. IsFiniteSet(1 .. n) /\ Cardinality(1 .. n) = IF 1 > n THEN 0 ELSE n - 1 + 1
    BY <2>0, FS_Interval
  <2> QED
    BY <1>1, <2>1
<1>7. deviceNum = Cardinality(VethEntries)
  BY <1>2, Zenon DEF AddedBefore
<1>8. deviceNum <= n
  BY <1>5, <1>6, <1>7, FS_Injection DEF ExistsInjection
<1>9. ASSUME Requested \subseteq Veth PROVE device \in Surjection(VethEntries, 1 .. n)
  <2>1. ASSUME NEW i \in 1 .. n PROVE \E j \in VethEntries : device[j] = i
    <3>1. PICK j \in VethEntries : ifaddr[j].name = currDevice[i].Name
      BY <1>1, <1>9, <2>1, ListFacts DEF DeviceInv, Listed
    <3>2. device[j] \in Called(currDevice[i].Name) /\ Called(currDevice[i].Name) = {i}
      BY <1>1, <1>4, <3>1 DEF Called, DeviceInv, IdsArePositions
    <3> QED
      BY <3>2
  <2>2. device \in [VethEntries -> 1 .. n]
    BY <1>4
  <2> HIDE DEF device
  <2> QED
    BY <2>1, <2>2 DEF Surjection
<1>10. ASSUME Requested \subseteq Veth PROVE Cardinality(VethEntries) = n
  <2>1. device \in Bijection(VethEntries, 1 .. n)
    BY <1>5, <1>9, <1>10 DEF Bijection
  <2>2. IsFiniteSet(VethEntries)
    BY EntriesFinite DEF DeviceInv
  <2> QED
    BY <1>6, <2>1, <2>2, FS_Bijection DEF ExistsBijection
<1> QED
  BY <1>7, <1>8, <1>10, Zenon

\* What every step but an addition leaves as it was: names and IDs.
LEMMA SameNames ==
  ASSUME IdsArePositions, Len(currDevice') = Len(currDevice),
         currDevice \in Seq(Device), currDevice' \in Seq(Device),
         \A i \in 1 .. Len(currDevice) :
           /\ currDevice'[i].Name = currDevice[i].Name
           /\ currDevice'[i].ID = currDevice[i].ID
  PROVE  /\ IdsArePositions' /\ DOMAIN currDevice' = DOMAIN currDevice
         /\ \A name : Called(name)' = Called(name)
<1>1. /\ DOMAIN currDevice = 1 .. Len(currDevice)
      /\ DOMAIN currDevice' = 1 .. Len(currDevice)
  OBVIOUS
<1>2. \A name : Called(name)' = Called(name)
  BY <1>1 DEF Called
<1> QED
  BY <1>1, <1>2, Zenon DEF IdsArePositions

\* addDeviceKernel keeps the table in order and puts the name into it.
LEMMA Adding ==
  ASSUME DeviceInv, NEW k \in AddedEntries, ifaddr' = ifaddr,
         AddDeviceKernel(ifaddr[k].name, ifaddr[k].addr)
  PROVE  /\ currDevice' \in Seq(Device)
         /\ opened' \in Nat /\ open' \subseteq 1 .. opened'
         /\ IdsArePositions' /\ HandlesOwned'
         /\ \A i \in DOMAIN currDevice' : \E j \in AddedEntries :
              ifaddr[j].name = currDevice'[i].Name
         /\ \A name : Called(name) # {} => Called(name)' # {}
         /\ \A name : name = ifaddr[k].name => Called(name)' # {}
<1> DEFINE n == Len(currDevice)
           name == ifaddr[k].name
<1>1. /\ n \in Nat /\ DOMAIN currDevice = 1 .. n /\ currDevice \in Seq(Device)
      /\ opened \in Nat /\ open \subseteq 1 .. opened
  BY DEF DeviceInv, DeviceTypeOK
<1>2. name \in Name /\ ifaddr[k].addr \in Mac
  <2>1. ifaddr[k] \in Entry /\ ifaddr[k].family = "packet"
    BY ListFacts DEF DeviceInv, AddedEntries
  <2> QED
    BY <2>1 DEF Entry
<1>3. CASE Called(name) # {}
  <2>1. UNCHANGED <<currDevice, open, opened>>
    BY <1>3 DEF AddDeviceKernel
  <2>2. IdsArePositions' /\ \A x : Called(x)' = Called(x)
    BY <1>1, <2>1, SameNames DEF DeviceInv
  <2>3. HandlesOwned'
    BY <2>1 DEF DeviceInv, HandlesOwned
  <2> QED
    BY <1>1, <1>3, <2>1, <2>2, <2>3 DEF DeviceInv, Listed
<1>4. CASE Called(name) = {}
  <2>1. PushBack(name, ifaddr[k].addr)
    BY <1>4 DEF AddDeviceKernel
  <2>2. /\ currDevice' \in Seq(Device) /\ Len(currDevice') = n + 1
        /\ opened' \in Nat /\ open' \subseteq 1 .. opened'
        /\ HandlesOwned'
        /\ \A i \in 1 .. n : /\ currDevice'[i].Name = currDevice[i].Name
                             /\ currDevice'[i].ID = currDevice[i].ID
        /\ currDevice'[n + 1].Name = name
        /\ currDevice'[n + 1].ID = n + 1
    BY <1>2, <2>1, PushBackOutcome DEF DeviceInv
  <2>3. DOMAIN currDevice' = 1 .. (n + 1)
    BY <2>2
  <2> HIDE DEF n
  <2>4. /\ n + 1 \in 1 .. (n + 1) /\ n + 1 \notin 1 .. n
        /\ \A i \in 1 .. (n + 1) : i \in 1 .. n \/ i = n + 1
        /\ \A i \in 1 .. n : i \in 1 .. (n + 1)
    BY <1>1
  <2>5. \A i \in 1 .. n : currDevice[i].Name # name
    BY <1>1, <1>4 DEF Called
  <2>6. \A x : x = name => Called(x)' = {n + 1}
    BY <2>2, <2>3, <2>4, <2>5 DEF Called
  <2>7. \A x : x # name => Called(x)' = Called(x)
    BY <1>1, <2>2, <2>3, <2>4 DEF Called
  <2>8. IdsArePositions'
    <3> SUFFICES ASSUME NEW i \in DOMAIN currDevice', NEW x, x = currDevice'[i].Name
                 PROVE  currDevice'[i].ID = i /\ Called(x)' = {i}
      BY DEF IdsArePositions, Called
    <3>1. CASE i = n + 1
      BY <2>2, <2>6, <3>1
    <3>2. CASE i \in 1 .. n
      <4>1. currDevice[i].ID = i /\ Called(currDevice[i].Name) = {i}
        BY <1>1, <3>2, Zenon DEF DeviceInv, IdsArePositions
      <4> QED
        BY <2>2, <2>5, <2>7, <3>2, <4>1
    <3> QED
      BY <2>3, <2>4, <3>1, <3>2
  <2>9. \A i \in DOMAIN currDevice' : \E j \in AddedEntries :
          ifaddr[j].name = currDevice'[i].Name
    <3>1. \A i \in 1 .. n : \E j \in AddedEntries : ifaddr[j].name = currDevice[i].Name
      BY <1>1 DEF DeviceInv, Listed
    <3> QED
      BY <2>2, <2>3, <2>4, <3>1
  <2> QED
    BY <2>2, <2>6, <2>7, <2>8, <2>9, Zenon
<1> QED
  BY <1>3, <1>4

LEMMA DeviceInitInv == DeviceInit => DeviceInv
<1> SUFFICES ASSUME DeviceInit PROVE DeviceInv
  OBVIOUS
<1>1. DeviceTypeOK
  BY DEF DeviceInit, DeviceTypeOK
<1>2. IdsArePositions /\ HandlesOwned
  BY DEF DeviceInit, IdsArePositions, HandlesOwned
<1>3. Listed
  BY <1>1, ListFacts DEF DeviceInit, Listed
<1> QED
  BY <1>1, <1>2, <1>3 DEF DeviceInv

\* Steps that only move the loops on.
LEMMA TableKept ==
  ASSUME DeviceInv, UNCHANGED <<currDevice, open, opened, ifaddr>>
  PROVE  /\ currDevice' \in Seq(Device)
         /\ opened' \in Nat /\ open' \subseteq 1 .. opened'
         /\ IdsArePositions' /\ HandlesOwned'
         /\ \A name : Called(name)' = Called(name)
         /\ VethEntries' = VethEntries /\ AddedEntries' = AddedEntries
         /\ \A i \in DOMAIN currDevice' : \E j \in AddedEntries :
              ifaddr[j].name = currDevice'[i].Name
<1>1. IdsArePositions' /\ \A name : Called(name)' = Called(name)
  BY SameNames DEF DeviceInv, DeviceTypeOK
<1> QED
  BY <1>1 DEF DeviceInv, DeviceTypeOK, HandlesOwned, VethEntries, AddedEntries, Listed

LEMMA DeviceStep ==
  ASSUME DeviceInv, [DeviceNext]_deviceVars
  PROVE  DeviceInv'
<1> DEFINE before(k) == {j \in VethEntries : j < k}
<1>0. /\ currDevice \in Seq(Device) /\ ifaddr \in Interfaces
      /\ Len(ifaddr) \in Nat /\ DOMAIN ifaddr = 1 .. Len(ifaddr)
      /\ at \in Nat \ {0} /\ deviceNum \in Nat
  BY ListFacts DEF DeviceInv, DeviceTypeOK
<1>1. ASSUME NEW name \in Requested, AddDevice(name)
      PROVE  DeviceInv'
  <2>1. PICK k \in DOMAIN ifaddr :
          /\ ifaddr[k].name = name /\ ifaddr[k].family = "packet"
          /\ AddDeviceKernel(name, ifaddr[k].addr)
    BY <1>1 DEF AddDevice
  <2>2. k \in AddedEntries
    BY <2>1 DEF AddedEntries
  <2>3. UNCHANGED <<ifaddr, pass, at, deviceNum>> /\ pass = "api"
    BY <1>1 DEF AddDevice
  <2>4. AddedEntries' = AddedEntries
    BY <2>3 DEF AddedEntries
  <2>5. Listed'
    BY <2>1, <2>2, <2>3, <2>4, Adding DEF Listed, DeviceInv
  <2> QED
    BY <1>0, <2>1, <2>2, <2>3, <2>5, Adding DEF DeviceInv, DeviceTypeOK
<1>2. ASSUME AddAll PROVE DeviceInv'
  <2>1. UNCHANGED <<currDevice, open, opened, ifaddr, at, deviceNum>> /\ pass' = "packet"
        /\ pass = "api"
    BY <1>2 DEF AddAll
  <2>2. before(1) = {}
    BY <1>0 DEF VethEntries
  <2>3. AddedBefore(at)'
    BY <2>1, <2>2, TableKept, FS_EmptySet, Zenon DEF AddedBefore, DeviceInv, Listed
  <2>4. Listed'
    BY <2>1, <2>3, TableKept DEF Listed, DeviceInv
  <2> QED
    BY <1>0, <2>1, <2>4, TableKept DEF DeviceInv, DeviceTypeOK
<1>3. ASSUME GetifaddrsFails PROVE DeviceInv'
  <2>1. UNCHANGED <<currDevice, open, opened, ifaddr, at, deviceNum>> /\ pass' = "done"
        /\ pass = "api"
    BY <1>3 DEF GetifaddrsFails
  <2>2. Listed'
    BY <2>1, TableKept DEF Listed, DeviceInv
  <2> QED
    BY <1>0, <2>1, <2>2, TableKept DEF DeviceInv, DeviceTypeOK
<1>4. ASSUME AddAllDevice PROVE DeviceInv'
  <2>1. /\ pass = "packet" /\ at <= Len(ifaddr)
        /\ ifaddr[at].family = "packet" /\ ifaddr[at].name \in Veth
        /\ AddDeviceKernel(ifaddr[at].name, ifaddr[at].addr)
        /\ deviceNum' = deviceNum + 1 /\ at' = at + 1
        /\ UNCHANGED <<ifaddr, pass>>
    BY <1>4 DEF AddAllDevice, Takes
  <2>2. at \in VethEntries /\ at \in AddedEntries
    BY <1>0, <2>1 DEF VethEntries, AddedEntries
  <2>3. VethEntries' = VethEntries /\ AddedEntries' = AddedEntries
    BY <2>1 DEF VethEntries, AddedEntries
  <2>4. before(at + 1) = before(at) \cup {at} /\ at \notin before(at)
    BY <1>0, <2>2 DEF VethEntries
  <2>5. IsFiniteSet(before(at))
    BY EntriesFinite DEF DeviceInv
  <2>6. deviceNum = Cardinality(before(at))
        /\ \A j \in before(at) : Called(ifaddr[j].name) # {}
    BY <2>1 DEF DeviceInv, Listed, AddedBefore
  <2>7. deviceNum + 1 = Cardinality(before(at + 1))
    BY <2>4, <2>5, <2>6, FS_AddElement
  <2>8. \A j \in before(at + 1) : \A x : x = ifaddr[j].name => Called(x)' # {}
    <3>1. /\ \A name : Called(name) # {} => Called(name)' # {}
          /\ \A x : x = ifaddr[at].name => Called(x)' # {}
      BY <2>1, <2>2, Adding
    <3> QED
      BY <2>4, <2>6, <3>1
  <2>9. AddedBefore(at)'
    <3>1. \A j \in VethEntries : \A x :
            j < at + 1 /\ x = ifaddr[j].name => Called(x)' # {}
      BY <2>8
    <3> QED
      BY <2>1, <2>3, <2>7, <3>1 DEF AddedBefore, Called
  <2>10. Listed'
    <3>1. \A i \in DOMAIN currDevice' : \E j \in AddedEntries :
            ifaddr[j].name = currDevice'[i].Name
      BY <2>1, <2>2, Adding
    <3> QED
      BY <1>0, <2>1, <2>3, <2>9, <3>1 DEF Listed
  <2> QED
    BY <1>0, <2>1, <2>2, <2>10, Adding DEF DeviceInv, DeviceTypeOK
<1>5. ASSUME AddAllIP PROVE DeviceInv'
  <2>1. /\ pass = "inet" /\ at <= Len(ifaddr)
        /\ ifaddr[at].family = "inet"
        /\ AddIP(ifaddr[at].name, ifaddr[at].addr)
        /\ at' = at + 1 /\ UNCHANGED <<ifaddr, pass, deviceNum>>
    BY <1>5 DEF AddAllIP, Takes
  <2>2. ifaddr[at].name \in Name /\ ifaddr[at].addr \in Ip
    <3>1. ifaddr[at] \in Entry
      BY <1>0, <2>1, ListFacts DEF DeviceInv
    <3> QED
      BY <2>1, <3>1 DEF Entry
  <2>3. /\ currDevice' \in Seq(Device) /\ Len(currDevice') = Len(currDevice)
        /\ opened' \in Nat /\ open' \subseteq 1 .. opened'
        /\ HandlesOwned'
        /\ \A i \in 1 .. Len(currDevice) :
             /\ currDevice'[i].Name = currDevice[i].Name
             /\ currDevice'[i].ID = currDevice[i].ID
    BY <2>1, <2>2, AddIPOutcome DEF DeviceInv
  <2>4. /\ IdsArePositions' /\ DOMAIN currDevice' = DOMAIN currDevice
        /\ \A name : Called(name)' = Called(name)
    BY <1>0, <2>3, SameNames DEF DeviceInv
  <2>5. VethEntries' = VethEntries /\ AddedEntries' = AddedEntries
    BY <2>1 DEF VethEntries, AddedEntries
  <2>6. AddedBefore(Len(ifaddr) + 1)'
    BY <2>1, <2>4, <2>5 DEF AddedBefore, DeviceInv, Listed
  <2>7. \A i \in DOMAIN currDevice' : currDevice'[i].Name = currDevice[i].Name
    BY <1>0, <2>3, <2>4
  <2>8. Listed'
    BY <1>0, <2>1, <2>4, <2>5, <2>6, <2>7 DEF Listed, DeviceInv
  <2> QED
    BY <1>0, <2>1, <2>3, <2>4, <2>8 DEF DeviceInv, DeviceTypeOK
<1>6. ASSUME Skip PROVE DeviceInv'
  <2>1. /\ pass \in {"packet", "inet"} /\ at <= Len(ifaddr) /\ ~Takes(pass)
        /\ at' = at + 1
        /\ UNCHANGED <<currDevice, open, opened, ifaddr, pass, deviceNum>>
    BY <1>6 DEF Skip
  <2>2. ASSUME pass = "packet" PROVE AddedBefore(at)'
    <3>1. at \notin VethEntries
      BY <2>1, <2>2 DEF Takes, VethEntries
    <3>2. before(at + 1) = before(at)
      BY <1>0, <3>1 DEF VethEntries
    <3>3. AddedBefore(at)
      BY <2>2 DEF DeviceInv, Listed
    <3>4. \A j \in VethEntries : j < at + 1 => Called(ifaddr[j].name) # {}
      BY <3>2, <3>3 DEF AddedBefore
    <3> QED
      BY <2>1, <3>2, <3>3, <3>4, TableKept, Zenon DEF AddedBefore
  <2>3. ASSUME pass = "inet" PROVE AddedBefore(Len(ifaddr) + 1)'
    BY <2>1, <2>3, TableKept, Zenon DEF AddedBefore, DeviceInv, Listed
  <2>4. Listed'
    BY <1>0, <2>1, <2>2, <2>3, TableKept DEF Listed, DeviceInv
  <2> QED
    BY <1>0, <2>1, <2>4, TableKept DEF DeviceInv, DeviceTypeOK
<1>7. ASSUME NextPass PROVE DeviceInv'
  <2>1. /\ pass \in {"packet", "inet"} /\ at > Len(ifaddr)
        /\ pass' = IF pass = "packet" THEN "inet" ELSE "done"
        /\ at' = 1
        /\ UNCHANGED <<currDevice, open, opened, ifaddr, deviceNum>>
    BY <1>7 DEF NextPass
  <2>2. pass = "packet" => at = Len(ifaddr) + 1
    BY <1>0, <2>1 DEF DeviceInv, Listed
  <2>3. AddedBefore(Len(ifaddr) + 1)
    BY <2>1, <2>2 DEF DeviceInv, Listed
  <2>4. AddedBefore(Len(ifaddr) + 1)'
    BY <2>1, <2>3, TableKept DEF AddedBefore
  <2>5. Listed'
    BY <1>0, <2>1, <2>4, TableKept DEF Listed, DeviceInv
  <2> QED
    BY <1>0, <2>1, <2>5, TableKept DEF DeviceInv, DeviceTypeOK
<1>8. ASSUME UNCHANGED deviceVars PROVE DeviceInv'
  <2>1. UNCHANGED <<currDevice, open, opened, ifaddr, pass, at, deviceNum>>
    BY <1>8 DEF deviceVars
  <2>2. ASSUME NEW k, AddedBefore(k) PROVE AddedBefore(k)'
    BY <2>1, <2>2, TableKept DEF AddedBefore
  <2>3. Listed'
    BY <1>0, <2>1, TableKept, Zenon DEF Listed, DeviceInv, AddedBefore
  <2> QED
    BY <1>0, <2>1, <2>3, TableKept DEF DeviceInv, DeviceTypeOK
<1> QED
  BY <1>1, <1>2, <1>3, <1>4, <1>5, <1>6, <1>7, <1>8 DEF DeviceNext

LEMMA Counted ==
  ASSUME DeviceInv, pass = "done"
  PROVE  /\ deviceNum <= Len(currDevice)
         /\ Requested \subseteq Veth => CountsTheTable
<1>1. deviceNum = 0 \/ AddedBefore(Len(ifaddr) + 1)
  BY DEF DeviceInv, Listed
<1>2. Len(currDevice) \in Nat
  BY DEF DeviceInv, DeviceTypeOK
<1> QED
  BY <1>1, <1>2, TableCounted DEF CountsTheTable

\* Whatever list getifaddrs returns, whatever names addDevice is called with and
\* whenever the vector moves: the ID of a device is its position and its name is
\* its own, and each device owns the handle it uses and none is left open.
THEOREM DeviceTableCorrect ==
  DeviceSpec => [](IdsArePositions /\ HandlesOwned)
<1>1. DeviceInv => IdsArePositions /\ HandlesOwned
  BY DEF DeviceInv
<1> QED
  BY <1>1, DeviceInitInv, DeviceStep, PTL DEF DeviceSpec

-----------------------------------------------------------------------------
(***************************************************************************)
(* Types.                                                                  *)
(***************************************************************************)

LEMMA NoFrameIsNone == NoFrame \notin Frame
  BY PipelineAssumption DEF NoFrame, Frame, PipelineAssumption

\* The table is filled before the first reader starts.
LEMMA SetUpEnds == DeviceNext => pass # "done"
  BY DEF DeviceNext, AddDevice, AddAll, GetifaddrsFails, AddAllDevice, AddAllIP,
         Takes, Skip, NextPass

TypeInv == DeviceInv /\ PipelineTypeOK

\* What the type invariant says about everything but the device table.
ReadTypes ==
  /\ working \in BOOLEAN
  /\ arrived \in 0 .. MaxFrames
  /\ held \subseteq Frame /\ \A f, g \in held : f.via = g.via => f = g
  /\ \A f \in held : f.via <= spawned

QueueTypes ==
  /\ frames \in Seq(Frame) /\ Len(frames) <= FrameCapacity
  /\ \A i \in DOMAIN frames : frames[i].via <= spawned
  /\ current \in Frame \cup {NoFrame}
  /\ stored \in BOOLEAN /\ (stored => current # NoFrame)
  /\ socketQueue \in [Fd -> Seq(Frame)]
  /\ \A f \in Fd : Len(socketQueue[f]) <= SocketCapacity[f]
  /\ unsolved \in Seq(Fd) /\ Len(unsolved) <= UnsolvedCapacity
  /\ serving \in Fd \cup {NoFd}
  /\ processed \in Seq(Frame)

SpawnTypes ==
  /\ spawned \in 0 .. deviceNum /\ spawned <= Len(currDevice)
  /\ spawned # 0 => pass = "done"

LEMMA TypeParts ==
  PipelineTypeOK <=> DeviceTypeOK /\ SpawnTypes /\ ReadTypes /\ QueueTypes
  BY DEF PipelineTypeOK, SpawnTypes, ReadTypes, QueueTypes

LEMMA InitTyped == Init => TypeInv
<1> SUFFICES ASSUME Init PROVE TypeInv
  OBVIOUS
<1>1. DeviceInv
  BY DeviceInitInv DEF Init
<1>2. spawned \in 0 .. deviceNum /\ spawned <= Len(currDevice) /\ spawned = 0
  BY DEF Init, DeviceInit
<1>3. /\ arrived \in 0 .. MaxFrames
      /\ Len(<<>>) <= FrameCapacity /\ Len(<<>>) <= UnsolvedCapacity
      /\ \A f \in Fd : Len(<<>>) <= SocketCapacity[f]
  BY PipelineAssumption DEF Init, PipelineAssumption
<1>4. PipelineTypeOK
  <2>1. \A f \in Fd : socketQueue[f] = <<>>
    BY DEF Init
  <2>2. socketQueue \in [Fd -> Seq(Frame)]
    BY DEF Init
  <2>3. \A i \in DOMAIN frames : FALSE
    BY DEF Init
  <2>4. SpawnTypes /\ ReadTypes
    BY <1>2, <1>3, Zenon DEF Init, SpawnTypes, ReadTypes
  <2>5. QueueTypes
    <3>1. /\ Len(frames) <= FrameCapacity /\ Len(unsolved) <= UnsolvedCapacity
          /\ \A f \in Fd : Len(socketQueue[f]) <= SocketCapacity[f]
      BY <1>3, <2>1 DEF Init
    <3>2. frames \in Seq(Frame) /\ unsolved \in Seq(Fd) /\ processed \in Seq(Frame)
      BY DEF Init
    <3>3. /\ current \in Frame \cup {NoFrame} /\ stored = FALSE
          /\ serving \in Fd \cup {NoFd}
      BY DEF Init
    <3> QED
      BY <2>2, <2>3, <3>1, <3>2, <3>3, Zenon DEF QueueTypes
  <2> QED
    BY <1>1, <2>4, <2>5, TypeParts DEF DeviceInv
<1> QED
  BY <1>1, <1>4 DEF TypeInv

LEMMA SetUpTyped ==
  ASSUME TypeInv, SetUp PROVE TypeInv'
<1>1. DeviceInv'
  BY DeviceStep DEF SetUp, TypeInv
<1>2. spawned = 0 /\ UNCHANGED <<readVars, queueVars>>
  BY SetUpEnds DEF SetUp, TypeInv, PipelineTypeOK
<1>3. SpawnTypes'
  BY <1>1, <1>2 DEF SpawnTypes, readVars, DeviceInv, DeviceTypeOK
<1>4. ReadTypes' /\ QueueTypes'
  BY <1>2, TypeParts DEF TypeInv, ReadTypes, QueueTypes, readVars, queueVars
<1> QED
  BY <1>1, <1>3, <1>4, TypeParts, Zenon DEF TypeInv, DeviceInv, PipelineTypeOK, SpawnTypes,
     ReadTypes, QueueTypes

\* Steps of the threads leave the table alone.
LEMMA TableAlone ==
  ASSUME TypeInv, UNCHANGED deviceVars
  PROVE  DeviceInv' /\ DeviceTypeOK'
<1>1. DeviceInv'
  BY DeviceStep DEF TypeInv
<1> QED
  BY <1>1 DEF DeviceInv

LEMMA SpawnTyped ==
  ASSUME TypeInv, Spawn \/ Work PROVE TypeInv'
<1>1. UNCHANGED <<deviceVars, arrived, held, queueVars>>
  BY DEF Spawn, Work
<1>2. SpawnTypes /\ ReadTypes /\ QueueTypes
  BY TypeParts DEF TypeInv
<1>3. /\ deviceNum \in Nat /\ Len(currDevice) \in Nat
      /\ deviceNum' = deviceNum /\ currDevice' = currDevice /\ pass' = pass
  BY <1>1 DEF TypeInv, DeviceInv, DeviceTypeOK, deviceVars
<1>4. SpawnTypes' /\ spawned <= spawned'
  <2>1. CASE Spawn
    <3>1. pass = "done" /\ spawned < deviceNum /\ spawned' = spawned + 1
      BY <2>1 DEF Spawn
    <3>2. deviceNum <= Len(currDevice)
      BY <3>1, Counted DEF TypeInv
    <3> QED
      BY <1>2, <1>3, <3>1, <3>2 DEF SpawnTypes
  <2>2. CASE Work
    BY <1>2, <1>3, <2>2 DEF Work, SpawnTypes
  <2> QED
    BY <2>1, <2>2
<1>5. /\ held' = held /\ arrived' = arrived /\ frames' = frames
      /\ working' \in BOOLEAN /\ spawned' \in Nat /\ spawned \in Nat
  <2>1. held' = held /\ arrived' = arrived /\ frames' = frames
    BY <1>1 DEF queueVars
  <2>2. working' \in BOOLEAN
    BY <1>2, Zenon DEF Spawn, Work, ReadTypes
  <2>3. spawned' \in Nat /\ spawned \in Nat
    BY <1>2, <1>3, <1>4 DEF SpawnTypes
  <2> QED
    BY <2>1, <2>2, <2>3
<1>6. ReadTypes'
  <2>1. \A f \in held : f.via \in Nat
    BY <1>2, PipelineAssumption DEF ReadTypes, Frame, PipelineAssumption
  <2>2. \A f \in held : f.via <= spawned'
    BY <1>2, <1>4, <1>5, <2>1 DEF ReadTypes
  <2> QED
    BY <1>2, <1>5, <2>2 DEF ReadTypes
<1>7. QueueTypes'
  <2>1. \A i \in DOMAIN frames : frames[i].via \in Nat
    <3>1. \A i \in DOMAIN frames : frames[i] \in Frame
      BY <1>2 DEF QueueTypes
    <3> QED
      BY <3>1, PipelineAssumption DEF Frame, PipelineAssumption
  <2>2. \A i \in DOMAIN frames : frames[i].via <= spawned'
    BY <1>2, <1>4, <1>5, <2>1 DEF QueueTypes
  <2> QED
    BY <1>1, <1>2, <2>2 DEF QueueTypes, queueVars
<1>8. DeviceInv' /\ DeviceTypeOK'
  BY <1>1, TableAlone
<1>9. PipelineTypeOK'
  BY <1>4, <1>6, <1>7, <1>8 DEF PipelineTypeOK, SpawnTypes, ReadTypes, QueueTypes
<1> QED
  BY <1>8, <1>9 DEF TypeInv

LEMMA ReadTyped ==
  ASSUME TypeInv, NEW i \in 1 .. spawned, Reader(i)
  PROVE  TypeInv'
<1>0. /\ SpawnTypes /\ ReadTypes /\ QueueTypes
      /\ deviceNum \in Nat /\ MaxFrames \in Nat /\ MaxReaders \in Nat
      /\ FrameCapacity \in Nat
  BY TypeParts, PipelineAssumption
  DEF TypeInv, DeviceInv, DeviceTypeOK, PipelineAssumption
<1>1. UNCHANGED <<deviceVars, spawned, working>>
  BY DEF Reader, PcapNext, PushFrame
<1>2. SpawnTypes' /\ DeviceInv' /\ DeviceTypeOK'
  BY <1>0, <1>1, TableAlone DEF SpawnTypes, deviceVars
<1>3. i \in Nat /\ spawned \in Nat /\ i <= spawned
  BY <1>0 DEF SpawnTypes
<1>4. ReadTypes' /\ QueueTypes'
  <2>1. CASE PcapNext(i)
    <3>1. PICK t \in Traffic :
            held' = held \cup {[src |-> t.src, dst |-> t.dst, sock |-> t.sock,
                                via |-> i, nr |-> arrived + 1]}
      BY <2>1 DEF PcapNext
    <3>2. /\ i <= MaxReaders /\ arrived < MaxFrames /\ arrived' = arrived + 1
          /\ \A f \in held : f.via # i
          /\ UNCHANGED queueVars
      BY <2>1 DEF PcapNext
    <3> DEFINE f == [src |-> t.src, dst |-> t.dst, sock |-> t.sock,
                     via |-> i, nr |-> arrived + 1]
    <3>3. arrived + 1 \in 1 .. MaxFrames
      BY <1>0, <3>2 DEF ReadTypes
    <3>4. t \in [src : Mac, dst : Ip, sock : Fd]
      BY PipelineAssumption DEF PipelineAssumption
    <3>5. f \in Frame /\ f.via = i
      BY <1>0, <1>3, <3>2, <3>3, <3>4 DEF Frame
    <3>6. held' = held \cup {f}
      BY <3>1
    <3> HIDE DEF f
    <3>7. ReadTypes'
      BY <1>0, <1>1, <1>3, <3>2, <3>3, <3>5, <3>6 DEF ReadTypes
    <3>8. QueueTypes'
      BY <1>0, <1>1, <3>2 DEF QueueTypes, queueVars
    <3> QED
      BY <3>7, <3>8
  <2>2. CASE PushFrame(i)
    <3>1. PICK f \in held :
            /\ f.via = i /\ Len(frames) < FrameCapacity
            /\ held' = held \ {f} /\ frames' = Append(frames, f)
            /\ UNCHANGED <<arrived, current, stored, socketQueue, unsolved,
                           serving, processed>>
      BY <2>2 DEF PushFrame
    <3>2. ReadTypes'
      BY <1>0, <1>1, <3>1 DEF ReadTypes
    <3>3. /\ frames' \in Seq(Frame) /\ Len(frames') <= FrameCapacity
          /\ \A k \in DOMAIN frames' : frames'[k].via <= spawned
      BY <1>0, <1>3, <3>1 DEF ReadTypes, QueueTypes
    <3>4. QueueTypes'
      BY <1>0, <1>1, <3>1, <3>3 DEF QueueTypes
    <3> QED
      BY <3>2, <3>4
  <2> QED
    BY <2>1, <2>2 DEF Reader
<1>5. PipelineTypeOK'
  BY <1>2, <1>4 DEF PipelineTypeOK, SpawnTypes, ReadTypes, QueueTypes
<1> QED
  BY <1>2, <1>5 DEF TypeInv

\* main and processip touch the queues only.
LEMMA ServeTyped ==
  ASSUME TypeInv, Main \/ ProcessIPPacket
  PROVE  TypeInv'
<1>0. SpawnTypes /\ ReadTypes /\ QueueTypes /\ NoFd \notin Fd
      /\ FrameCapacity \in Nat /\ UnsolvedCapacity \in Nat
      /\ SocketCapacity \in [Fd -> Nat \ {0}]
  BY TypeParts, PipelineAssumption DEF TypeInv, PipelineAssumption
<1>1. UNCHANGED <<deviceVars, readVars>>
  BY DEF Main, PopFrame, PushPacket, PushTicket, ProcessIPPacket, PopTicket,
         ReadIPPacket
<1>2. SpawnTypes' /\ ReadTypes' /\ DeviceInv' /\ DeviceTypeOK'
  BY <1>0, <1>1, TableAlone DEF SpawnTypes, ReadTypes, deviceVars, readVars
<1>3. spawned' = spawned
  BY <1>1 DEF readVars
<1>4. QueueTypes'
  <2>1. CASE PopFrame
    <3>1. /\ frames # <<>> /\ frames' = Tail(frames)
          /\ current' \in {Head(frames), NoFrame} /\ current = NoFrame
          /\ UNCHANGED <<stored, socketQueue, unsolved, serving, processed>>
      BY <2>1 DEF PopFrame
    <3>2. /\ Head(frames) \in Frame /\ frames' \in Seq(Frame)
          /\ Len(frames') = Len(frames) - 1 /\ Len(frames) \in Nat
          /\ \A k \in 1 .. Len(frames') : frames'[k] = frames[k + 1]
      BY <1>0, <3>1, HeadTailProperties DEF QueueTypes
    <3>3. /\ Len(frames') <= FrameCapacity
          /\ \A k \in DOMAIN frames' : frames'[k].via <= spawned
      <4>1. Len(frames') <= FrameCapacity
        BY <1>0, <3>2 DEF QueueTypes
      <4>2. DOMAIN frames' = 1 .. Len(frames') /\ DOMAIN frames = 1 .. Len(frames)
        BY <1>0, <3>2 DEF QueueTypes
      <4>3. \A k \in 1 .. Len(frames') : k + 1 \in 1 .. Len(frames)
        BY <3>2
      <4> QED
        BY <1>0, <3>2, <4>1, <4>2, <4>3, Zenon DEF QueueTypes
    <3>4. stored = FALSE
      BY <1>0, <3>1 DEF QueueTypes
    <3> QED
      BY <1>0, <1>3, <3>1, <3>2, <3>3, <3>4 DEF QueueTypes
  <2>2. CASE PushPacket
    <3>1. /\ current \in Frame /\ stored' = TRUE
          /\ Len(socketQueue[current.sock]) < SocketCapacity[current.sock]
          /\ socketQueue' = [socketQueue EXCEPT ![current.sock] = Append(@, current)]
          /\ UNCHANGED <<frames, current, unsolved, serving, processed>>
      BY <1>0, <2>2 DEF PushPacket, QueueTypes
    <3>2. current.sock \in Fd
      BY <3>1 DEF Frame
    <3>3. /\ Append(socketQueue[current.sock], current) \in Seq(Frame)
          /\ Len(Append(socketQueue[current.sock], current))
               = Len(socketQueue[current.sock]) + 1
          /\ Len(socketQueue[current.sock]) \in Nat
      BY <1>0, <3>1, <3>2 DEF QueueTypes
    <3>4. /\ socketQueue' \in [Fd -> Seq(Frame)]
          /\ \A f \in Fd : Len(socketQueue'[f]) <= SocketCapacity[f]
      BY <1>0, <3>1, <3>2, <3>3, SMTT(40) DEF QueueTypes
    <3> QED
      BY <1>0, <1>3, <3>1, <3>4, NoFrameIsNone, Zenon DEF QueueTypes
  <2>3. CASE PushTicket
    <3>1. /\ current \in Frame /\ current' = NoFrame /\ stored' = FALSE
          /\ Len(unsolved) < UnsolvedCapacity
          /\ unsolved' = Append(unsolved, current.sock)
          /\ UNCHANGED <<frames, socketQueue, serving, processed>>
      BY <1>0, <2>3 DEF PushTicket, QueueTypes
    <3>2. unsolved' \in Seq(Fd) /\ Len(unsolved') <= UnsolvedCapacity
      BY <1>0, <3>1 DEF Frame, QueueTypes
    <3> QED
      BY <1>0, <1>3, <3>1, <3>2, Zenon DEF QueueTypes
  <2>4. CASE PopTicket
    <3>1. /\ unsolved # <<>> /\ serving' = Head(unsolved) /\ unsolved' = Tail(unsolved)
          /\ UNCHANGED <<frames, current, stored, socketQueue, processed>>
      BY <2>4 DEF PopTicket
    <3>2. serving' \in Fd /\ unsolved' \in Seq(Fd) /\ Len(unsolved') <= UnsolvedCapacity
      BY <1>0, <3>1 DEF QueueTypes
    <3> QED
      BY <1>0, <1>3, <3>1, <3>2, Zenon DEF QueueTypes
  <2>5. CASE ReadIPPacket
    <3>1. /\ serving \in Fd /\ serving' = NoFd /\ socketQueue[serving] # <<>>
          /\ processed' = Append(processed, Head(socketQueue[serving]))
          /\ socketQueue' = [socketQueue EXCEPT ![serving] = Tail(@)]
          /\ UNCHANGED <<frames, current, stored, unsolved>>
      BY <1>0, <2>5 DEF ReadIPPacket, QueueTypes
    <3>2. /\ Head(socketQueue[serving]) \in Frame
          /\ Tail(socketQueue[serving]) \in Seq(Frame)
          /\ Len(Tail(socketQueue[serving])) = Len(socketQueue[serving]) - 1
          /\ Len(socketQueue[serving]) \in Nat
      BY <1>0, <3>1, HeadTailProperties DEF QueueTypes
    <3>3. /\ socketQueue' \in [Fd -> Seq(Frame)]
          /\ \A f \in Fd : Len(socketQueue'[f]) <= SocketCapacity[f]
      BY <1>0, <3>1, <3>2 DEF QueueTypes
    <3> QED
      BY <1>0, <1>3, <3>1, <3>2, <3>3 DEF QueueTypes
  <2> QED
    BY <2>1, <2>2, <2>3, <2>4, <2>5 DEF Main, ProcessIPPacket
<1>5. PipelineTypeOK'
  BY <1>2, <1>4 DEF PipelineTypeOK, SpawnTypes, ReadTypes, QueueTypes
<1> QED
  BY <1>2, <1>5 DEF TypeInv

LEMMA StutterTyped ==
  ASSUME TypeInv, UNCHANGED vars PROVE TypeInv'
<1>1. DeviceInv' /\ DeviceTypeOK'
  BY TableAlone DEF vars
<1>2. SpawnTypes' /\ ReadTypes' /\ QueueTypes'
  BY TypeParts DEF TypeInv, SpawnTypes, ReadTypes, QueueTypes, vars, deviceVars,
                   readVars, queueVars
<1> QED
  BY <1>1, <1>2, Zenon DEF TypeInv, PipelineTypeOK, SpawnTypes, ReadTypes, QueueTypes

LEMMA StepTyped ==
  ASSUME TypeInv, [Next]_vars PROVE TypeInv'
  BY SetUpTyped, SpawnTyped, ReadTyped, ServeTyped, StutterTyped DEF Next, AtRest

\* Every queue stays within its capacity, a reader holds one frame and reads
\* a device that exists, and main never has two segments to queue.
THEOREM PipelineTypeCorrect == Spec => []PipelineTypeOK
<1>1. TypeInv => PipelineTypeOK
  BY DEF TypeInv
<1> QED
  BY <1>1, InitTyped, StepTyped, PTL DEF Spec

\* While the program receives, each device keeps its handle to itself.
THEOREM HandlesStayOwned == Spec => []HandlesOwned
<1>1. TypeInv => HandlesOwned
  BY DEF TypeInv, DeviceInv
<1> QED
  BY <1>1, InitTyped, StepTyped, PTL DEF Spec

\* addAll has counted the devices when main starts as many readers, in a program
\* that adds by addDevice only such devices as addAll takes; another one would be
\* in the table but not in the count.
THEOREM EveryDeviceCounted ==
  ASSUME Requested \subseteq Veth
  PROVE  Spec => []CountsTheTable
<1>1. TypeInv => CountsTheTable
  <2>1. pass = "done" \/ CountsTheTable
    BY DEF CountsTheTable
  <2> QED
    BY <2>1, Counted DEF TypeInv
<1> QED
  BY <1>1, InitTyped, StepTyped, PTL DEF Spec

-----------------------------------------------------------------------------
(***************************************************************************)
(* The sockets' queues and unSolvedSocket agree and together implement one *)
(* bounded FIFO queue, and the segments of one device are read in the      *)
(* order in which they came.  For the order: a frame passes five places,   *)
(* the hands of its reader, q, the hands of main, the queue that Announced *)
(* stands for, and processed; at any time the frames further on are the    *)
(* earlier ones of their device.                                           *)
(***************************************************************************)


(***************************************************************************)
(* Counting occurrences in the beginning of a sequence.                    *)
(***************************************************************************)

LEMMA CountType ==
  ASSUME NEW s, NEW n \in Nat, NEW x
  PROVE  /\ IsFiniteSet({i \in 1 .. n : s[i] = x})
         /\ CountTo(s, n, x) \in Nat
<1>1. IsFiniteSet(1 .. n)
  BY FS_Interval
<1>2. {i \in 1 .. n : s[i] = x} \in SUBSET (1 .. n)
  OBVIOUS
<1> QED
  BY <1>1, <1>2, FS_Subset, FS_CardinalityType DEF CountTo

LEMMA CountNone ==
  ASSUME NEW s, NEW x PROVE CountTo(s, 0, x) = 0
<1>1. {i \in 1 .. 0 : s[i] = x} = {}
  OBVIOUS
<1> QED
  BY <1>1, FS_EmptySet DEF CountTo

LEMMA CountNext ==
  ASSUME NEW s, NEW n \in Nat, NEW x
  PROVE  CountTo(s, n + 1, x) = CountTo(s, n, x) + (IF s[n + 1] = x THEN 1 ELSE 0)
<1> DEFINE A == {i \in 1 .. n : s[i] = x}
           B == {i \in 1 .. (n + 1) : s[i] = x}
<1>1. IsFiniteSet(A) /\ CountTo(s, n, x) = Cardinality(A) /\ Cardinality(A) \in Nat
  BY CountType DEF CountTo
<1>2. CASE s[n + 1] = x
  <2>1. B = A \cup {n + 1} /\ n + 1 \notin A
    BY <1>2
  <2> QED
    BY <1>1, <1>2, <2>1, FS_AddElement, Zenon DEF CountTo
<1>3. CASE s[n + 1] # x
  <2>1. B = A
    BY <1>3
  <2> QED
    BY <1>1, <1>3, <2>1 DEF CountTo
<1> QED
  BY <1>2, <1>3

LEMMA CountSame ==
  ASSUME NEW s, NEW t, NEW n \in Nat, NEW x, \A i \in 1 .. n : s[i] = t[i]
  PROVE  CountTo(s, n, x) = CountTo(t, n, x)
<1>1. {i \in 1 .. n : s[i] = x} = {i \in 1 .. n : t[i] = x}
  OBVIOUS
<1> QED
  BY <1>1 DEF CountTo

LEMMA CountGrows ==
  ASSUME NEW s, NEW n \in Nat, NEW m \in 0 .. n, NEW x
  PROVE  CountTo(s, m, x) <= CountTo(s, n, x)
<1>1. IsFiniteSet({i \in 1 .. n : s[i] = x})
  BY CountType
<1>2. {i \in 1 .. m : s[i] = x} \in SUBSET {i \in 1 .. n : s[i] = x}
  OBVIOUS
<1> QED
  BY <1>1, <1>2, FS_Subset DEF CountTo

\* The beginning of a sequence without its first element.
LEMMA CountShift ==
  ASSUME NEW s, NEW t, NEW n \in Nat, NEW x, \A i \in 1 .. n : t[i] = s[i + 1]
  PROVE  CountTo(s, n + 1, x) = CountTo(t, n, x) + (IF s[1] = x THEN 1 ELSE 0)
<1> DEFINE A == {i \in 1 .. n : t[i] = x}
           B == {i \in 2 .. (n + 1) : s[i] = x}
           C == {i \in 1 .. (n + 1) : s[i] = x}
           shift == [i \in A |-> i + 1]
<1>1. IsFiniteSet(A) /\ CountTo(t, n, x) = Cardinality(A) /\ Cardinality(A) \in Nat
  <2>1. CountTo(t, n, x) = Cardinality(A)
    BY DEF CountTo
  <2>2. IsFiniteSet(A) /\ CountTo(t, n, x) \in Nat
    BY CountType
  <2> QED
    BY <2>1, <2>2
<1>2. shift \in Bijection(A, B)
  <2>1. shift \in [A -> B]
    OBVIOUS
  <2>2. \A i, j \in A : shift[i] = shift[j] => i = j
    OBVIOUS
  <2>3. ASSUME NEW k \in B PROVE \E i \in A : shift[i] = k
    <3>1. k - 1 \in 1 .. n /\ (k - 1) + 1 = k /\ s[k] = x
      OBVIOUS
    <3>2. t[k - 1] = x
      BY <3>1
    <3>3. k - 1 \in A
      BY <3>1, <3>2
    <3> QED
      BY <3>1, <3>3
  <2> HIDE DEF shift, A, B
  <2> QED
    BY <2>1, <2>2, <2>3 DEF Bijection, Injection, IsInjective, Surjection
<1>3. IsFiniteSet(B) /\ Cardinality(B) = Cardinality(A)
  <2> HIDE DEF shift, A, B
  <2> QED
    BY <1>1, <1>2, FS_Bijection DEF ExistsBijection
<1>4. CASE s[1] = x
  <2>1. C = B \cup {1} /\ 1 \notin B
    BY <1>4
  <2> QED
    BY <1>1, <1>3, <1>4, <2>1, FS_AddElement, Zenon DEF CountTo
<1>5. CASE s[1] # x
  <2>1. C = B
    <3>1. ASSUME NEW i \in 1 .. (n + 1), s[i] = x PROVE i \in 2 .. (n + 1)
      BY <1>5, <3>1
    <3> QED
      BY <3>1
  <2>2. CountTo(s, n + 1, x) = Cardinality(C)
    BY DEF CountTo
  <2> HIDE DEF A, B, C
  <2> QED
    BY <1>1, <1>3, <1>5, <2>1, <2>2
<1> QED
  BY <1>4, <1>5

(***************************************************************************)
(* Sequences taken apart and put together.                                 *)
(***************************************************************************)

LEMMA AppendJoins ==
  ASSUME NEW S, NEW s \in Seq(S), NEW e \in S
  PROVE  Append(s, e) = s \o <<e>>
<1> DEFINE last == <<e>>
<1>1. last \in Seq(S) /\ Len(last) = 1 /\ last[1] = e
  OBVIOUS
<1> HIDE DEF last
<1>2. /\ s \o last \in Seq(S) /\ Len(s \o last) = Len(s) + 1
      /\ \A i \in 1 .. (Len(s) + 1) :
           (s \o last)[i] = IF i <= Len(s) THEN s[i] ELSE e
  <2>1. /\ s \o last \in Seq(S) /\ Len(s \o last) = Len(s) + Len(last)
        /\ \A i \in 1 .. Len(s) + Len(last) :
             (s \o last)[i] = IF i <= Len(s) THEN s[i] ELSE last[i - Len(s)]
    BY <1>1, ConcatProperties, Zenon
  <2>2. Len(s) \in Nat /\ \A i \in 1 .. (Len(s) + 1) : ~(i <= Len(s)) => i - Len(s) = 1
    OBVIOUS
  <2> QED
    BY <1>1, <2>1, <2>2
<1>3. /\ Append(s, e) \in Seq(S) /\ Len(Append(s, e)) = Len(s) + 1
      /\ \A i \in 1 .. (Len(s) + 1) :
           Append(s, e)[i] = IF i <= Len(s) THEN s[i] ELSE e
  OBVIOUS
<1>4. Append(s, e) = s \o last
  BY <1>2, <1>3, SeqEqual
<1> QED
  BY <1>4 DEF last

LEMMA HeadThenTail ==
  ASSUME NEW S, NEW s \in Seq(S), s # <<>>
  PROVE  <<Head(s)>> \o Tail(s) = s
<1> DEFINE first == <<Head(s)>>
<1>1. /\ first \in Seq(S) /\ Len(first) = 1 /\ first[1] = s[1]
      /\ Len(s) \in Nat \ {0}
      /\ Tail(s) \in Seq(S) /\ Len(Tail(s)) = Len(s) - 1
      /\ \A i \in 1 .. (Len(s) - 1) : Tail(s)[i] = s[i + 1]
  BY HeadTailProperties
<1> HIDE DEF first
<1>2. /\ first \o Tail(s) \in Seq(S) /\ Len(first \o Tail(s)) = Len(s)
      /\ \A i \in 1 .. Len(s) :
           (first \o Tail(s))[i] = IF i <= 1 THEN first[i] ELSE Tail(s)[i - 1]
  <2>1. /\ first \o Tail(s) \in Seq(S)
        /\ Len(first \o Tail(s)) = Len(first) + Len(Tail(s))
        /\ \A i \in 1 .. Len(first) + Len(Tail(s)) :
             (first \o Tail(s))[i] =
               IF i <= Len(first) THEN first[i] ELSE Tail(s)[i - Len(first)]
    BY <1>1, ConcatProperties, ZenonT(40)
  <2>2. Len(first) + Len(Tail(s)) = Len(s)
    BY <1>1
  <2> QED
    BY <1>1, <2>1, <2>2
<1>3. \A i \in 1 .. Len(s) : (first \o Tail(s))[i] = s[i]
  BY <1>1, <1>2
<1>4. first \o Tail(s) = s
  BY <1>2, <1>3, SeqEqual, Zenon
<1> QED
  BY <1>4 DEF first

(***************************************************************************)
(* The descriptors in order.                                               *)
(***************************************************************************)

LEMMA TicketsType ==
  ASSUME QueueTypes
  PROVE  /\ Tickets \in Seq(Fd) /\ Len(Tickets) \in Nat
         /\ DOMAIN Tickets = 1 .. Len(Tickets)
         /\ \A i \in 1 .. Len(Tickets) : Tickets[i] \in Fd
         /\ Len(Tickets) <= Len(unsolved) + 1
         /\ serving = NoFd => Tickets = unsolved
         /\ serving # NoFd => /\ Len(Tickets) = Len(unsolved) + 1
                              /\ Tickets[1] = serving
                              /\ Tail(Tickets) = unsolved
<1>1. CASE serving = NoFd
  BY <1>1 DEF Tickets, QueueTypes
<1>2. CASE serving # NoFd
  <2> DEFINE one == <<serving>>
  <2>1. /\ one \in Seq(Fd) /\ Len(one) = 1 /\ one[1] = serving
        /\ unsolved \in Seq(Fd) /\ Len(unsolved) \in Nat
    BY <1>2 DEF QueueTypes
  <2>2. Tickets = one \o unsolved
    BY <1>2 DEF Tickets
  <2> HIDE DEF one
  <2>3. /\ Tickets \in Seq(Fd) /\ Len(Tickets) = Len(unsolved) + 1
        /\ Tickets[1] = serving
        /\ \A i \in 1 .. Len(unsolved) : Tickets[i + 1] = unsolved[i]
    <3>1. /\ Tickets \in Seq(Fd) /\ Len(Tickets) = Len(one) + Len(unsolved)
          /\ \A i \in 1 .. Len(one) + Len(unsolved) :
               Tickets[i] = IF i <= Len(one) THEN one[i] ELSE unsolved[i - Len(one)]
      BY <2>1, <2>2, ConcatProperties, Zenon
    <3>2. \A i \in 1 .. Len(unsolved) :
            i + 1 \in 1 .. (Len(unsolved) + 1) /\ ~(i + 1 <= 1) /\ i + 1 - 1 = i
      BY <2>1
    <3> QED
      BY <2>1, <3>1, <3>2
  <2>4. Tickets # <<>>
    BY <2>1, <2>3
  <2>5. /\ Tail(Tickets) \in Seq(Fd) /\ Len(Tail(Tickets)) = Len(unsolved)
        /\ \A i \in 1 .. Len(unsolved) : Tail(Tickets)[i] = Tickets[i + 1]
    BY <2>1, <2>3, <2>4, HeadTailProperties
  <2>6. Tail(Tickets) = unsolved
    BY <2>1, <2>3, <2>5, SeqEqual
  <2> QED
    BY <1>2, <2>1, <2>3, <2>6
<1> QED
  BY <1>1, <1>2

\* How each step of main and processip changes them.
LEMMA TicketSteps ==
  ASSUME QueueTypes, QueueTypes', NoFd \notin Fd
  PROVE  /\ UNCHANGED <<unsolved, serving>> => Tickets' = Tickets
         /\ PushTicket => Tickets' = Append(Tickets, current.sock)
         /\ PopTicket => Tickets' = Tickets
         /\ ReadIPPacket => /\ Tickets # <<>> /\ Head(Tickets) = serving
                            /\ Tickets' = Tail(Tickets)
<1>1. UNCHANGED <<unsolved, serving>> => Tickets' = Tickets
  BY DEF Tickets
<1>2. ASSUME PushTicket PROVE Tickets' = Append(Tickets, current.sock)
  <2>1. /\ unsolved' = Append(unsolved, current.sock) /\ serving' = serving
        /\ current \in Frame
    BY <1>2 DEF PushTicket, QueueTypes
  <2>2. current.sock \in Fd /\ unsolved \in Seq(Fd)
    BY <2>1 DEF Frame, QueueTypes
  <2>3. CASE serving = NoFd
    BY <2>1, <2>3 DEF Tickets
  <2>4. CASE serving # NoFd
    <3> DEFINE one == <<serving>>
               last == <<current.sock>>
    <3>1. one \in Seq(Fd) /\ last \in Seq(Fd)
      BY <2>2, <2>4 DEF QueueTypes
    <3>2. Tickets = one \o unsolved /\ Tickets' = one \o Append(unsolved, current.sock)
      BY <2>1, <2>4 DEF Tickets
    <3>3. \A s \in Seq(Fd) : Append(s, current.sock) = s \o last
      BY <2>2, AppendJoins, SMTT(40)
    <3> HIDE DEF one, last
    <3>4. Tickets \in Seq(Fd)
      BY TicketsType, Zenon
    <3>5. Tickets' = one \o (unsolved \o last)
      BY <2>2, <3>2, <3>3, Zenon
    <3>6. Append(Tickets, current.sock) = (one \o unsolved) \o last
      BY <3>2, <3>3, <3>4, Zenon
    <3>7. one \o (unsolved \o last) = (one \o unsolved) \o last
      BY <2>2, <3>1, ConcatAssociative, SMTT(40)
    <3> QED
      BY <3>5, <3>6, <3>7
  <2> QED
    BY <2>3, <2>4
<1>3. ASSUME PopTicket PROVE Tickets' = Tickets
  <2>1. /\ serving = NoFd /\ unsolved # <<>>
        /\ serving' = Head(unsolved) /\ unsolved' = Tail(unsolved)
    BY <1>3 DEF PopTicket
  <2>2. unsolved \in Seq(Fd) /\ Head(unsolved) \in Fd /\ serving' # NoFd
    BY <2>1 DEF QueueTypes
  <2>3. Tickets = unsolved /\ Tickets' = <<Head(unsolved)>> \o Tail(unsolved)
    BY <2>1, <2>2 DEF Tickets
  <2> QED
    BY <2>1, <2>2, <2>3, HeadThenTail
<1>4. ASSUME ReadIPPacket
      PROVE  /\ Tickets # <<>> /\ Head(Tickets) = serving
             /\ Tickets' = Tail(Tickets)
  <2>1. serving # NoFd /\ serving' = NoFd /\ unsolved' = unsolved
    BY <1>4 DEF ReadIPPacket
  <2>2. Tickets' = unsolved
    BY <2>1 DEF Tickets
  <2> QED
    BY <2>1, <2>2, TicketsType DEF QueueTypes
<1> QED
  BY <1>1, <1>2, <1>3, <1>4

(***************************************************************************)
(* The socket queues agree with the descriptors.                           *)
(***************************************************************************)

\* A segment that main has stored is the last of its queue.
StoredLast ==
  stored => LET q == socketQueue[current.sock]
            IN  q # <<>> /\ q[Len(q)] = current

Matched == TicketsMatch /\ StoredLast

LEMMA PacketMatched ==
  ASSUME QueueTypes, QueueTypes', NoFd \notin Fd, Matched, PushPacket
  PROVE  Matched'
<1>1. /\ current \in Frame /\ current' = current /\ ~stored /\ stored' = TRUE
      /\ socketQueue' = [socketQueue EXCEPT ![current.sock] = Append(@, current)]
      /\ Tickets' = Tickets
  BY TicketSteps DEF PushPacket, QueueTypes
<1>2. current.sock \in Fd /\ socketQueue \in [Fd -> Seq(Frame)]
  BY <1>1, Zenon DEF Frame, QueueTypes
<1>3. /\ socketQueue'[current.sock] = Append(socketQueue[current.sock], current)
      /\ \A f \in Fd : f # current.sock => socketQueue'[f] = socketQueue[f]
  BY <1>1, <1>2
<1>4. /\ Len(socketQueue'[current.sock]) = Len(socketQueue[current.sock]) + 1
      /\ socketQueue'[current.sock][Len(socketQueue[current.sock]) + 1] = current
      /\ socketQueue'[current.sock] # <<>>
  <2> DEFINE q == socketQueue[current.sock]
  <2>1. q \in Seq(Frame) /\ socketQueue'[current.sock] = Append(q, current)
    BY <1>2, <1>3
  <2> HIDE DEF q
  <2>2. /\ Len(Append(q, current)) = Len(q) + 1
        /\ Append(q, current)[Len(q) + 1] = current
        /\ Append(q, current) # <<>>
    BY <1>1, <2>1
  <2> QED
    BY <2>1, <2>2 DEF q
<1>5. TicketsMatch'
  <2> SUFFICES ASSUME NEW f \in Fd
               PROVE  Len(socketQueue'[f]) =
                        CountTo(Tickets, Len(Tickets), f)
                          + (IF current.sock = f THEN 1 ELSE 0)
    BY <1>1 DEF TicketsMatch
  <2>1. Len(socketQueue[f]) = CountTo(Tickets, Len(Tickets), f) + 0
    BY <1>1, SMTT(40) DEF Matched, TicketsMatch
  <2>2. CountTo(Tickets, Len(Tickets), f) \in Nat
    BY TicketsType, CountType, Zenon
  <2>3. CASE f = current.sock
    BY <1>4, <2>1, <2>2, <2>3
  <2>4. CASE f # current.sock
    BY <1>3, <2>1, <2>4
  <2> QED
    BY <2>3, <2>4
<1>6. StoredLast'
  BY <1>1, <1>4 DEF StoredLast
<1> QED
  BY <1>5, <1>6 DEF Matched

LEMMA TicketMatched ==
  ASSUME QueueTypes, QueueTypes', NoFd \notin Fd, Matched, PushTicket
  PROVE  Matched'
<1> DEFINE g == current.sock
           n == Len(Tickets)
<1>1. /\ current \in Frame /\ stored /\ stored' = FALSE
      /\ socketQueue' = socketQueue /\ Tickets' = Append(Tickets, g)
  BY TicketSteps, Zenon DEF PushTicket, QueueTypes
<1>2. g \in Fd /\ Tickets \in Seq(Fd) /\ n \in Nat
  BY <1>1, TicketsType, Zenon DEF Frame
<1>3. /\ Len(Tickets') = n + 1 /\ Tickets'[n + 1] = g
      /\ \A i \in 1 .. n : Tickets'[i] = Tickets[i]
  BY <1>1, <1>2
<1>4. TicketsMatch'
  <2> SUFFICES ASSUME NEW f \in Fd
               PROVE  Len(socketQueue[f]) = CountTo(Tickets', n + 1, f)
    <3>1. \A f \in Fd : CountTo(Tickets', n + 1, f) \in Nat
      BY <1>2, CountType
    <3> HIDE DEF g, n
    <3> QED
      BY <1>1, <1>3, <3>1 DEF TicketsMatch
  <2>1. Len(socketQueue[f]) = CountTo(Tickets, n, f) + (IF g = f THEN 1 ELSE 0)
    BY <1>1 DEF Matched, TicketsMatch
  <2> HIDE DEF g, n
  <2>2. CountTo(Tickets', n, f) = CountTo(Tickets, n, f)
    BY <1>2, <1>3, CountSame
  <2>3. CountTo(Tickets', n + 1, f) =
          CountTo(Tickets', n, f) + (IF Tickets'[n + 1] = f THEN 1 ELSE 0)
    BY <1>2, CountNext
  <2> QED
    BY <1>3, <2>1, <2>2, <2>3
<1>5. StoredLast'
  BY <1>1 DEF StoredLast
<1> QED
  BY <1>4, <1>5 DEF Matched

LEMMA ReadMatched ==
  ASSUME QueueTypes, QueueTypes', NoFd \notin Fd, Matched, ReadIPPacket
  PROVE  Matched'
<1> DEFINE n == Len(Tickets) - 1
<1>1. /\ Tickets # <<>> /\ Tickets[1] = serving /\ Tickets' = Tail(Tickets)
      /\ stored' = stored /\ current' = current
      /\ socketQueue[serving] # <<>> /\ serving \in Fd
      /\ socketQueue' = [socketQueue EXCEPT ![serving] = Tail(@)]
  <2>1. Tickets # <<>> /\ Head(Tickets) = serving /\ Tickets' = Tail(Tickets)
    BY TicketSteps
  <2> QED
    BY <2>1, TicketsType DEF ReadIPPacket, QueueTypes
<1>2. /\ n \in Nat /\ n + 1 = Len(Tickets) /\ Len(Tickets') = n
      /\ \A i \in 1 .. n : Tickets'[i] = Tickets[i + 1]
  <2>1. Tickets \in Seq(Fd) /\ Len(Tickets) \in Nat
    BY TicketsType, Zenon
  <2>2. Len(Tickets) # 0
    BY <1>1, <2>1
  <2>3. /\ Len(Tail(Tickets)) = Len(Tickets) - 1
        /\ \A i \in 1 .. Len(Tail(Tickets)) : Tail(Tickets)[i] = Tickets[i + 1]
    BY <1>1, <2>1, HeadTailProperties
  <2> QED
    BY <1>1, <2>1, <2>2, <2>3, SMTT(40)
<1>3. /\ socketQueue'[serving] = Tail(socketQueue[serving])
      /\ \A f \in Fd : f # serving => socketQueue'[f] = socketQueue[f]
      /\ socketQueue[serving] \in Seq(Frame)
  BY <1>1 DEF QueueTypes
<1>4. /\ Len(socketQueue'[serving]) = Len(socketQueue[serving]) - 1
      /\ Len(socketQueue[serving]) \in Nat \ {0}
      /\ \A i \in 1 .. (Len(socketQueue[serving]) - 1) :
           socketQueue'[serving][i] = socketQueue[serving][i + 1]
  <2> DEFINE q == socketQueue[serving]
  <2>1. q \in Seq(Frame) /\ q # <<>> /\ socketQueue'[serving] = Tail(q)
    BY <1>1, <1>3
  <2> HIDE DEF q
  <2>2. /\ Len(Tail(q)) = Len(q) - 1 /\ Len(q) \in Nat \ {0}
        /\ \A i \in 1 .. (Len(q) - 1) : Tail(q)[i] = q[i + 1]
    BY <2>1, HeadTailProperties
  <2> QED
    BY <2>1, <2>2 DEF q
<1> HIDE DEF n
<1>5. \A f \in Fd : CountTo(Tickets, n + 1, f) =
                      CountTo(Tickets', n, f) + (IF serving = f THEN 1 ELSE 0)
  <2> TAKE f \in Fd
  <2>1. CountTo(Tickets, n + 1, f) =
          CountTo(Tickets', n, f) + (IF Tickets[1] = f THEN 1 ELSE 0)
    BY <1>2, CountShift
  <2> QED
    BY <1>1, <2>1
<1>6. \A f \in Fd : /\ CountTo(Tickets', n, f) \in Nat
                     /\ Len(socketQueue[f]) = CountTo(Tickets, n + 1, f)
                           + (IF stored /\ current.sock = f THEN 1 ELSE 0)
  BY <1>2, CountType, Zenon DEF Matched, TicketsMatch
<1>7. TicketsMatch'
  <2> SUFFICES ASSUME NEW f \in Fd
               PROVE  Len(socketQueue'[f]) = CountTo(Tickets', n, f)
                        + (IF stored /\ current.sock = f THEN 1 ELSE 0)
    BY <1>1, <1>2 DEF TicketsMatch
  <2>1. CASE f = serving
    BY <1>4, <1>5, <1>6, <2>1
  <2>2. CASE f # serving
    BY <1>3, <1>5, <1>6, <2>2
  <2> QED
    BY <2>1, <2>2
<1>8. StoredLast'
  <2> SUFFICES ASSUME stored
               PROVE  LET q == socketQueue'[current.sock]
                      IN  q # <<>> /\ q[Len(q)] = current
    BY <1>1 DEF StoredLast
  <2>1. /\ current.sock \in Fd
        /\ socketQueue[current.sock][Len(socketQueue[current.sock])] = current
        /\ socketQueue[current.sock] # <<>>
    BY DEF Matched, StoredLast, QueueTypes, Frame
  <2>2. CASE current.sock = serving
    <3>1. Len(socketQueue[serving]) >= 2
      <4>1. Len(socketQueue[serving]) = CountTo(Tickets, n + 1, serving) + 1
        BY <1>1, <1>6, <2>2
      <4>2. CountTo(Tickets, n + 1, serving) = CountTo(Tickets', n, serving) + 1
        BY <1>1, <1>5
      <4> QED
        BY <1>1, <1>6, <4>1, <4>2
    <3>2. /\ Len(socketQueue'[serving]) \in 1 .. (Len(socketQueue[serving]) - 1)
          /\ Len(socketQueue'[serving]) + 1 = Len(socketQueue[serving])
      BY <1>4, <3>1
    <3>3. socketQueue'[serving][Len(socketQueue'[serving])] = current
      BY <1>4, <2>1, <2>2, <3>2, Zenon
    <3>4. socketQueue'[serving] # <<>>
      BY <3>2
    <3> QED
      BY <2>2, <3>3, <3>4
  <2>3. CASE current.sock # serving
    BY <1>3, <2>1, <2>3
  <2> QED
    BY <2>2, <2>3
<1> QED
  BY <1>7, <1>8 DEF Matched

LEMMA QueuesMatched ==
  ASSUME TypeInv, TypeInv', Matched, [Next]_vars
  PROVE  Matched'
<1>1. QueueTypes /\ QueueTypes' /\ NoFd \notin Fd
  BY TypeParts, PipelineAssumption, Zenon
  DEF TypeInv, PipelineTypeOK, QueueTypes, PipelineAssumption
<1>2. ASSUME UNCHANGED <<unsolved, serving, socketQueue>>,
             stored' = stored /\ (stored => current' = current)
      PROVE  Matched'
  <2>1. Tickets' = Tickets
    BY <1>1, <1>2, TicketSteps
  <2>2. \A f \in Fd : (IF stored /\ current.sock = f THEN 1 ELSE 0)
                      = (IF stored' /\ current'.sock = f THEN 1 ELSE 0)
    BY <1>2
  <2>3. TicketsMatch'
    BY <1>2, <2>1, <2>2 DEF Matched, TicketsMatch
  <2>4. StoredLast'
    BY <1>2 DEF Matched, StoredLast
  <2> QED
    BY <2>3, <2>4 DEF Matched
<1>3. CASE SetUp \/ Spawn \/ Work \/ UNCHANGED vars
  BY <1>2, <1>3 DEF SetUp, Spawn, Work, vars, queueVars
<1>4. ASSUME NEW i \in 1 .. spawned, Reader(i) PROVE Matched'
  BY <1>2, <1>4 DEF Reader, PcapNext, PushFrame, queueVars
<1>5. CASE PopFrame
  <2>1. stored = FALSE
    BY <1>1, <1>5 DEF PopFrame, QueueTypes
  <2> QED
    BY <1>2, <1>5, <2>1 DEF PopFrame
<1>6. CASE PopTicket
  <2>1. /\ UNCHANGED <<socketQueue, stored, current>> /\ Tickets' = Tickets
    BY <1>1, <1>6, TicketSteps DEF PopTicket
  <2> QED
    BY <2>1 DEF Matched, TicketsMatch, StoredLast
<1> QED
  BY <1>1, <1>3, <1>4, <1>5, <1>6, PacketMatched, TicketMatched, ReadMatched
  DEF Next, Main, ProcessIPPacket, AtRest

LEMMA InitMatched == Init => Matched
<1> SUFFICES ASSUME Init PROVE Matched
  OBVIOUS
<1>1. ~stored /\ Tickets = <<>> /\ \A f \in Fd : socketQueue[f] = <<>>
  BY DEF Init, Tickets
<1>2. Len(<<>>) = 0
  OBVIOUS
<1>3. TicketsMatch
  BY <1>1, <1>2, CountNone DEF TicketsMatch
<1> QED
  BY <1>1, <1>3 DEF Matched, StoredLast

\* At every point between the two pushes of main and the two pops of
\* processip, a socket's queue holds a segment for each of its descriptors
\* and the one that main is about to announce, and no other.
THEOREM QueuesAgree == Spec => []TicketsMatch
<1>1. Matched => TicketsMatch
  BY DEF Matched
<1>2. TypeInv /\ Matched /\ [Next]_vars => (TypeInv /\ Matched)'
  BY StepTyped, QueuesMatched
<1>3. Init => TypeInv /\ Matched
  BY InitTyped, InitMatched
<1> QED
  BY <1>1, <1>2, <1>3, PTL DEF Spec

(***************************************************************************)
(* The segments in the order of their descriptors, for a sequence T of     *)
(* descriptors and queues sq.                                              *)
(***************************************************************************)

Announce(T, sq) == [i \in 1 .. Len(T) |-> sq[T[i]][CountTo(T, i, T[i])]]

\* There is a segment for every descriptor.
Covered(T, sq) ==
  /\ T \in Seq(Fd) /\ sq \in [Fd -> Seq(Frame)]
  /\ \A f \in Fd : CountTo(T, Len(T), f) <= Len(sq[f])

LEMMA AnnouncePlaces ==
  ASSUME NEW T, NEW sq, Covered(T, sq), NEW i \in 1 .. Len(T)
  PROVE  /\ T[i] \in Fd
         /\ CountTo(T, i, T[i]) \in 1 .. CountTo(T, Len(T), T[i])
         /\ CountTo(T, i, T[i]) \in 1 .. Len(sq[T[i]])
<1>1. T[i] \in Fd /\ Len(T) \in Nat /\ i \in Nat /\ i - 1 \in Nat /\ (i - 1) + 1 = i
  BY DEF Covered
<1>2. CountTo(T, i, T[i]) = CountTo(T, i - 1, T[i]) + 1
  <2>1. CountTo(T, (i - 1) + 1, T[i]) =
          CountTo(T, i - 1, T[i]) + (IF T[(i - 1) + 1] = T[i] THEN 1 ELSE 0)
    BY <1>1, CountNext
  <2> QED
    BY <1>1, <2>1
<1>3. CountTo(T, i - 1, T[i]) \in Nat /\ CountTo(T, Len(T), T[i]) \in Nat
  BY <1>1, CountType, Zenon
<1>4. CountTo(T, i, T[i]) <= CountTo(T, Len(T), T[i])
  BY <1>1, CountGrows
<1>5. Len(sq[T[i]]) \in Nat /\ CountTo(T, Len(T), T[i]) <= Len(sq[T[i]])
  BY <1>1 DEF Covered
<1> QED
  BY <1>1, <1>2, <1>3, <1>4, <1>5

LEMMA AnnounceType ==
  ASSUME NEW T, NEW sq, Covered(T, sq)
  PROVE  /\ Announce(T, sq) \in Seq(Frame)
         /\ Len(Announce(T, sq)) = Len(T) /\ Len(T) \in Nat
         /\ \A i \in 1 .. Len(T) : Announce(T, sq)[i] = sq[T[i]][CountTo(T, i, T[i])]
<1>1. Len(T) \in Nat
  BY DEF Covered
<1>2. ASSUME NEW i \in 1 .. Len(T)
      PROVE  sq[T[i]][CountTo(T, i, T[i])] \in Frame
  <2>1. T[i] \in Fd /\ CountTo(T, i, T[i]) \in 1 .. Len(sq[T[i]])
    BY AnnouncePlaces
  <2>2. sq[T[i]] \in Seq(Frame)
    BY <2>1 DEF Covered
  <2> QED
    BY <2>1, <2>2
<1>3. Announce(T, sq) \in [1 .. Len(T) -> Frame]
  BY <1>2 DEF Announce
<1>4. Announce(T, sq) \in Seq(Frame) /\ Len(Announce(T, sq)) = Len(T)
  BY <1>1, <1>3
<1> QED
  BY <1>1, <1>4 DEF Announce

\* A segment stored at the end of a queue is not announced yet.
LEMMA AnnounceStored ==
  ASSUME NEW T, NEW sq, Covered(T, sq), NEW g \in Fd, NEW e \in Frame
  PROVE  LET sq2 == [sq EXCEPT ![g] = Append(@, e)]
         IN  Announce(T, sq2) = Announce(T, sq)
<1> DEFINE sq2 == [sq EXCEPT ![g] = Append(@, e)]
<1>1. ASSUME NEW i \in 1 .. Len(T)
      PROVE  sq2[T[i]][CountTo(T, i, T[i])] = sq[T[i]][CountTo(T, i, T[i])]
  <2>1. T[i] \in Fd /\ CountTo(T, i, T[i]) \in 1 .. Len(sq[T[i]])
    BY AnnouncePlaces
  <2>2. sq[g] \in Seq(Frame) /\ sq[T[i]] \in Seq(Frame)
    BY <2>1 DEF Covered
  <2>3. CASE T[i] = g
    <3>1. sq2[g] = Append(sq[g], e)
      BY DEF Covered
    <3>2. \A k \in 1 .. Len(sq[g]) : Append(sq[g], e)[k] = sq[g][k]
      BY <2>2
    <3> QED
      BY <2>1, <2>3, <3>1, <3>2
  <2>4. CASE T[i] # g
    BY <2>1, <2>4 DEF Covered
  <2> QED
    BY <2>3, <2>4, Zenon
<1> HIDE DEF sq2
<1>2. Announce(T, sq2) = Announce(T, sq)
  BY <1>1 DEF Announce
<1> QED
  BY <1>2 DEF sq2

\* A new descriptor announces the last segment of its queue.
LEMMA AnnouncePut ==
  ASSUME NEW T, NEW sq, Covered(T, sq), NEW g \in Fd,
         Len(sq[g]) = CountTo(T, Len(T), g) + 1
  PROVE  Announce(Append(T, g), sq) = Append(Announce(T, sq), sq[g][Len(sq[g])])
<1> DEFINE n == Len(T)
           U == Append(T, g)
           last == sq[g][Len(sq[g])]
<1>1. /\ n \in Nat /\ U \in Seq(Fd) /\ Len(U) = n + 1 /\ U[n + 1] = g
      /\ \A i \in 1 .. n : U[i] = T[i]
      /\ sq \in [Fd -> Seq(Frame)] /\ sq[g] \in Seq(Frame)
  BY DEF Covered
<1>2. \A f \in Fd : CountTo(U, n + 1, f) =
                      CountTo(T, n, f) + (IF g = f THEN 1 ELSE 0)
  <2> TAKE f \in Fd
  <2> HIDE DEF U, n
  <2>1. CountTo(U, n + 1, f) = CountTo(U, n, f) + (IF U[n + 1] = f THEN 1 ELSE 0)
    BY <1>1, CountNext
  <2>2. CountTo(U, n, f) = CountTo(T, n, f)
    BY <1>1, CountSame
  <2> QED
    BY <1>1, <2>1, <2>2
<1>3. Covered(U, sq)
  <2> SUFFICES ASSUME NEW f \in Fd PROVE CountTo(U, n + 1, f) <= Len(sq[f])
    BY <1>1 DEF Covered
  <2>1. CountTo(T, n, f) <= Len(sq[f]) /\ CountTo(T, n, f) \in Nat
        /\ CountTo(T, n, g) \in Nat
    BY <1>1, CountType, Zenon DEF Covered
  <2>2. CASE f = g
    BY <1>2, <2>1, <2>2
  <2>3. CASE f # g
    BY <1>2, <2>1, <2>3
  <2> QED
    BY <2>2, <2>3
<1>4. Len(sq[g]) \in 1 .. Len(sq[g]) /\ last \in Frame
  <2>1. CountTo(T, n, g) \in Nat
    BY <1>1, CountType, Zenon
  <2>2. Len(sq[g]) \in 1 .. Len(sq[g])
    BY <2>1
  <2> QED
    BY <1>1, <2>2
<1> HIDE DEF last
<1>5. /\ Announce(T, sq) \in Seq(Frame) /\ Len(Announce(T, sq)) = n
      /\ Announce(U, sq) \in Seq(Frame) /\ Len(Announce(U, sq)) = n + 1
  BY <1>1, <1>3, AnnounceType, Zenon
<1>6. /\ Append(Announce(T, sq), last) \in Seq(Frame)
      /\ Len(Append(Announce(T, sq), last)) = n + 1
      /\ \A i \in 1 .. n : Append(Announce(T, sq), last)[i] = Announce(T, sq)[i]
      /\ Append(Announce(T, sq), last)[n + 1] = last
  BY <1>4, <1>5, AppendProperties
<1>7. ASSUME NEW i \in 1 .. n PROVE Announce(U, sq)[i] = Announce(T, sq)[i]
  <2>1. i \in Nat /\ \A k \in 1 .. i : U[k] = T[k]
    BY <1>1
  <2> HIDE DEF U
  <2>2. CountTo(U, i, T[i]) = CountTo(T, i, T[i])
    BY <2>1, CountSame
  <2>3. i \in 1 .. Len(U) /\ U[i] = T[i]
    BY <1>1
  <2>4. Announce(U, sq)[i] = sq[U[i]][CountTo(U, i, U[i])]
    BY <1>3, <2>3, AnnounceType
  <2> QED
    BY <2>2, <2>3, <2>4, AnnounceType
<1>8. Announce(U, sq)[n + 1] = last
  <2>1. n + 1 \in 1 .. Len(U)
    BY <1>1
  <2> HIDE DEF U
  <2>2. Announce(U, sq)[n + 1] = sq[g][CountTo(U, n + 1, g)]
    BY <1>1, <1>3, <2>1, AnnounceType, ZenonT(40)
  <2> QED
    BY <1>2, <2>2 DEF last
<1> HIDE DEF n, U
<1>9. \A i \in 1 .. (n + 1) : Announce(U, sq)[i] = Append(Announce(T, sq), last)[i]
  <2>1. \A i \in 1 .. (n + 1) : i \in 1 .. n \/ i = n + 1
    BY <1>1
  <2> QED
    BY <1>6, <1>7, <1>8, <2>1
<1>10. Announce(U, sq) = Append(Announce(T, sq), last)
  BY <1>5, <1>6, <1>9, SeqEqual
<1> QED
  BY <1>10 DEF U, last

\* Serving the first descriptor takes the first segment announced.
LEMMA AnnounceTake ==
  ASSUME NEW T, NEW sq, Covered(T, sq), T # <<>>
  PROVE  LET sq2 == [sq EXCEPT ![Head(T)] = Tail(@)]
         IN  /\ Announce(T, sq) # <<>>
             /\ Head(Announce(T, sq)) = Head(sq[Head(T)])
             /\ Announce(Tail(T), sq2) = Tail(Announce(T, sq))
<1> DEFINE n == Len(T) - 1
           U == Tail(T)
           g == T[1]
           sq2 == [sq EXCEPT ![g] = Tail(@)]
<1>1. /\ n \in Nat /\ Len(T) = n + 1 /\ U \in Seq(Fd) /\ Len(U) = n
      /\ \A i \in 1 .. n : U[i] = T[i + 1]
      /\ Head(T) = g /\ g \in Fd
      /\ 1 \in 1 .. Len(T)
  <2>1. T \in Seq(Fd) /\ Len(T) \in Nat /\ Len(T) # 0
    BY DEF Covered
  <2>2. /\ U \in Seq(Fd) /\ Len(U) = Len(T) - 1
        /\ \A i \in 1 .. Len(U) : U[i] = T[i + 1]
    BY <2>1, HeadTailProperties
  <2> QED
    BY <2>1, <2>2
<1>2. \A k \in 0 .. n, f \in Fd :
        /\ CountTo(T, k + 1, f) = CountTo(U, k, f) + (IF g = f THEN 1 ELSE 0)
        /\ CountTo(U, k, f) \in Nat
  <2> TAKE k \in 0 .. n, f \in Fd
  <2> HIDE DEF U, n
  <2>1. k \in Nat /\ \A i \in 1 .. k : U[i] = T[i + 1]
    BY <1>1
  <2>2. CountTo(T, k + 1, f) = CountTo(U, k, f) + (IF T[1] = f THEN 1 ELSE 0)
    BY <2>1, CountShift
  <2> QED
    BY <2>1, <2>2, CountType, Zenon
<1>3. /\ sq[g] \in Seq(Frame) /\ sq[g] # <<>> /\ Len(sq[g]) \in Nat \ {0}
      /\ Tail(sq[g]) \in Seq(Frame) /\ Len(Tail(sq[g])) = Len(sq[g]) - 1
      /\ \A i \in 1 .. (Len(sq[g]) - 1) : Tail(sq[g])[i] = sq[g][i + 1]
  <2> DEFINE q == sq[g]
  <2>1. q \in Seq(Frame) /\ CountTo(T, 1, g) \in 1 .. Len(q)
    BY <1>1, AnnouncePlaces, Zenon DEF Covered
  <2> HIDE DEF q
  <2>2. q # <<>> /\ Len(q) \in Nat \ {0}
    BY <2>1
  <2>3. /\ Tail(q) \in Seq(Frame) /\ Len(Tail(q)) = Len(q) - 1
        /\ \A i \in 1 .. Len(Tail(q)) : Tail(q)[i] = q[i + 1]
    BY <2>1, <2>2, HeadTailProperties
  <2> QED
    BY <2>1, <2>2, <2>3 DEF q
<1>4. /\ sq2 \in [Fd -> Seq(Frame)] /\ sq2[g] = Tail(sq[g])
      /\ \A f \in Fd : f # g => sq2[f] = sq[f]
  BY <1>1, <1>3 DEF Covered
<1> HIDE DEF sq2
<1>5. Covered(U, sq2)
  <2> SUFFICES ASSUME NEW f \in Fd PROVE CountTo(U, n, f) <= Len(sq2[f])
    BY <1>1, <1>4 DEF Covered
  <2>1. CountTo(T, n + 1, f) <= Len(sq[f])
    BY <1>1 DEF Covered
  <2>2. n \in 0 .. n
    BY <1>1
  <2>3. /\ CountTo(T, n + 1, f) = CountTo(U, n, f) + (IF g = f THEN 1 ELSE 0)
        /\ CountTo(U, n, f) \in Nat
    BY <1>2, <2>2, Zenon
  <2> HIDE DEF n, U, g
  <2>4. CASE f = g
    <3>1. CountTo(U, n, g) + 1 <= Len(sq[g]) /\ CountTo(U, n, g) \in Nat
      BY <2>1, <2>3, <2>4
    <3>2. Len(sq2[g]) = Len(sq[g]) - 1 /\ Len(sq[g]) \in Nat
      BY <1>3, <1>4
    <3>3. CountTo(U, n, g) <= Len(sq2[g])
      BY <3>1, <3>2
    <3> QED
      BY <2>4, <3>3
  <2>5. CASE f # g
    <3>1. CountTo(U, n, f) <= Len(sq[f])
      BY <2>1, <2>3, <2>5
    <3> QED
      BY <1>4, <2>5, <3>1
  <2> QED
    BY <2>4, <2>5
<1>6. /\ Announce(T, sq) \in Seq(Frame) /\ Len(Announce(T, sq)) = n + 1
      /\ Announce(U, sq2) \in Seq(Frame) /\ Len(Announce(U, sq2)) = n
  BY <1>1, <1>5, AnnounceType, Zenon
<1> HIDE DEF n, U
<1>7. Announce(T, sq) # <<>> /\ Head(Announce(T, sq)) = Announce(T, sq)[1]
  BY <1>1, <1>6
<1>8. Announce(T, sq)[1] = Head(sq[g])
  <2>1. 0 \in 0 .. n /\ 0 + 1 = 1
    BY <1>1
  <2>2. CountTo(T, 1, g) = CountTo(U, 0, g) + 1
    BY <1>1, <1>2, <2>1
  <2>3. CountTo(T, 1, g) = 1
    BY <2>2, CountNone
  <2>4. Announce(T, sq)[1] = sq[g][CountTo(T, 1, g)]
    BY <1>1, AnnounceType
  <2> QED
    BY <1>3, <2>3, <2>4
<1>9. /\ Tail(Announce(T, sq)) \in Seq(Frame) /\ Len(Tail(Announce(T, sq))) = n
      /\ \A i \in 1 .. n : Tail(Announce(T, sq))[i] = Announce(T, sq)[i + 1]
  <2> DEFINE A == Announce(T, sq)
  <2>1. A \in Seq(Frame) /\ Len(A) = n + 1 /\ A # <<>>
    BY <1>6, <1>7
  <2> HIDE DEF A
  <2>2. /\ Tail(A) \in Seq(Frame) /\ Len(Tail(A)) = Len(A) - 1
        /\ \A i \in 1 .. Len(Tail(A)) : Tail(A)[i] = A[i + 1]
    BY <2>1, HeadTailProperties
  <2>3. Len(Tail(A)) = n
    BY <1>1, <2>1, <2>2
  <2> QED
    BY <2>2, <2>3 DEF A
<1>10. ASSUME NEW i \in 1 .. n
       PROVE  Announce(U, sq2)[i] = Announce(T, sq)[i + 1]
  <2>1. /\ i + 1 \in 1 .. Len(T) /\ i \in 1 .. Len(U) /\ i \in 0 .. n
        /\ U[i] = T[i + 1]
    BY <1>1
  <2>2. U[i] \in Fd /\ CountTo(U, i, U[i]) \in 1 .. Len(sq2[U[i]])
    BY <1>5, <2>1, AnnouncePlaces
  <2>3. Announce(U, sq2)[i] = sq2[U[i]][CountTo(U, i, U[i])]
    BY <1>5, <2>1, AnnounceType
  <2>4. Announce(T, sq)[i + 1] = sq[U[i]][CountTo(T, i + 1, U[i])]
    BY <2>1, AnnounceType
  <2>5. CountTo(T, i + 1, U[i]) = CountTo(U, i, U[i]) + (IF g = U[i] THEN 1 ELSE 0)
    BY <1>2, <2>1, <2>2
  <2>6. CASE U[i] = g
    <3>1. CountTo(U, i, U[i]) \in 1 .. (Len(sq[g]) - 1)
      BY <1>3, <1>4, <2>2, <2>6, Zenon
    <3>2. CountTo(T, i + 1, U[i]) = CountTo(U, i, U[i]) + 1
      BY <2>5, <2>6
    <3> QED
      BY <1>3, <1>4, <2>3, <2>4, <2>6, <3>1, <3>2, Zenon
  <2>7. CASE U[i] # g
    <3>1. CountTo(T, i + 1, U[i]) = CountTo(U, i, U[i])
      BY <2>2, <2>5, <2>7
    <3> QED
      BY <1>4, <2>2, <2>3, <2>4, <2>7, <3>1
  <2> QED
    BY <2>6, <2>7
<1>11. Announce(U, sq2) = Tail(Announce(T, sq))
  BY <1>6, <1>9, <1>10, SeqEqual
<1> QED
  BY <1>1, <1>7, <1>8, <1>11, Zenon DEF U, sq2

(***************************************************************************)
(* All the sockets' queues and unSolvedSocket are one queue.               *)
(***************************************************************************)

LEMMA AnnouncedIs ==
  /\ Announced = Announce(Tickets, socketQueue)
  /\ Announced' = Announce(Tickets', socketQueue')
  BY DEF Announced, Announce

LEMMA MatchedCovers ==
  ASSUME QueueTypes, TicketsMatch
  PROVE  Covered(Tickets, socketQueue) /\ Announced \in Seq(Frame)
<1> SUFFICES ASSUME NEW f \in Fd
             PROVE  CountTo(Tickets, Len(Tickets), f) <= Len(socketQueue[f])
  BY TicketsType, AnnouncedIs, AnnounceType, Zenon DEF Covered, QueueTypes
<1>1. Len(socketQueue[f]) =
        CountTo(Tickets, Len(Tickets), f) + (IF stored /\ current.sock = f THEN 1 ELSE 0)
  BY DEF TicketsMatch
<1>2. CountTo(Tickets, Len(Tickets), f) \in Nat
  BY TicketsType, CountType, Zenon
<1> QED
  BY <1>1, <1>2

\* Announcing a segment puts it.
LEMMA PushTicketPuts ==
  ASSUME QueueTypes, QueueTypes', NoFd \notin Fd, Matched, PushTicket
  PROVE  current \in Frame /\ Fifo!Put(current)
<1> DEFINE g == current.sock
<1>1. /\ current \in Frame /\ stored /\ Tickets' = Append(Tickets, g)
      /\ socketQueue' = socketQueue /\ processed' = processed
      /\ Len(unsolved) < UnsolvedCapacity
  BY TicketSteps, Zenon DEF PushTicket, QueueTypes
<1>2. g \in Fd
  BY <1>1 DEF Frame
<1> HIDE DEF g
<1>3. Covered(Tickets, socketQueue)
  BY MatchedCovers DEF Matched
<1>4. Len(socketQueue[g]) = CountTo(Tickets, Len(Tickets), g) + 1
  BY <1>1, <1>2 DEF Matched, TicketsMatch, g
<1>5. socketQueue[g][Len(socketQueue[g])] = current
  BY <1>1 DEF Matched, StoredLast, g
<1>6. Announced' = Append(Announced, current)
  BY <1>1, <1>2, <1>3, <1>4, <1>5, AnnouncedIs, AnnouncePut, Zenon
<1>7. Len(Announced) < UnsolvedCapacity + 1
  <2>1. Len(Announced) = Len(Tickets) /\ Len(Tickets) <= Len(unsolved) + 1
    BY <1>3, AnnouncedIs, AnnounceType, TicketsType, Zenon
  <2>2. Len(Tickets) \in Nat /\ Len(unsolved) \in Nat /\ UnsolvedCapacity \in Nat
    BY TicketsType, PipelineAssumption DEF QueueTypes, PipelineAssumption
  <2> QED
    BY <1>1, <2>1, <2>2, SMTT(40)
<1> QED
  BY <1>1, <1>6, <1>7 DEF Fifo!Put

\* Reading a segment takes it.
LEMMA ReadTakes ==
  ASSUME QueueTypes, QueueTypes', NoFd \notin Fd, Matched, ReadIPPacket
  PROVE  Fifo!Take
<1>1. /\ Tickets # <<>> /\ Head(Tickets) = serving /\ Tickets' = Tail(Tickets)
      /\ socketQueue' = [socketQueue EXCEPT ![serving] = Tail(@)]
      /\ processed' = Append(processed, Head(socketQueue[serving]))
  BY TicketSteps DEF ReadIPPacket
<1>2. Covered(Tickets, socketQueue)
  BY MatchedCovers DEF Matched
<1>3. /\ Announced # <<>> /\ Head(Announced) = Head(socketQueue[serving])
      /\ Announced' = Tail(Announced)
  BY <1>1, <1>2, AnnouncedIs, AnnounceTake, Zenon
<1> QED
  BY <1>1, <1>3 DEF Fifo!Take

\* Storing a segment, or popping a descriptor, changes nothing to be seen.
LEMMA OthersStutter ==
  ASSUME QueueTypes, QueueTypes', NoFd \notin Fd, Matched,
         \/ PushPacket
         \/ PopTicket
         \/ UNCHANGED <<socketQueue, unsolved, serving, processed>>
  PROVE  UNCHANGED Fifo!vars
<1>1. CASE PushPacket
  <2> DEFINE g == current.sock
  <2>1. /\ current \in Frame /\ Tickets' = Tickets /\ processed' = processed
        /\ socketQueue' = [socketQueue EXCEPT ![g] = Append(@, current)]
    BY <1>1, TicketSteps DEF PushPacket, QueueTypes
  <2>2. g \in Fd
    BY <2>1 DEF Frame
  <2>3. Covered(Tickets, socketQueue)
    BY MatchedCovers DEF Matched
  <2> HIDE DEF g
  <2>4. Announce(Tickets, socketQueue') = Announce(Tickets, socketQueue)
    <3>1. \A e \in Frame :
            Announce(Tickets, [socketQueue EXCEPT ![g] = Append(@, e)])
              = Announce(Tickets, socketQueue)
      BY <2>2, <2>3, AnnounceStored
    <3> QED
      BY <2>1, <3>1, Zenon
  <2>5. Announced' = Announced
    BY <2>1, <2>4, AnnouncedIs
  <2> QED
    BY <2>1, <2>5 DEF Fifo!vars
<1>2. CASE PopTicket
  <2>1. Tickets' = Tickets /\ UNCHANGED <<socketQueue, processed>>
    BY <1>2, TicketSteps DEF PopTicket
  <2> QED
    BY <2>1, AnnouncedIs DEF Fifo!vars
<1>3. CASE UNCHANGED <<socketQueue, unsolved, serving, processed>>
  BY <1>3, TicketSteps, AnnouncedIs DEF Fifo!vars
<1> QED
  BY <1>1, <1>2, <1>3

LEMMA StepImplements ==
  ASSUME TypeInv, TypeInv', Matched, [Next]_vars
  PROVE  [Fifo!Next]_(Fifo!vars)
<1>1. QueueTypes /\ QueueTypes' /\ NoFd \notin Fd
  BY TypeParts, PipelineAssumption, Zenon
  DEF TypeInv, PipelineTypeOK, QueueTypes, PipelineAssumption
<1>2. CASE PushTicket
  BY <1>1, <1>2, PushTicketPuts DEF Fifo!Next
<1>3. CASE ReadIPPacket
  BY <1>1, <1>3, ReadTakes DEF Fifo!Next
<1>4. CASE PushPacket \/ PopTicket
  BY <1>1, <1>4, OthersStutter
<1>5. CASE UNCHANGED <<socketQueue, unsolved, serving, processed>>
  BY <1>1, <1>5, OthersStutter
<1>6. CASE SetUp \/ Spawn \/ Work \/ PopFrame \/ UNCHANGED vars
  BY <1>5, <1>6 DEF SetUp, Spawn, Work, PopFrame, vars, queueVars
<1>7. ASSUME NEW i \in 1 .. spawned, Reader(i)
      PROVE  [Fifo!Next]_(Fifo!vars)
  BY <1>5, <1>7 DEF Reader, PcapNext, PushFrame, queueVars
<1> QED
  BY <1>2, <1>3, <1>4, <1>6, <1>7 DEF Next, Main, ProcessIPPacket, AtRest

\* processip reads the segments of all sockets in the order in which main
\* announced them, each once, for every number of sockets and every capacity
\* of their queues: main's two pushes and processip's two pops are the Put
\* and the Take of one bounded FIFO queue.
THEOREM PipelineImplementsFifo == Spec => ImplementsFifo
<1>1. Init => Fifo!Init
  <2> SUFFICES ASSUME Init PROVE Fifo!Init
    OBVIOUS
  <2>1. Tickets = <<>> /\ processed = <<>>
    BY DEF Init, Tickets
  <2>2. Announced = <<>>
    BY <2>1 DEF Announced
  <2> QED
    BY <2>1, <2>2 DEF Fifo!Init
<1>2. TypeInv /\ Matched /\ [Next]_vars => (TypeInv /\ Matched)'
  BY StepTyped, QueuesMatched
<1>3. TypeInv /\ Matched /\ [Next]_vars => [Fifo!Next]_(Fifo!vars)
  BY StepTyped, StepImplements
<1>4. Init => TypeInv /\ Matched
  BY InitTyped, InitMatched
<1> QED
  BY <1>1, <1>2, <1>3, <1>4, PTL DEF Spec, ImplementsFifo, Fifo!Spec

-----------------------------------------------------------------------------
Sorted(s) ==
  \A i, j \in 1 .. Len(s) : i < j /\ s[i].via = s[j].via => s[i].nr < s[j].nr

Elements(s) == {s[i] : i \in 1 .. Len(s)}

Earlier(A, B) == \A a \in A, b \in B : a.via = b.via => a.nr < b.nr

LEMMA AppendSorted ==
  ASSUME NEW s \in Seq(Frame), NEW e \in Frame
  PROVE  /\ Elements(Append(s, e)) = Elements(s) \cup {e}
         /\ Sorted(s) /\ Earlier(Elements(s), {e}) => Sorted(Append(s, e))
<1> DEFINE n == Len(s)
           t == Append(s, e)
<1>1. /\ n \in Nat /\ Len(t) = n + 1 /\ t[n + 1] = e
      /\ \A i \in 1 .. n : t[i] = s[i]
      /\ \A i \in 1 .. (n + 1) : i \in 1 .. n \/ i = n + 1
  OBVIOUS
<1> HIDE DEF t, n
<1>2. Elements(t) = Elements(s) \cup {e}
  <2>1. /\ Elements(t) = {t[i] : i \in 1 .. (n + 1)}
        /\ Elements(s) = {s[i] : i \in 1 .. n}
        /\ n + 1 \in 1 .. (n + 1) /\ \A i \in 1 .. n : i \in 1 .. (n + 1)
    BY <1>1 DEF Elements, n
  <2> QED
    BY <1>1, <2>1
<1>3. ASSUME Sorted(s), Earlier(Elements(s), {e}) PROVE Sorted(t)
  <2> SUFFICES ASSUME NEW i \in 1 .. (n + 1), NEW j \in 1 .. (n + 1),
                      i < j, t[i].via = t[j].via
               PROVE  t[i].nr < t[j].nr
    BY <1>1 DEF Sorted
  <2>1. i \in 1 .. n /\ t[i] = s[i]
    BY <1>1
  <2>2. CASE j = n + 1
    <3>1. s[i] \in Elements(s)
      BY <2>1 DEF Elements, n
    <3> QED
      BY <1>1, <1>3, <2>1, <2>2, <3>1 DEF Earlier
  <2>3. CASE j \in 1 .. n
    BY <1>1, <1>3, <2>1, <2>3 DEF Sorted, n
  <2> QED
    BY <1>1, <2>2, <2>3
<1> QED
  BY <1>2, <1>3 DEF t

LEMMA TailSorted ==
  ASSUME NEW s \in Seq(Frame), s # <<>>
  PROVE  /\ Head(s) \in Frame /\ Head(s) \in Elements(s)
         /\ Elements(Tail(s)) \subseteq Elements(s)
         /\ Sorted(s) => Sorted(Tail(s)) /\ Earlier({Head(s)}, Elements(Tail(s)))
<1> DEFINE n == Len(s) - 1
           t == Tail(s)
<1>1. /\ n \in Nat /\ Len(s) = n + 1 /\ Len(t) = n
      /\ \A i \in 1 .. n : t[i] = s[i + 1]
      /\ Head(s) = s[1] /\ Head(s) \in Frame
  <2>1. Len(s) \in Nat /\ Len(s) # 0
    OBVIOUS
  <2>2. Len(t) = Len(s) - 1 /\ \A i \in 1 .. Len(t) : t[i] = s[i + 1]
    BY HeadTailProperties
  <2> QED
    BY <2>1, <2>2
<1> HIDE DEF t, n
<1>2. /\ 1 \in 1 .. (n + 1)
      /\ \A i \in 1 .. n : i + 1 \in 1 .. (n + 1) /\ 1 < i + 1
  BY <1>1
<1>3. Head(s) \in Elements(s)
  BY <1>1, <1>2 DEF Elements
<1>4. Elements(t) \subseteq Elements(s)
  BY <1>1, <1>2 DEF Elements
<1>5. ASSUME Sorted(s)
      PROVE  Sorted(t) /\ Earlier({Head(s)}, Elements(t))
  <2>1. Sorted(t)
    <3> SUFFICES ASSUME NEW i \in 1 .. n, NEW j \in 1 .. n,
                        i < j, t[i].via = t[j].via
                 PROVE  t[i].nr < t[j].nr
      BY <1>1 DEF Sorted
    <3>1. i + 1 \in 1 .. (n + 1) /\ j + 1 \in 1 .. (n + 1) /\ i + 1 < j + 1
      BY <1>1
    <3> QED
      BY <1>1, <1>5, <3>1, SMTT(40) DEF Sorted
  <2>2. Earlier({Head(s)}, Elements(t))
    BY <1>1, <1>2, <1>5 DEF Sorted, Earlier, Elements
  <2> QED
    BY <2>1, <2>2
<1> QED
  BY <1>1, <1>3, <1>4, <1>5 DEF t

(***************************************************************************)
(* The places and their order.                                             *)
(***************************************************************************)

InMain == {current} \ {NoFrame}

InLine(P, A, C, F, H) ==
  /\ Earlier(P, A \cup C \cup F \cup H)
  /\ Earlier(A, C \cup F \cup H)
  /\ Earlier(C, F \cup H)
  /\ Earlier(F, H)
  /\ \A e \in P \cup A \cup C \cup F \cup H : e.nr <= arrived

Ordered ==
  /\ Sorted(processed) /\ Sorted(Announced) /\ Sorted(frames)
  /\ InLine(Elements(processed), Elements(Announced), InMain, Elements(frames), held)

LEMMA ElementsAreFrames ==
  ASSUME NEW s \in Seq(Frame)
  PROVE  \A e \in Elements(s) : e \in Frame
  BY DEF Elements

LEMMA NumbersAreNaturals == \A e \in Frame : e.nr \in Nat
  BY PipelineAssumption DEF Frame, PipelineAssumption

LEMMA ArrivalOrdered ==
  ASSUME ReadTypes, QueueTypes, TicketsMatch, Ordered,
         NEW i \in 1 .. spawned, PcapNext(i)
  PROVE  Ordered'
<1>1. PICK f \in Frame : /\ f.nr = arrived + 1 /\ held' = held \cup {f}
                         /\ arrived' = arrived + 1 /\ arrived \in Nat
  <2>1. PICK t \in Traffic :
          held' = held \cup {[src |-> t.src, dst |-> t.dst, sock |-> t.sock,
                              via |-> i, nr |-> arrived + 1]}
    BY DEF PcapNext
  <2>2. arrived + 1 \in 1 .. MaxFrames /\ arrived \in Nat
    BY PipelineAssumption DEF PcapNext, ReadTypes, PipelineAssumption
  <2>3. i \in 1 .. MaxReaders
    BY DEF PcapNext
  <2>4. t.src \in Mac /\ t.dst \in Ip /\ t.sock \in Fd
    BY PipelineAssumption DEF PipelineAssumption
  <2> QED
    BY <2>1, <2>2, <2>3, <2>4 DEF Frame, PcapNext
<1>2. /\ Tickets' = Tickets /\ Announced' = Announced
      /\ UNCHANGED <<processed, frames, current>>
  BY DEF PcapNext, queueVars, Tickets, Announced
<1>3. \A e \in Elements(processed) \cup Elements(Announced) \cup InMain
               \cup Elements(frames) \cup held :
        e \in Frame /\ e.nr \in Nat /\ e.nr <= arrived
  BY ElementsAreFrames, NumbersAreNaturals, MatchedCovers
  DEF QueueTypes, ReadTypes, Ordered, InLine, InMain
<1> DEFINE P == Elements(processed)
           A == Elements(Announced)
           F == Elements(frames)
<1>4. P' = P /\ A' = A /\ F' = F /\ InMain' = InMain
  BY <1>2 DEF Elements, InMain
<1>5. Earlier(P, A \cup InMain \cup F \cup held) /\ Earlier(A, InMain \cup F \cup held)
      /\ Earlier(InMain, F \cup held) /\ Earlier(F, held)
  BY DEF Ordered, InLine
<1> HIDE DEF P, A, F
<1>6. \A e \in P \cup A \cup InMain \cup F \cup held :
        e.nr \in Nat /\ e.nr <= arrived
  BY <1>3 DEF P, A, F
<1>7. /\ Earlier(P, A \cup InMain \cup F \cup held')
      /\ Earlier(A, InMain \cup F \cup held')
      /\ Earlier(InMain, F \cup held') /\ Earlier(F, held')
  BY <1>1, <1>5, <1>6 DEF Earlier
<1>8. \A e \in P \cup A \cup InMain \cup F \cup held' : e.nr <= arrived'
  BY <1>1, <1>6
<1> QED
  BY <1>2, <1>4, <1>7, <1>8 DEF Ordered, InLine, Sorted, P, A, F

LEMMA PushFrameOrdered ==
  ASSUME ReadTypes, QueueTypes, Ordered, NEW i \in 1 .. spawned, PushFrame(i)
  PROVE  Ordered'
<1>1. PICK f \in held : /\ f.via = i /\ held' = held \ {f}
                        /\ frames' = Append(frames, f)
                        /\ UNCHANGED <<arrived, processed, current>>
                        /\ UNCHANGED <<unsolved, serving, socketQueue>>
  BY DEF PushFrame
<1>2. f \in Frame /\ frames \in Seq(Frame) /\ \A g \in held : g.via = f.via => g = f
  BY DEF ReadTypes, QueueTypes
<1>3. Announced' = Announced
  BY <1>1 DEF Tickets, Announced
<1> DEFINE P == Elements(processed)
           A == Elements(Announced)
           F == Elements(frames)
<1>4. P' = P /\ A' = A /\ InMain' = InMain /\ F' = F \cup {f}
  BY <1>1, <1>2, <1>3, AppendSorted DEF Elements, InMain
<1>5. InLine(P, A, InMain, F, held)
  BY DEF Ordered
<1>6. Sorted(frames')
  <2>1. Earlier(F, {f}) /\ Sorted(frames)
    BY <1>5 DEF InLine, Earlier, Ordered
  <2> QED
    BY <1>1, <1>2, <2>1, AppendSorted
<1> HIDE DEF P, A, F
<1>7. InLine(P, A, InMain, F \cup {f}, held \ {f})
  BY <1>2, <1>5 DEF InLine, Earlier
<1>8. InLine(P, A, InMain, F \cup {f}, held \ {f})'
  BY <1>1, <1>4, <1>7, Zenon DEF InLine
<1> QED
  BY <1>1, <1>3, <1>4, <1>6, <1>7, ZenonT(40) DEF Ordered, InLine, Sorted, P, A, F

\* main takes a frame, and drops it or queues its segment.
LEMMA PopFrameOrdered ==
  ASSUME QueueTypes, Ordered, PopFrame
  PROVE  Ordered'
<1>1. /\ frames # <<>> /\ frames \in Seq(Frame) /\ frames' = Tail(frames)
      /\ current' \in {Head(frames), NoFrame} /\ Head(frames) \in Frame
      /\ UNCHANGED <<arrived, processed, held>>
      /\ UNCHANGED <<unsolved, serving, socketQueue>>
  BY DEF PopFrame, QueueTypes, readVars
<1>2. Announced' = Announced
  BY <1>1 DEF Tickets, Announced
<1> DEFINE P == Elements(processed)
           A == Elements(Announced)
           F == Elements(frames)
           F2 == Elements(Tail(frames))
           x == Head(frames)
<1>3. /\ Sorted(frames) /\ InLine(P, A, InMain, F, held)
  BY DEF Ordered
<1>4. x \in F /\ F2 \subseteq F /\ Sorted(Tail(frames)) /\ Earlier({x}, F2)
  BY <1>1, <1>3, TailSorted, Zenon
<1>5. /\ P' = P /\ A' = A /\ F' = F2 /\ InMain' \subseteq {x}
  BY <1>1, <1>2 DEF Elements, InMain
<1> HIDE DEF P, A, F, F2, x
<1>6. \A C : C \subseteq {x} => InLine(P, A, C, F2, held)
  BY <1>3, <1>4 DEF InLine, Earlier
<1>7. InLine(P, A, InMain', F2, held)
  BY <1>5, <1>6
<1> QED
  BY <1>1, <1>2, <1>4, <1>5, <1>7, ZenonT(40) DEF Ordered, InLine, Sorted, P, A, F

\* main announces the segment it holds.
LEMMA PushTicketOrdered ==
  ASSUME QueueTypes, QueueTypes', NoFd \notin Fd, Matched, Ordered, PushTicket
  PROVE  Ordered'
<1>1. /\ current \in Frame /\ current' = NoFrame
      /\ Announced' = Append(Announced, current) /\ Announced \in Seq(Frame)
      /\ UNCHANGED <<arrived, processed, held, frames>>
  BY PushTicketPuts, MatchedCovers, Zenon DEF PushTicket, Fifo!Put, readVars, Matched
<1> DEFINE P == Elements(processed)
           A == Elements(Announced)
           F == Elements(frames)
<1>2. InMain = {current} /\ InMain' = {}
  BY <1>1, NoFrameIsNone DEF InMain
<1>3. Sorted(Announced) /\ InLine(P, A, {current}, F, held)
  BY <1>2 DEF Ordered
<1>4. P' = P /\ F' = F /\ A' = A \cup {current}
  BY <1>1, AppendSorted DEF Elements
<1>5. Sorted(Announced')
  <2>1. Earlier(A, {current})
    BY <1>3 DEF InLine, Earlier
  <2> QED
    BY <1>1, <1>3, <2>1, AppendSorted
<1> HIDE DEF P, A, F
<1>6. InLine(P, A \cup {current}, {}, F, held)
  BY <1>3 DEF InLine, Earlier
<1> QED
  BY <1>1, <1>2, <1>4, <1>5, <1>6, SMTT(40) DEF Ordered, InLine, Sorted, P, A, F

\* processip reads the first announced segment.
LEMMA ReadOrdered ==
  ASSUME QueueTypes, QueueTypes', NoFd \notin Fd, Matched, Ordered, ReadIPPacket
  PROVE  Ordered'
<1> DEFINE x == Head(Announced)
           P == Elements(processed)
           A == Elements(Announced)
           A2 == Elements(Tail(Announced))
           F == Elements(frames)
<1>1. /\ Announced # <<>> /\ Announced \in Seq(Frame) /\ processed \in Seq(Frame)
      /\ Announced' = Tail(Announced) /\ processed' = Append(processed, x)
      /\ UNCHANGED <<arrived, current, held, frames>>
  BY ReadTakes, MatchedCovers DEF ReadIPPacket, Fifo!Take, readVars, Matched, QueueTypes
<1>2. /\ Sorted(processed) /\ Sorted(Announced) /\ InLine(P, A, InMain, F, held)
  BY DEF Ordered
<1>3. /\ x \in Frame /\ x \in A /\ A2 \subseteq A
      /\ Sorted(Tail(Announced)) /\ Earlier({x}, A2)
  BY <1>1, <1>2, TailSorted, Zenon
<1>4. P' = P \cup {x} /\ A' = A2 /\ F' = F /\ InMain' = InMain
  <2>1. Elements(processed') = Elements(processed) \cup {x}
    BY <1>1, <1>3, AppendSorted, Zenon
  <2>2. P' = Elements(processed') /\ A' = Elements(Announced') /\ F' = Elements(frames')
        /\ InMain' = InMain
    BY <1>1 DEF Elements, InMain
  <2> QED
    BY <1>1, <2>1, <2>2
<1>5. Sorted(processed')
  <2>1. Earlier(P, {x})
    BY <1>2, <1>3 DEF InLine, Earlier
  <2> QED
    BY <1>1, <1>2, <1>3, <2>1, AppendSorted
<1> HIDE DEF P, A, A2, F, x
<1>6. InLine(P \cup {x}, A2, InMain, F, held)
  BY <1>2, <1>3 DEF InLine, Earlier
<1> QED
  BY <1>1, <1>3, <1>4, <1>5, <1>6, ZenonT(40) DEF Ordered, InLine, Sorted, P, A, F

LEMMA StepOrdered ==
  ASSUME TypeInv, TypeInv', Matched, Ordered, [Next]_vars
  PROVE  Ordered'
<1>1. ReadTypes /\ QueueTypes /\ QueueTypes' /\ NoFd \notin Fd /\ TicketsMatch
  BY TypeParts, PipelineAssumption, Zenon
  DEF TypeInv, PipelineTypeOK, ReadTypes, QueueTypes, PipelineAssumption, Matched
<1>2. ASSUME Announced' = Announced,
             UNCHANGED <<arrived, held, frames, current, processed>>
      PROVE  Ordered'
  <2>1. InMain' = InMain
    BY <1>2 DEF InMain
  <2> QED
    BY <1>2, <2>1 DEF Ordered, InLine, Sorted, Elements
<1>3. CASE PushPacket \/ PopTicket
  BY <1>1, <1>2, <1>3, OthersStutter, Zenon DEF PushPacket, PopTicket, Fifo!vars, readVars
<1>4. CASE SetUp \/ Spawn \/ Work \/ UNCHANGED vars
  <2>1. UNCHANGED <<arrived, held, queueVars>>
    BY <1>4 DEF SetUp, Spawn, Work, readVars, vars
  <2>2. Announced' = Announced
    BY <2>1 DEF queueVars, Tickets, Announced
  <2> QED
    BY <1>2, <2>1, <2>2 DEF queueVars
<1>5. ASSUME NEW i \in 1 .. spawned, Reader(i) PROVE Ordered'
  BY <1>1, <1>5, ArrivalOrdered, PushFrameOrdered DEF Reader
<1> QED
  BY <1>1, <1>3, <1>4, <1>5, PopFrameOrdered, PushTicketOrdered, ReadOrdered
  DEF Next, Main, ProcessIPPacket, AtRest

LEMMA InitOrdered == Init => Ordered
<1> SUFFICES ASSUME Init PROVE Ordered
  OBVIOUS
<1>1. processed = <<>> /\ frames = <<>> /\ held = {} /\ InMain = {}
  BY DEF Init, InMain
<1>2. Announced = <<>>
  BY DEF Init, Tickets, Announced
<1>3. Elements(<<>>) = {} /\ Sorted(<<>>)
  BY DEF Elements, Sorted
<1> QED
  BY <1>1, <1>2, <1>3 DEF Ordered, InLine, Earlier

\* Whatever the number of devices and sockets and the capacities of the
\* queues, a segment never overtakes another that came before it by the same
\* device, and none is read twice.
THEOREM DevicesStayInOrder == Spec => []InOrderPerDevice
<1>1. TypeInv /\ Ordered => InOrderPerDevice
  <2> SUFFICES ASSUME TypeInv, Ordered PROVE InOrderPerDevice
    OBVIOUS
  <2>1. DOMAIN processed = 1 .. Len(processed)
    BY DEF TypeInv, PipelineTypeOK
  <2> QED
    BY <2>1 DEF Ordered, Sorted, InOrderPerDevice
<1>2. TypeInv /\ Matched /\ Ordered /\ [Next]_vars => (TypeInv /\ Matched /\ Ordered)'
  BY StepTyped, QueuesMatched, StepOrdered
<1>3. Init => TypeInv /\ Matched /\ Ordered
  BY InitTyped, InitMatched, InitOrdered
<1> QED
  BY <1>1, <1>2, <1>3, PTL DEF Spec
=============================================================================
