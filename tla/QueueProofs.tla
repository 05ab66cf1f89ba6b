---------------------------- MODULE QueueProofs ----------------------------
(***************************************************************************)
(* Proofs about BlockingQueue for all producers, consumers and capacities: *)
(* the ring is well formed, no wakeup is lost, and the ring delivers items *)
(* once and in order (it implements BoundedFifo).                          *)
(***************************************************************************)
EXTENDS BlockingQueue, FiniteSetTheorems, SequenceTheorems, TLAPS

(***************************************************************************)
(* The arithmetic of the ring.                                             *)
(***************************************************************************)

LEMMA ModSmall ==
  ASSUME NEW P \in Nat \ {0}, NEW a \in 0 .. (P - 1)
  PROVE  a % P = a
  OBVIOUS

LEMMA ModOnce ==
  ASSUME NEW P \in Nat \ {0}, NEW a \in P .. (2 * P - 1)
  PROVE  a % P = a - P
  OBVIOUS

\* The indices, the number of items and the two tests of the code.
LEMMA Ring ==
  ASSUME start \in 0 .. Capacity, end \in 0 .. Capacity
  PROVE  /\ Places \in Nat \ {0} /\ Capacity \in Nat /\ Places = Capacity + 1
         /\ Count \in 0 .. Capacity
         /\ IsEmpty <=> Count = 0
         /\ IsFull <=> Count = Capacity
         /\ (end + 1) % Places = IF end = Capacity THEN 0 ELSE end + 1
         /\ (start + 1) % Places = IF start = Capacity THEN 0 ELSE start + 1
         /\ \A i \in 1 .. Places : PlaceOf(i) \in 0 .. Capacity
<1>1. Capacity \in Nat \ {0} /\ Places = Capacity + 1 /\ Places \in Nat \ {0}
  BY QueueAssumption DEF QueueAssumption, Places
<1>2. Count \in 0 .. Capacity
  BY <1>1 DEF Count
<1>3. IsEmpty <=> Count = 0
  BY <1>1 DEF Count, IsEmpty
<1>4. \A a \in 0 .. Capacity :
        (a + 1) % Places = IF a = Capacity THEN 0 ELSE a + 1
  <2> TAKE a \in 0 .. Capacity
  <2>1. CASE a = Capacity
    <3>1. a + 1 \in Places .. (2 * Places - 1)
      BY <1>1, <2>1
    <3>2. (a + 1) % Places = a + 1 - Places
      BY <1>1, <3>1, ModOnce
    <3> QED
      BY <1>1, <2>1, <3>2
  <2>2. CASE a # Capacity
    <3>1. a + 1 \in 0 .. (Places - 1)
      BY <1>1, <2>2
    <3>2. (a + 1) % Places = a + 1
      BY <1>1, <3>1, ModSmall
    <3> QED
      BY <2>2, <3>2
  <2> QED
    BY <2>1, <2>2
<1>5. IsFull <=> Count = Capacity
  <2> DEFINE a == start + Capacity - end
  <2>1. CASE a <= Capacity
    <3>1. a \in 0 .. (Places - 1)
      BY <1>1, <2>1
    <3>2. a % Places = a
      BY <1>1, <3>1, ModSmall
    <3> QED
      BY <1>1, <2>1, <3>2 DEF IsFull, Count
  <2>2. CASE a > Capacity
    <3>1. a \in Places .. (2 * Places - 1)
      BY <1>1, <2>2
    <3>2. a % Places = a - Places
      BY <1>1, <3>1, ModOnce
    <3> QED
      BY <1>1, <2>2, <3>2 DEF IsFull, Count
  <2> QED
    BY <1>1, <2>1, <2>2
<1>6. \A i \in 1 .. Places : PlaceOf(i) \in 0 .. Capacity
  BY <1>1 DEF PlaceOf
<1> QED
  BY <1>1, <1>2, <1>3, <1>4, <1>5, <1>6

\* A push fills the place after the last item and moves no other.
LEMMA RingPush ==
  ASSUME TypeOK, NEW p \in Producer, Push(p)
  PROVE  /\ end' \in 0 .. Capacity
         /\ Count' = Count + 1
         /\ \A i \in 1 .. Count' : PlaceOf(i)' = PlaceOf(i)
         /\ \A i \in 1 .. Count : PlaceOf(i) # end
         /\ PlaceOf(Count + 1) = end
<1>1. /\ start \in 0 .. Capacity /\ end \in 0 .. Capacity /\ start' = start
      /\ end' = (end + 1) % Places /\ ~IsFull
  BY DEF TypeOK, Push
<1>2. /\ end' = IF end = Capacity THEN 0 ELSE end + 1
      /\ Places = Capacity + 1 /\ Capacity \in Nat
      /\ Count # Capacity
  BY <1>1, Ring
<1> QED
  BY <1>1, <1>2 DEF Count, PlaceOf, Places

\* A pop takes the first place, and the second becomes the first.
LEMMA RingPop ==
  ASSUME TypeOK, NEW c \in Consumer, Pop(c)
  PROVE  /\ start' \in 0 .. Capacity
         /\ Count' = Count - 1 /\ Count \in 1 .. Capacity
         /\ \A i \in 1 .. Count' : PlaceOf(i)' = PlaceOf(i + 1)
         /\ PlaceOf(1) = start
<1>1. /\ start \in 0 .. Capacity /\ end \in 0 .. Capacity /\ end' = end
      /\ start' = (start + 1) % Places /\ ~IsEmpty
  BY DEF TypeOK, Pop
<1>2. /\ start' = IF start = Capacity THEN 0 ELSE start + 1
      /\ Places = Capacity + 1 /\ Capacity \in Nat
      /\ Count # 0 /\ Count \in 0 .. Capacity
  BY <1>1, Ring
<1> QED
  BY <1>1, <1>2 DEF Count, PlaceOf, Places

(***************************************************************************)
(* Type correctness.                                                       *)
(***************************************************************************)

\* What notify_one() wakes was asleep.
LEMMA OneOfAsleep ==
  ASSUME NEW S, NEW w \in OneOf(S)
  PROVE  /\ w \subseteq S
         /\ S # {} => \E t \in S : w = {t}
         /\ S = {} => w = {}
  BY DEF OneOf

LEMMA InitType ==
  ASSUME Init
  PROVE  TypeOK
<1>1. Capacity \in Nat /\ Pushes \in Nat
  BY QueueAssumption DEF QueueAssumption
<1>2. Count = 0
  BY DEF Init, Count
<1>3. popped \in Seq(Item)
  BY DEF Init
<1> QED
  BY <1>1, <1>2, <1>3 DEF Init, TypeOK

LEMMA StepType ==
  ASSUME TypeOK, [Next]_vars
  PROVE  TypeOK'
<1> USE QueueAssumption DEF QueueAssumption
<1>1. CASE UNCHANGED vars
  BY <1>1 DEF vars, TypeOK, Count, PlaceOf
<1>2. ASSUME NEW p \in Producer, PushWait(p) PROVE TypeOK'
  BY <1>2 DEF PushWait, WantsToPush, TypeOK, Count, PlaceOf
<1>3. ASSUME NEW p \in Producer, Push(p) PROVE TypeOK'
  <2> DEFINE e == [by |-> p, nr |-> pushed[p] + 1]
  <2>1. pushed[p] \in 0 .. Pushes /\ pushed[p] < Pushes
    BY <1>3 DEF Push, WantsToPush, TypeOK
  <2>2. e \in Item
    BY <2>1 DEF Item
  <2>3. PICK w \in OneOf(notEmpty) :
          notEmpty' = notEmpty \ w /\ woken' = (woken \ {p}) \cup w
    BY <1>3 DEF Push
  <2>4. w \subseteq notEmpty
    BY <2>3, OneOfAsleep
  <2>5. /\ notFull' \subseteq Producer /\ notEmpty' \subseteq Consumer
        /\ woken' \subseteq Producer \cup Consumer
        /\ woken' \cap (notFull' \cup notEmpty') = {}
    BY <1>3, <2>3, <2>4 DEF Push, TypeOK
  <2>6. start' \in 0 .. Capacity /\ end' \in 0 .. Capacity
    BY <1>3, RingPush, Zenon DEF Push, TypeOK
  <2>7. vt' = [vt EXCEPT ![end] = e] /\ pushed' = [pushed EXCEPT ![p] = @ + 1]
    BY <1>3 DEF Push
  <2>8. pushed' \in [Producer -> 0 .. Pushes]
    BY <2>1, <2>7 DEF TypeOK
  <2>9. vt' \in [0 .. Capacity -> Item \cup {NoItem}]
    <3> HIDE DEF e
    <3> QED
      BY <2>2, <2>7 DEF TypeOK
  <2>10. \A i \in 1 .. Count' : vt'[PlaceOf(i)'] \in Item
    <3> TAKE i \in 1 .. Count'
    <3>1. Count \in 0 .. Capacity /\ Count' = Count + 1 /\ PlaceOf(i)' = PlaceOf(i)
      BY <1>3, RingPush, Ring, Zenon DEF TypeOK
    <3>2. CASE i = Count + 1
      <4>1. PlaceOf(i) = end /\ end \in 0 .. Capacity
        BY <1>3, <3>2, RingPush DEF TypeOK
      <4>2. vt'[end] = e
        BY <2>7, <4>1 DEF TypeOK
      <4> QED
        BY <2>2, <3>1, <4>1, <4>2
    <3>3. CASE i # Count + 1
      <4>1. i \in 1 .. Count
        BY <3>1, <3>3
      <4>2. PlaceOf(i) # end /\ PlaceOf(i) \in 0 .. Capacity
        BY <1>3, <3>1, <4>1, RingPush, Ring, SMTT(40) DEF TypeOK
      <4>3. vt'[PlaceOf(i)] = vt[PlaceOf(i)]
        BY <2>7, <4>2 DEF TypeOK
      <4> QED
        BY <3>1, <4>1, <4>3 DEF TypeOK
    <3> QED
      BY <3>2, <3>3
  <2>11. popped' \in Seq(Item)
    BY <1>3 DEF Push, TypeOK
  <2> QED
    BY <2>5, <2>6, <2>8, <2>9, <2>10, <2>11 DEF TypeOK
<1>4. ASSUME NEW c \in Consumer, PopWait(c) PROVE TypeOK'
  BY <1>4 DEF PopWait, TypeOK, Count, PlaceOf
<1>5. ASSUME NEW c \in Consumer, Pop(c) PROVE TypeOK'
  <2>1. PICK w \in OneOf(notFull) :
          notFull' = notFull \ w /\ woken' = (woken \ {c}) \cup w
    BY <1>5 DEF Pop
  <2>2. w \subseteq notFull
    BY <2>1, OneOfAsleep
  <2>3. /\ notFull' \subseteq Producer /\ notEmpty' \subseteq Consumer
        /\ woken' \subseteq Producer \cup Consumer
        /\ woken' \cap (notFull' \cup notEmpty') = {}
    BY <1>5, <2>1, <2>2 DEF Pop, TypeOK
  <2>4. Count \in 1 .. Capacity /\ PlaceOf(1) = start /\ Count' = Count - 1
    BY <1>5, RingPop
  <2>5. vt[start] \in Item
    BY <2>4 DEF TypeOK
  <2>6. popped' \in Seq(Item)
    BY <1>5, <2>5 DEF Pop, TypeOK
  <2>7. \A i \in 1 .. Count' : vt'[PlaceOf(i)'] \in Item
    <3> TAKE i \in 1 .. Count'
    <3>1. PlaceOf(i)' = PlaceOf(i + 1) /\ i + 1 \in 1 .. Count
      BY <1>5, <2>4, RingPop
    <3>2. vt' = vt
      BY <1>5 DEF Pop
    <3> QED
      BY <3>1, <3>2 DEF TypeOK
  <2>8. start' \in 0 .. Capacity
    BY <1>5, RingPop
  <2> QED
    BY <1>5, <2>3, <2>6, <2>7, <2>8 DEF Pop, TypeOK
<1>6. ASSUME NEW t \in Producer \cup Consumer, SpuriousWakeup(t) PROVE TypeOK'
  BY <1>6 DEF SpuriousWakeup, TypeOK, Count, PlaceOf
<1> QED
  BY <1>1, <1>2, <1>3, <1>4, <1>5, <1>6 DEF Next

\* The ring's indices, places and threads are always well formed.
THEOREM QueueTypeCorrect == Spec => []TypeOK
<1>1. Init => TypeOK
  BY InitType
<1>2. TypeOK /\ [Next]_vars => TypeOK'
  BY StepType
<1> QED
  BY <1>1, <1>2, PTL DEF Spec
-----------------------------------------------------------------------------
(***************************************************************************)
(* No wakeup is lost.                                                      *)
(***************************************************************************)

Consumers == woken \cap Consumer
Producers == woken \cap Producer

LEMMA WokenFinite ==
  /\ IsFiniteSet(Consumers) /\ IsFiniteSet(Producers)
  /\ Cardinality(Consumers) \in Nat /\ Cardinality(Producers) \in Nat
<1>1. IsFiniteSet(Consumers) /\ IsFiniteSet(Producers)
  BY QueueAssumption, FS_Intersection DEF QueueAssumption, Consumers, Producers
<1> QED
  BY <1>1, FS_CardinalityType

\* The step of a thread that has the mutex: it stops being one of the woken,
\* and the thread it notifies becomes one.
LEMMA WokenStep ==
  ASSUME NEW S, IsFiniteSet(S), NEW t
  PROVE  /\ IsFiniteSet(S \ {t}) /\ IsFiniteSet(S \cup {t})
         /\ Cardinality(S \ {t}) \in Nat /\ Cardinality(S \cup {t}) \in Nat
         /\ Cardinality(S) <= Cardinality(S \ {t}) + 1
         /\ Cardinality(S) <= Cardinality(S \cup {t})
         /\ t \notin S => Cardinality(S \cup {t}) = Cardinality(S) + 1
<1>1. /\ IsFiniteSet(S \ {t}) /\ IsFiniteSet(S \cup {t})
      /\ Cardinality(S \ {t}) =
           IF t \in S THEN Cardinality(S) - 1 ELSE Cardinality(S)
      /\ Cardinality(S \cup {t}) =
           IF t \in S THEN Cardinality(S) ELSE Cardinality(S) + 1
  BY FS_RemoveElement, FS_AddElement
<1>2. /\ Cardinality(S) \in Nat /\ Cardinality(S \ {t}) \in Nat
      /\ Cardinality(S \cup {t}) \in Nat
  BY <1>1, FS_CardinalityType
<1> QED
  BY <1>1, <1>2

\* A push wakes a consumer for its item and takes one free place.
LEMMA PushWakes ==
  ASSUME TypeOK, NoLostWakeup, NEW p \in Producer, Push(p)
  PROVE  NoLostWakeup'
<1>1. PICK w \in OneOf(notEmpty) :
        notEmpty' = notEmpty \ w /\ woken' = (woken \ {p}) \cup w
  BY DEF Push
<1>2. w \subseteq notEmpty /\ w \subseteq Consumer
  BY <1>1, OneOfAsleep DEF TypeOK
<1>3. Count' = Count + 1 /\ Count \in 0 .. Capacity /\ notFull' = notFull
      /\ Capacity \in Nat
  BY RingPush, Ring, QueueAssumption, Zenon DEF TypeOK, Push, QueueAssumption
<1>4. notEmpty' # {} => Count' <= Cardinality(Consumers')
  <2> SUFFICES ASSUME notEmpty' # {} PROVE Count' <= Cardinality(Consumers')
    OBVIOUS
  <2>1. notEmpty # {}
    BY <1>1
  <2>2. PICK t \in notEmpty : w = {t}
    BY <1>1, <2>1, OneOfAsleep
  <2>3. t \notin Consumers
    BY <2>2 DEF TypeOK, Consumers
  <2>4. Consumers' = Consumers \cup {t}
    BY <1>1, <1>2, <2>2, QueueAssumption DEF Consumers, QueueAssumption
  <2>5. Cardinality(Consumers') = Cardinality(Consumers) + 1
    BY <2>3, <2>4, WokenFinite, WokenStep
  <2>6. Count <= Cardinality(Consumers)
    BY <2>1 DEF NoLostWakeup, Consumers
  <2> QED
    BY <1>3, <2>5, <2>6, WokenFinite
<1>5. notFull' # {} => Capacity - Count' <= Cardinality(Producers')
  <2> SUFFICES ASSUME notFull # {}
               PROVE  Capacity - Count' <= Cardinality(Producers')
    BY <1>3
  <2>1. Producers' = Producers \ {p}
    BY <1>1, <1>2, QueueAssumption DEF Producers, QueueAssumption
  <2>2. /\ Cardinality(Producers) <= Cardinality(Producers') + 1
        /\ Cardinality(Producers') \in Nat
    BY <2>1, WokenFinite, WokenStep, Zenon
  <2>3. Capacity - Count <= Cardinality(Producers)
    BY DEF NoLostWakeup, Producers
  <2> QED
    BY <1>3, <2>2, <2>3, WokenFinite
<1> QED
  BY <1>4, <1>5 DEF NoLostWakeup, Consumers, Producers

\* A pop wakes a producer for the place it frees and takes one item.
LEMMA PopWakes ==
  ASSUME TypeOK, NoLostWakeup, NEW c \in Consumer, Pop(c)
  PROVE  NoLostWakeup'
<1>1. PICK w \in OneOf(notFull) :
        notFull' = notFull \ w /\ woken' = (woken \ {c}) \cup w
  BY DEF Pop
<1>2. w \subseteq notFull /\ w \subseteq Producer
  BY <1>1, OneOfAsleep DEF TypeOK
<1>3. Count' = Count - 1 /\ Count \in 1 .. Capacity /\ notEmpty' = notEmpty
      /\ Capacity \in Nat
  BY RingPop, QueueAssumption DEF Pop, QueueAssumption
<1>4. notFull' # {} => Capacity - Count' <= Cardinality(Producers')
  <2> SUFFICES ASSUME notFull' # {}
               PROVE  Capacity - Count' <= Cardinality(Producers')
    OBVIOUS
  <2>1. notFull # {}
    BY <1>1
  <2>2. PICK t \in notFull : w = {t}
    BY <1>1, <2>1, OneOfAsleep
  <2>3. t \notin Producers
    BY <2>2 DEF TypeOK, Producers
  <2>4. Producers' = Producers \cup {t}
    BY <1>1, <1>2, <2>2, QueueAssumption DEF Producers, QueueAssumption
  <2>5. Cardinality(Producers') = Cardinality(Producers) + 1
    BY <2>3, <2>4, WokenFinite, WokenStep
  <2>6. Capacity - Count <= Cardinality(Producers)
    BY <2>1 DEF NoLostWakeup, Producers
  <2> QED
    BY <1>3, <2>5, <2>6, WokenFinite
<1>5. notEmpty' # {} => Count' <= Cardinality(Consumers')
  <2> SUFFICES ASSUME notEmpty # {} PROVE Count' <= Cardinality(Consumers')
    BY <1>3
  <2>1. Consumers' = Consumers \ {c}
    BY <1>1, <1>2, QueueAssumption DEF Consumers, QueueAssumption
  <2>2. /\ Cardinality(Consumers) <= Cardinality(Consumers') + 1
        /\ Cardinality(Consumers') \in Nat
    BY <2>1, WokenFinite, WokenStep, Zenon
  <2>3. Count <= Cardinality(Consumers)
    BY DEF NoLostWakeup, Consumers
  <2> QED
    BY <1>3, <2>2, <2>3, WokenFinite
<1> QED
  BY <1>4, <1>5 DEF NoLostWakeup, Consumers, Producers

LEMMA WakeupStep ==
  ASSUME TypeOK, NoLostWakeup, [Next]_vars
  PROVE  NoLostWakeup'
<1>1. ASSUME UNCHANGED vars PROVE NoLostWakeup'
  BY <1>1 DEF vars, NoLostWakeup, Count
<1>2. ASSUME NEW p \in Producer, PushWait(p) PROVE NoLostWakeup'
  <2>1. /\ Count' = Count /\ Count = Capacity /\ Capacity \in Nat
        /\ notEmpty' = notEmpty /\ woken' = woken \ {p}
    BY <1>2, Ring, QueueAssumption
    DEF PushWait, TypeOK, Count, Places, QueueAssumption
  <2>2. Consumers' = Consumers /\ Producers' = Producers \ {p}
    BY <2>1, QueueAssumption DEF Consumers, Producers, QueueAssumption
  <2>3. Cardinality(Producers') \in Nat
    BY <2>2, WokenFinite, WokenStep, Zenon
  <2> QED
    BY <2>1, <2>2, <2>3 DEF NoLostWakeup, Consumers, Producers
<1>3. ASSUME NEW c \in Consumer, PopWait(c) PROVE NoLostWakeup'
  <2>1. /\ Count' = Count /\ Count = 0
        /\ notFull' = notFull /\ woken' = woken \ {c}
    BY <1>3, Ring DEF PopWait, TypeOK, Count, Places
  <2>2. Producers' = Producers /\ Consumers' = Consumers \ {c}
    BY <2>1, QueueAssumption DEF Consumers, Producers, QueueAssumption
  <2>3. Cardinality(Consumers') \in Nat
    BY <2>2, WokenFinite, WokenStep
  <2>4. Count' <= Cardinality(Consumers')
    BY <2>1, <2>3
  <2>5. notFull' # {} => Capacity - Count' <= Cardinality(Producers')
    BY <2>1, <2>2 DEF NoLostWakeup, Producers
  <2> QED
    BY <2>4, <2>5 DEF NoLostWakeup, Consumers, Producers
<1>4. ASSUME NEW t \in Producer \cup Consumer, SpuriousWakeup(t)
      PROVE  NoLostWakeup'
  <2>1. /\ Count' = Count /\ woken' = woken \cup {t}
        /\ Count \in 0 .. Capacity /\ Capacity \in Nat
        /\ notFull' \subseteq notFull /\ notEmpty' \subseteq notEmpty
    BY <1>4, Ring, QueueAssumption
    DEF SpuriousWakeup, TypeOK, Count, QueueAssumption
  <2>2. /\ Consumers' = Consumers \/ Consumers' = Consumers \cup {t}
        /\ Producers' = Producers \/ Producers' = Producers \cup {t}
    BY <2>1 DEF Consumers, Producers
  <2>3. /\ Cardinality(Consumers) <= Cardinality(Consumers')
        /\ Cardinality(Producers) <= Cardinality(Producers')
        /\ Cardinality(Consumers') \in Nat /\ Cardinality(Producers') \in Nat
    <3>1. /\ Cardinality(Consumers) <= Cardinality(Consumers \cup {t})
          /\ Cardinality(Consumers \cup {t}) \in Nat
      BY WokenFinite, WokenStep, Zenon
    <3>2. /\ Cardinality(Producers) <= Cardinality(Producers \cup {t})
          /\ Cardinality(Producers \cup {t}) \in Nat
      BY WokenFinite, WokenStep, Zenon
    <3>3. /\ Cardinality(Consumers) <= Cardinality(Consumers)
          /\ Cardinality(Producers) <= Cardinality(Producers)
      BY WokenFinite
    <3> QED
      BY <2>2, <3>1, <3>2, <3>3, WokenFinite, Zenon
  <2> QED
    BY <2>1, <2>3, WokenFinite DEF NoLostWakeup, Consumers, Producers
<1> QED
  BY <1>1, <1>2, <1>3, <1>4, PushWakes, PopWakes DEF Next

\* While a thread sleeps, a woken one is on its way for every item inside
\* (or for every free place).
THEOREM WakeupsKept == Spec => []NoLostWakeup
<1>1. Init => NoLostWakeup
  BY DEF Init, NoLostWakeup
<1>2. TypeOK /\ NoLostWakeup /\ [Next]_vars => NoLostWakeup'
  BY WakeupStep
<1> QED
  BY <1>1, <1>2, QueueTypeCorrect, PTL DEF Spec
-----------------------------------------------------------------------------
(***************************************************************************)
(* The ring implements BoundedFifo.                                        *)
(***************************************************************************)

LEMMA ContentType ==
  ASSUME TypeOK
  PROVE  /\ Content \in Seq(Item)
         /\ Len(Content) = Count
         /\ DOMAIN Content = 1 .. Count
         /\ Count \in 0 .. Capacity /\ Capacity \in Nat
         /\ \A i \in 1 .. Count : Content[i] = vt[PlaceOf(i)]
<1>1. Count \in 0 .. Capacity /\ Capacity \in Nat
  BY Ring DEF TypeOK
<1>2. Content \in [1 .. Count -> Item]
  BY <1>1 DEF Content, TypeOK
<1>3. Content \in Seq(Item) /\ Len(Content) = Count /\ DOMAIN Content = 1 .. Count
  BY <1>1, <1>2
<1> QED
  BY <1>1, <1>3 DEF Content

LEMMA ContentNext ==
  ASSUME TypeOK', NEW n \in Nat, Count' = n
  PROVE  /\ Content' \in Seq(Item)
         /\ Len(Content') = n
         /\ \A i \in 1 .. n : Content'[i] = vt'[PlaceOf(i)']
<1>1. Content' \in [1 .. n -> Item]
  BY DEF Content, TypeOK
<1>2. Content' \in Seq(Item) /\ Len(Content') = n
  BY <1>1
<1> QED
  BY <1>2 DEF Content

LEMMA PushPuts ==
  ASSUME TypeOK, TypeOK', NEW p \in Producer, Push(p)
  PROVE  \E e \in Item : Fifo!Put(e)
<1> DEFINE e == [by |-> p, nr |-> pushed[p] + 1]
<1>1. pushed[p] \in 0 .. Pushes /\ pushed[p] < Pushes /\ Pushes \in Nat
  BY QueueAssumption DEF Push, WantsToPush, TypeOK, QueueAssumption
<1>2. e \in Item
  BY <1>1 DEF Item
<1>3. vt' = [vt EXCEPT ![end] = e] /\ ~IsFull /\ popped' = popped
  BY DEF Push
<1> HIDE DEF e
<1>4. Len(Content) < Capacity
  BY <1>3, ContentType, Ring, SMTT(40) DEF TypeOK
<1>5. Content' = Append(Content, e)
  <2>1. /\ Content' \in Seq(Item) /\ Len(Content') = Count + 1
        /\ \A i \in 1 .. (Count + 1) : Content'[i] = vt'[PlaceOf(i)]
    <3>1. Count + 1 \in Nat /\ Count' = Count + 1
      BY ContentType, RingPush
    <3>2. /\ Content' \in Seq(Item) /\ Len(Content') = Count + 1
          /\ \A i \in 1 .. (Count + 1) : Content'[i] = vt'[PlaceOf(i)']
      BY <3>1, ContentNext
    <3> QED
      BY <3>1, <3>2, RingPush
  <2>2. /\ Append(Content, e) \in Seq(Item)
        /\ Len(Append(Content, e)) = Count + 1
        /\ \A i \in 1 .. Count : Append(Content, e)[i] = vt[PlaceOf(i)]
        /\ Append(Content, e)[Count + 1] = e
    BY <1>2, ContentType, AppendProperties
  <2>3. \A i \in 1 .. Count : Content'[i] = vt[PlaceOf(i)]
    <3> TAKE i \in 1 .. Count
    <3>1. Count \in 0 .. Capacity /\ PlaceOf(i) # end /\ i \in 1 .. Places
      BY ContentType, RingPush DEF Places
    <3>2. PlaceOf(i) \in 0 .. Capacity
      BY <3>1, Ring DEF TypeOK
    <3>3. vt'[PlaceOf(i)] = vt[PlaceOf(i)]
      BY <1>3, <3>1, <3>2 DEF TypeOK
    <3>4. i \in 1 .. (Count + 1)
      BY <3>1
    <3> QED
      BY <2>1, <3>3, <3>4
  <2>4. Content'[Count + 1] = e
    <3>1. Count + 1 \in 1 .. (Count + 1)
      BY ContentType
    <3>2. PlaceOf(Count + 1) = end
      BY RingPush
    <3>3. vt'[end] = e
      BY <1>3 DEF TypeOK
    <3> QED
      BY <2>1, <3>1, <3>2, <3>3
  <2>5. \A i \in 1 .. (Count + 1) : Content'[i] = Append(Content, e)[i]
    <3>1. \A i \in 1 .. (Count + 1) : i \in 1 .. Count \/ i = Count + 1
      BY ContentType
    <3> QED
      BY <2>2, <2>3, <2>4, <3>1
  <2> QED
    BY <2>1, <2>2, <2>5, SeqEqual
<1> QED
  BY <1>2, <1>3, <1>4, <1>5 DEF Fifo!Put

LEMMA PopTakes ==
  ASSUME TypeOK, TypeOK', NEW c \in Consumer, Pop(c)
  PROVE  Fifo!Take
<1>1. Count \in 1 .. Capacity /\ Content # <<>>
  BY RingPop, ContentType
<1>2. Head(Content) = vt[start]
  BY <1>1, RingPop, ContentType
<1>3. Content' = Tail(Content)
  <2>1. /\ Content' \in Seq(Item) /\ Len(Content') = Count - 1
        /\ \A i \in 1 .. (Count - 1) : Content'[i] = vt[PlaceOf(i + 1)]
    <3>1. Count - 1 \in Nat /\ Count' = Count - 1
      BY <1>1, RingPop
    <3>2. /\ Content' \in Seq(Item) /\ Len(Content') = Count - 1
          /\ \A i \in 1 .. (Count - 1) : Content'[i] = vt'[PlaceOf(i)']
      BY <3>1, ContentNext
    <3>3. vt' = vt
      BY DEF Pop
    <3> QED
      BY <3>1, <3>2, <3>3, RingPop
  <2>2. /\ Tail(Content) \in Seq(Item) /\ Len(Tail(Content)) = Count - 1
        /\ \A i \in 1 .. (Count - 1) : Tail(Content)[i] = Content[i + 1]
    BY <1>1, ContentType, HeadTailProperties
  <2>3. \A i \in 1 .. (Count - 1) : Content[i + 1] = vt[PlaceOf(i + 1)]
    BY <1>1, ContentType
  <2> QED
    BY <2>1, <2>2, <2>3, SeqEqual
<1> QED
  BY <1>1, <1>2, <1>3 DEF Pop, Fifo!Take

\* Every behaviour of the ring is one of the bounded queue: items leave once,
\* in the order they came, and at most Capacity are inside.
THEOREM QueueImplementsFifo == Spec => ImplementsFifo
<1>1. Init => Fifo!Init
  <2>1. ASSUME Init PROVE Content = <<>>
    <3>1. TypeOK /\ Count = 0
      BY <2>1, InitType DEF Init, Count
    <3> QED
      BY <3>1, ContentType
  <2> QED
    BY <2>1 DEF Init, Fifo!Init
<1>2. TypeOK /\ TypeOK' /\ [Next]_vars => [Fifo!Next]_(Fifo!vars)
  <2> SUFFICES ASSUME TypeOK, TypeOK', [Next]_vars
               PROVE  [Fifo!Next]_(Fifo!vars)
    OBVIOUS
  <2>1. ASSUME UNCHANGED <<vt, start, end, popped>>
        PROVE  UNCHANGED Fifo!vars
    BY <2>1 DEF Fifo!vars, Content, Count, PlaceOf
  <2>2. ASSUME NEW p \in Producer, PushWait(p) \/ Push(p)
        PROVE  [Fifo!Next]_(Fifo!vars)
    BY <2>1, <2>2, PushPuts DEF PushWait, Fifo!Next
  <2>3. ASSUME NEW c \in Consumer, PopWait(c) \/ Pop(c)
        PROVE  [Fifo!Next]_(Fifo!vars)
    BY <2>1, <2>3, PopTakes DEF PopWait, Fifo!Next
  <2> QED
    BY <2>1, <2>2, <2>3 DEF Next, SpuriousWakeup, vars
<1> QED
  BY <1>1, <1>2, QueueTypeCorrect, PTL DEF Spec, ImplementsFifo, Fifo!Spec
=============================================================================
