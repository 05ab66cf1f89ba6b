--------------------------- MODULE BlockingQueue ---------------------------
(***************************************************************************)
(* BlockingQueue<T> of src/include/utils.h: a ring of Capacity + 1 places  *)
(* behind a mutex, with a condition variable for each of "not full" and    *)
(* "not empty".  The receive path is built from three of them: the frames  *)
(* of all devices (one producer per device), the packets of each socket    *)
(* and unSolvedSocket.                                                     *)
(*                                                                         *)
(* push() and pop() hold the mutex except while they wait, so each pass    *)
(* through their loop is one action.                                       *)
(***************************************************************************)
EXTENDS Integers, FiniteSets, Sequences

CONSTANTS
  Producer,    \* threads that push
  Consumer,    \* threads that pop
  Capacity,    \* _capacity
  Pushes       \* bound: how many items each producer pushes

ASSUME QueueAssumption ==
  /\ IsFiniteSet(Producer) /\ IsFiniteSet(Consumer)
  /\ Producer \cap Consumer = {}
  /\ Capacity \in Nat \ {0}
  /\ Pushes \in Nat

Item == [by : Producer, nr : 1 .. Pushes]
NoItem == [by |-> "nobody", nr |-> 0]     \* a default-constructed place of _vt

VARIABLES
  vt,         \* _vt
  start,      \* _start
  end,        \* _end
  notFull,    \* threads asleep on _not_full
  notEmpty,   \* threads asleep on _not_empty
  woken,      \* threads that have left their sleep and want the mutex again
  pushed,     \* how many items each producer has pushed
  popped      \* the items popped so far (history)

vars == <<vt, start, end, notFull, notEmpty, woken, pushed, popped>>

Places == Capacity + 1
IsEmpty == end = start
IsFull == (start + Capacity - end) % Places = 0

Init ==
  /\ vt = [i \in 0 .. Capacity |-> NoItem]
  /\ start = 0 /\ end = 0
  /\ notFull = {} /\ notEmpty = {} /\ woken = {}
  /\ pushed = [p \in Producer |-> 0]
  /\ popped = <<>>

\* What notify_one() may wake of the threads asleep on a condition variable.
OneOf(asleep) == IF asleep = {} THEN {{}} ELSE {{t} : t \in asleep}

\* Producer p has the mutex and an item, for the first time or after a wait.
WantsToPush(p) == p \notin notFull /\ pushed[p] < Pushes

PushWait(p) ==
  /\ WantsToPush(p) /\ IsFull
  /\ notFull' = notFull \cup {p}
  /\ woken' = woken \ {p}
  /\ UNCHANGED <<vt, start, end, notEmpty, pushed, popped>>

\* Mutant: the end runs past the last place.
PushUnwrapped(p) ==
  /\ WantsToPush(p) /\ ~IsFull
  /\ vt' = [vt EXCEPT ![end] = [by |-> p, nr |-> pushed[p] + 1]]
  /\ end' = end + 1
  /\ pushed' = [pushed EXCEPT ![p] = @ + 1]
  /\ \E w \in OneOf(notEmpty) :
       /\ notEmpty' = notEmpty \ w
       /\ woken' = (woken \ {p}) \cup w
  /\ UNCHANGED <<start, notFull, popped>>

\* Mutant: only the push into an empty queue notifies.
PushNotifyOnce(p) ==
  /\ WantsToPush(p) /\ ~IsFull
  /\ vt' = [vt EXCEPT ![end] = [by |-> p, nr |-> pushed[p] + 1]]
  /\ end' = (end + 1) % Places
  /\ pushed' = [pushed EXCEPT ![p] = @ + 1]
  /\ \E w \in IF IsEmpty THEN OneOf(notEmpty) ELSE {{}} :
       /\ notEmpty' = notEmpty \ w
       /\ woken' = (woken \ {p}) \cup w
  /\ UNCHANGED <<start, notFull, popped>>

Push(p) ==
  /\ WantsToPush(p) /\ ~IsFull
  /\ vt' = [vt EXCEPT ![end] = [by |-> p, nr |-> pushed[p] + 1]]
  /\ end' = (end + 1) % Places
  /\ pushed' = [pushed EXCEPT ![p] = @ + 1]
  /\ \E w \in OneOf(notEmpty) :
       /\ notEmpty' = notEmpty \ w
       /\ woken' = (woken \ {p}) \cup w
  /\ UNCHANGED <<start, notFull, popped>>

PopWait(c) ==
  /\ c \notin notEmpty /\ IsEmpty
  /\ notEmpty' = notEmpty \cup {c}
  /\ woken' = woken \ {c}
  /\ UNCHANGED <<vt, start, end, notFull, pushed, popped>>

\* Mutant: a woken thread does not test again.
PopUntested(c) ==
  /\ c \notin notEmpty /\ (c \in woken \/ ~IsEmpty)
  /\ popped' = Append(popped, vt[start])
  /\ start' = (start + 1) % Places
  /\ \E w \in OneOf(notFull) :
       /\ notFull' = notFull \ w
       /\ woken' = (woken \ {c}) \cup w
  /\ UNCHANGED <<vt, end, notEmpty, pushed>>

\* Mutant: no producer is notified.
PopSilently(c) ==
  /\ c \notin notEmpty /\ ~IsEmpty
  /\ popped' = Append(popped, vt[start])
  /\ start' = (start + 1) % Places
  /\ woken' = woken \ {c}
  /\ UNCHANGED <<vt, end, notFull, notEmpty, pushed>>

Pop(c) ==
  /\ c \notin notEmpty /\ ~IsEmpty
  /\ popped' = Append(popped, vt[start])
  /\ start' = (start + 1) % Places
  /\ \E w \in OneOf(notFull) :
       /\ notFull' = notFull \ w
       /\ woken' = (woken \ {c}) \cup w
  /\ UNCHANGED <<vt, end, notEmpty, pushed>>

\* A condition variable may wake its waiter for no reason.
SpuriousWakeup(t) ==
  /\ t \in notFull \cup notEmpty
  /\ notFull' = notFull \ {t}
  /\ notEmpty' = notEmpty \ {t}
  /\ woken' = woken \cup {t}
  /\ UNCHANGED <<vt, start, end, pushed, popped>>

Next ==
  \/ \E p \in Producer : PushWait(p) \/ Push(p)
  \/ \E c \in Consumer : PopWait(c) \/ Pop(c)
  \/ \E t \in Producer \cup Consumer : SpuriousWakeup(t)

Spec == Init /\ [][Next]_vars

\* Every thread gets the mutex again and again.
Fairness ==
  /\ \A p \in Producer : WF_vars(PushWait(p) \/ Push(p))
  /\ \A c \in Consumer : WF_vars(PopWait(c) \/ Pop(c))

FairSpec == Spec /\ Fairness
-----------------------------------------------------------------------------
(* Properties. *)

Count == IF start <= end THEN end - start ELSE end - start + Places

\* The place of the i-th item inside.
PlaceOf(i) == IF start + i - 1 < Places THEN start + i - 1
              ELSE start + i - 1 - Places

Content == [i \in 1 .. Count |-> vt[PlaceOf(i)]]

\* The type invariant; the places between start and end hold items.
TypeOK ==
  /\ start \in 0 .. Capacity /\ end \in 0 .. Capacity
  /\ vt \in [0 .. Capacity -> Item \cup {NoItem}]
  /\ notFull \subseteq Producer /\ notEmpty \subseteq Consumer
  /\ woken \subseteq Producer \cup Consumer
  /\ woken \cap (notFull \cup notEmpty) = {}
  /\ pushed \in [Producer -> 0 .. Pushes]
  /\ popped \in Seq(Item)
  /\ \A i \in 1 .. Count : vt[PlaceOf(i)] \in Item

\* No wakeup is lost: while a consumer sleeps there is a woken one for every
\* item inside, and while a producer sleeps one for every free place.  It is
\* what makes notify_one() enough for any number of threads.
NoLostWakeup ==
  /\ notEmpty # {} => Count <= Cardinality(woken \cap Consumer)
  /\ notFull # {} => Capacity - Count <= Cardinality(woken \cap Producer)

\* The ring delivers what was pushed once and in order.
Fifo == INSTANCE BoundedFifo WITH queued <- Content, delivered <- popped
ImplementsFifo == Fifo!Spec

\* Everything pushed is popped: no set of threads sleeps on each other.
AllDelivered ==
  <>(Len(popped) = Pushes * Cardinality(Producer))
=============================================================================
