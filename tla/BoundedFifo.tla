---------------------------- MODULE BoundedFifo ----------------------------
(***************************************************************************)
(* What a queue between threads promises: what is put is delivered once,   *)
(* in the order it was put, and at most Capacity items are inside.         *)
(***************************************************************************)
EXTENDS Naturals, Sequences

CONSTANTS Item, Capacity

VARIABLES
  queued,      \* items inside, oldest first
  delivered    \* items taken out, in the order they were taken

vars == <<queued, delivered>>

Init == queued = <<>> /\ delivered = <<>>

Put(e) ==
  /\ Len(queued) < Capacity
  /\ queued' = Append(queued, e)
  /\ UNCHANGED delivered

Take ==
  /\ queued # <<>>
  /\ queued' = Tail(queued)
  /\ delivered' = Append(delivered, Head(queued))

Next == (\E e \in Item : Put(e)) \/ Take

Spec == Init /\ [][Next]_vars
=============================================================================
