-------------------------- MODULE MCBlockingQueue --------------------------
(* Two devices' threads and two consumers on a queue smaller than their    *)
(* traffic.                                                                *)
EXTENDS BlockingQueue, TLC

CONSTANTS p1, p2, c1, c2

MCProducer == {p1, p2}
MCConsumer == {c1, c2}
=============================================================================
