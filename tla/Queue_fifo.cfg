SPECIFICATION FairSpec
CONSTANTS
  p1 = p1
  p2 = p2
  c1 = c1
  c2 = c2
  Producer <- MCProducer
  Consumer <- MCConsumer
  Capacity = 2
  Pushes = 3
INVARIANTS
  TypeOK
  NoLostWakeup
PROPERTIES
  ImplementsFifo
  AllDelivered
