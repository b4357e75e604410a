CONSTANTS
  p1 = p1
  p2 = p2
  c1 = c1
  c2 = c2
  Producers <- TwoProducers
  Consumers <- TwoConsumers
  NoThread = NoThread
  QUEUESIZE = 2
  WORK_MAX = 4
  HeapInts <- Zero
SPECIFICATION FairSpec
INVARIANTS TypeOK RingInv NoLostWakeup NoStall WorkDone
PROPERTIES ImplementsBuffer Termination
