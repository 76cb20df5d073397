SPECIFICATION FairSpec
CONSTANTS
  Tasks = {t1, t2}
  HeapPtrs = {h1, h2}
  PoolPtrs = {p1}
  RawPtrs = {r1}
  NoPtr = NoPtr
  Slots = 2
  PollLimit = 2
INVARIANTS
  TypeOK
  RingSound
  ExactlyOnce
  LossCounted
PROPERTIES
  KeepsQueue
  PollReturns
  QueuedFreed
