SPECIFICATION Spec
CONSTANTS
  Tasks = {t1}
  HeapPtrs = {h1}
  PoolPtrs = {p1}
  RawPtrs = {r1}
  NoPtr = NoPtr
  Slots = 2
  PollLimit = 1
INVARIANTS
  RawFreed
