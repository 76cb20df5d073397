SPECIFICATION MCSpec
CONSTANTS
  Objects = {a1}
  External = External
  Scratch = Scratch
  NoKey = NoKey
  Callbacks = {k1, k2}
  Tasks = {t1, t2}
  MaxArenas = 2
  MaxCallbacks = 2
  Divider = 2
  CounterWord = 8
  PhaseSets <- LightAndRest
  Bytes = {2, 3}
  Requests <- Blocks
  MaxDepth = 2
  Word = 16
  Workloads = {"registry", "blocks", "nested", "purges", "polls"}
SYMMETRY Symmetry
INVARIANTS
  ObjectsExact
  CollectExact
  ResetsCurrent
  BlocksInside
  BlocksApart
  GuardCadence
