SPECIFICATION Spec
CONSTANTS
  Cells = {c1, c2}
  NoCell = NoCell
  ForeignCell = ForeignCell
  Tasks = {t1, t2}
  NoTask = NoTask
  NoHeap = NoHeap
  Alignment = 2
  SegmentHeaderBytes = 2
  BlockHeaderBytes = 2
  MinSplitBytes = 2
  DefaultSegmentBytes = 4
  MaxSegmentBytes = 0
  HeaderBytes = 2
  Sizes = {0, 5}
  RequestCaps <- AllRoutes
  Pads = {0}
  TrimBatch = 1
SYMMETRY Symmetry
INVARIANTS
  TypeOK
  CountersExact
  CellsPartitioned
  Coherent
  HintLinked
PROPERTIES
  GrowthServes
  TrimThorough
  KeepsContract
