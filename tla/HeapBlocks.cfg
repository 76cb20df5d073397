SPECIFICATION Spec
CONSTANTS
  Cells = {c1, c2}
  NoCell = NoCell
  ForeignCell = ForeignCell
  Tasks = {t1}
  NoTask = NoTask
  NoHeap = NoHeap
  Alignment = 2
  SegmentHeaderBytes = 2
  BlockHeaderBytes = 2
  MinSplitBytes = 2
  DefaultSegmentBytes = 10
  MaxSegmentBytes = 0
  HeaderBytes = 2
  Sizes = {0, 3, 11}
  RequestCaps <- JustPsram
  Pads = {4}
  TrimBatch = 2
SYMMETRY CellSymmetry
INVARIANTS
  BlocksTile
  BlocksAligned
  LiveExact
  CountersExact
PROPERTIES
  SearchComplete
  TrimSafe
  KeepsContract
