SPECIFICATION Spec
CONSTANTS
  Cells = {c1, c2}
  NoCell = NoCell
  ForeignCell = ForeignCell
  Tasks = {t1, t2}
  NoTask = NoTask
  NoHeap = NoHeap
  Alignment = 2
  SegmentHeaderBytes = 2
  BlockHeaderBytes = 2
  MinSplitBytes = 2
  DefaultSegmentBytes = 8
  MaxSegmentBytes = 20
  HeaderBytes = 2
  Sizes = {0, 3}
  RequestCaps <- JustPsram
  Pads = {0}
  TrimBatch = 1
SYMMETRY Symmetry
INVARIANTS
  CapKept
