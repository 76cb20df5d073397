SPECIFICATION FairSpec
CONSTANTS
  Cells = {c1, c2}
  NoCell = NoCell
  ForeignCell = ForeignCell
  Tasks = {t1, t2}
  NoTask = NoTask
  NoHeap = NoHeap
  Alignment = 2
  SegmentHeaderBytes = 2
  BlockHeaderBytes = 2
  MinSplitBytes = 2
  DefaultSegmentBytes = 4
  MaxSegmentBytes = 0
  HeaderBytes = 2
  Sizes = {0, 3}
  RequestCaps <- PsramAndDma
  Pads = {0}
  TrimBatch = 1
PROPERTIES
  CallsReturn
