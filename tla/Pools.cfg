SPECIFICATION Spec
CONSTANTS
  Cells = {c1, c2, c3}
  NoBuffer = NoBuffer
  ForeignCell = ForeignCell
  Tasks = {t1, t2}
  BlockCount = 2
  ClassCount = 2
SYMMETRY Symmetry
INVARIANTS
  TypeOK
  PoolsSound
  BuffersPartitioned
  PointersExact
PROPERTIES
  RebeginServes
  KeepsContract
