SPECIFICATION Spec
CONSTANTS
  Cells = {c1, c2}
  ForeignCell = ForeignCell
  InternalBytes = 2
  PsramBytes = 3
  Word = 16
  HeaderBytes = 3
  Alignment = 2
  Tasks = {t1}
  Sizes = {0, 2}
  BeginFirst = FALSE
INVARIANTS
  WithinCapacity
