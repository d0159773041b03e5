SPECIFICATION Spec
CONSTANTS
  Columns = 2
  Buffers = {A, B}
  Sizes = {640, 660}
  WindowSize = 640
  HistoryLimit = 1
  MaxFrames = 5
  A = A
  B = B
INVARIANTS TypeOK
PROPERTIES PaintedIsCurrent
