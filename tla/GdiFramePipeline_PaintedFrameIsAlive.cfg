SPECIFICATION Spec
CONSTANTS
  Sizes = {640, 660}
  Interval = 2
  MaxFrames = 3
  MaxBuffers = 3
INVARIANTS PaintedFrameIsAlive
CHECK_DEADLOCK FALSE
