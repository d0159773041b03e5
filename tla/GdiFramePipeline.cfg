SPECIFICATION Spec
CONSTANTS
  Sizes = {640, 660}
  Interval = 2
  MaxFrames = 3
  MaxBuffers = 3
INVARIANTS TypeOK EndPaintFramesAreAlive
PROPERTIES ImplementsMailbox PendingIsNotStuck SessionReturns
\* A session that is over need not be followed by another.
CHECK_DEADLOCK FALSE
