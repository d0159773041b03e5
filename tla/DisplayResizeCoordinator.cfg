SPECIFICATION Spec
CONSTANTS
  Sizes = {640, 650, 660}
  FrameAlignmentTolerance = 16
  SentTimeout = 2
  MaxGeneration = 3
INVARIANTS TypeOK TimedOutStaysFallback
PROPERTIES EveryTargetHasItsFullTimeout WaitEnds TimeoutRepaints StopEnds
\* The destroyed coordinator does nothing more.
CHECK_DEADLOCK FALSE
