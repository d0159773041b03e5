SPECIFICATION Spec
CONSTANTS
  MaxTargets = 2
  Sizes = {s1, s2}
  Frames = {1, 2}
  FailureThreshold = 2
  IgnoreThreshold = 2
  CoalesceDepth = 1
  MaxTasks = 2
  MaxEvents = 2
  MaxSessions = 1
SYMMETRY SizeSymmetry
INVARIANTS
  TypeOK
  PresentsWholePicture
  PausedOnlyWithoutWindow
  OutputHasOnePainter
CHECK_DEADLOCK FALSE
