SPECIFICATION Spec
CONSTANTS
  MaxTargets = 2
  Sizes = {1}
  Frames = {1, 2}
  CoalesceDepth = 1
  MaxCommands = 2
  MaxSessions = 2
INVARIANTS
  TypeOK
  GdiNeverResumesMidStream
  NoUpdateLeftPending
  QuietAfterReset
CHECK_DEADLOCK FALSE
