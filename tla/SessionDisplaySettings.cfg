SPECIFICATION Spec
CONSTANTS
  Sizes = {640, 650, 660}
  Painters = {gdi}
  Tolerance = 16
  MinFixed = 645
  MaxFixed = 655
  Timeout = 1
  MaxGeneration = 3
INVARIANTS TypeOK FixedOnlyInSingleMonitorSession StatusMatchesProgress
PROPERTIES AppliedByCurrentEvent InputIsReleased
CHECK_DEADLOCK TRUE
