SPECIFICATION Spec
CONSTANTS
  Sizes = {640, 660}
  FixedSizes = {660}
  MaxEvents = 4
INVARIANTS TypeOK OneResizeAtATime NoHoldWithoutSession
PROPERTIES RequestsFollowPolicy ScheduledReachesSession UiReturns
CHECK_DEADLOCK FALSE
