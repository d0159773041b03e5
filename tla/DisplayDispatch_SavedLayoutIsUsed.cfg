SPECIFICATION Spec
CONSTANTS
  Sizes = {640, 660}
  FixedSizes = {660}
  MaxEvents = 4
PROPERTIES SavedLayoutIsUsed
CHECK_DEADLOCK FALSE
