SPECIFICATION CoalescerSpec
CONSTANTS
  Delay = 2
  MaxGeneration = 4
INVARIANTS CoalescerTypeOK
PROPERTIES ImplementsMailbox TakenAfterQuiet ScheduledIsTaken StopEnds
\* The destroyed coalescer does nothing more.
CHECK_DEADLOCK FALSE
