SPECIFICATION FairSpec
CONSTANTS
  Event = {"e1", "e2"}
  Calls <- AnyCall
  MaxPending = 3
INVARIANTS TypeOK NoSleepOverEvent
PROPERTIES IsFifo KeepsHandling
