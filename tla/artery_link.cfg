CONSTANTS
  Conns = {c1, c2}
  None = None
SPECIFICATION FairLinkSpec
INVARIANTS OpenIsHeld EntryHasHandler
PROPERTIES WorkingIsKept Reconnects DeadLeavesTable
CHECK_DEADLOCK FALSE
