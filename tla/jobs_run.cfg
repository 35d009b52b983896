CONSTANTS
  Jobs = {j1, j2}
  Workers = 2
  RetryLimit = 1
  Users = {u1}
  MaxCancels = 1
  MaxRetries = 1
  MaxCrashes = 1
SPECIFICATION FairSpec
INVARIANTS SlotsAreHeld RunningIsOwned OneExecution
PROPERTIES JobsImplementLifeCycle EveryJobEnds
CHECK_DEADLOCK FALSE
