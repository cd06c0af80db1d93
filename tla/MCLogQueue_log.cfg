\* a buffer of two entries that grows twice.
SPECIFICATION FairSpec
CONSTANTS
  Capacity = 2
  MaxMessages = 9
INVARIANTS OldestFirst
PROPERTIES PrintsInOrder MessagesPrinted PauseReturns
CHECK_DEADLOCK FALSE
