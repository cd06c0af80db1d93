\* three threads, four graphs that use two, all, all and one of them.
SPECIFICATION FairSpec
CONSTANTS
  Pool = 3
  Graphs <- FourGraphs
  MayAbort = TRUE
  MayPause = TRUE
  MaxCount = 8
INVARIANTS TypeOK WorkersAreOut BufferIsWhole
PROPERTIES ExecutesGraphs GraphEnds FreeEnds
CHECK_DEADLOCK FALSE
