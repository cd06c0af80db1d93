\* three HTTP threads, of any speed, and a signal.
SPECIFICATION FairSpec
CONSTANTS
  r1 = r1  r2 = r2  r3 = r3
  Requesters = {r1, r2, r3}
  Main = Main
  MayTerminate = TRUE
INVARIANTS RequestWakesMain RunsLoaded
PROPERTIES PassesLoaded TaskIsProcessed WaitEnds StoppedLoopEnds
CHECK_DEADLOCK FALSE
