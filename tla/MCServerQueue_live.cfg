\* a parent with a child and a single task under fairness; r2 may leave.
SPECIFICATION FairSpec
CONSTANTS
  r1 = r1  r2 = r2  s1 = s1  s2 = s2
  parent = parent  child = child  single = single  pinned = pinned
  Readers = {r1, r2}
  Tasks = {parent, child, single}
  Slots = {s1, s2}
  NoTask = NoTask
  NoSlot = NoSlot
  Batch <- FamilyBatch
  Children <- FamilyChildren
  Kind <- Completions
  Pin <- Unpinned
  Impatient = {r2}
  Faulty = {}
  DecodeMayFail = FALSE
  DraftMayFail = FALSE
  NPredict = 2
  MaxEmpty = 3
INVARIANTS BusyLoopWakes ChildNotAlone
PROPERTIES EveryRequestEnds
CHECK_DEADLOCK FALSE
