\* a completion and an embedding of one request, and a slot action, share one slot; all may fail or leave.
SPECIFICATION Spec
CONSTANTS
  r1 = r1  r2 = r2  s1 = s1  s2 = s2
  parent = parent  child = child  single = single  pinned = pinned
  Readers = {r1, r2}
  Tasks = {parent, single, pinned}
  Slots = {s1}
  NoTask = NoTask
  NoSlot = NoSlot
  Batch <- PairBatch
  Children <- NoChildren
  Kind <- MixedKinds
  Pin <- PinnedToS1
  Impatient = {r1, r2}
  Faulty = {parent, single, pinned}
  DecodeMayFail = TRUE
  DraftMayFail = TRUE
  NPredict = 2
  MaxEmpty = 3
PROPERTIES ServesTasks
CHECK_DEADLOCK FALSE
