\* a parent with a child and a single task; r1 may leave and the parent may be rejected.
SPECIFICATION Spec
CONSTANTS
  r1 = r1  r2 = r2  s1 = s1  s2 = s2
  parent = parent  child = child  single = single  pinned = pinned
  Readers = {r1, r2}
  Tasks = {parent, child, single}
  Slots = {s1, s2}
  NoTask = NoTask
  NoSlot = NoSlot
  Batch <- FamilyBatch
  Children <- FamilyChildren
  Kind <- Completions
  Pin <- Unpinned
  Impatient = {r1}
  Faulty = {parent}
  DecodeMayFail = TRUE
  DraftMayFail = FALSE
  NPredict = 2
  MaxEmpty = 3
INVARIANTS OnePlace AnsweredOnce NoOrphanResults NoLostTask
PROPERTIES ServesTasks
SYMMETRY SlotSymmetry
CHECK_DEADLOCK FALSE
