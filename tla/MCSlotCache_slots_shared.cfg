\* a task in the slot of a parent whose child still generates.
SPECIFICATION Spec
CONSTANTS
  NSlots = 2
  Seqs <- SlotIds
  Size = 10
  MaxPos = 5
  Tokens = {1, 2}
  Sampleable = {2}
  Prompts <- Continued
  Modes <- SharedShift
  NCtx = 6
  NBatch = 6
  MayFail = TRUE
  NoToken = NoToken
  NoSlot = NoSlot
INVARIANTS SlotsHoldPrompts
CHECK_DEADLOCK FALSE
