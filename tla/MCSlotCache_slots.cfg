\* Two slots on five cells, in four configurations.
SPECIFICATION Spec
CONSTANTS
  NSlots = 2
  Seqs <- SlotIds
  Size = 5
  MaxPos = 4
  Tokens = {1, 2}
  Sampleable = {2}
  Prompts <- TwoPrompts
  Modes <- SoundModes
  NCtx = 5
  NBatch = 3
  MayFail = TRUE
  NoToken = NoToken
  NoSlot = NoSlot
INVARIANTS TypeOK CellsAlwaysAgree SlotsHoldPrompts RowsRotated
PROPERTIES RoundsLead
CHECK_DEADLOCK FALSE
