\* two clients and a reload that drops b and changes a, which may crash, room for one model.
SPECIFICATION FairSpec
CONSTANTS
  a = a  b = b  r1 = r1  r2 = r2  r3 = r3  r4 = r4
  NoModel = NoModel
  Models = {a, b}
  Requesters = {r1, r2, r3}
  Job <- TwoPostsReload
  Sources <- OnlyA
  Changed <- OnlyA
  Startup = {}
  Crashing = {a}
  MaxModels = 1
  MaxSpawns = 2
  MaxPipe = 1
PROPERTIES StopCompletes ReloadEnds ShutdownEnds
CHECK_DEADLOCK FALSE
