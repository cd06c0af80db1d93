\* a post, a load, an unload and a reload that drops b and changes a, room for one model.
SPECIFICATION Spec
CONSTANTS
  a = a  b = b  r1 = r1  r2 = r2  r3 = r3  r4 = r4
  NoModel = NoModel
  Models = {a, b}
  Requesters = {r1, r2, r3, r4}
  Job <- Mixed
  Sources <- OnlyA
  Changed <- OnlyA
  Startup = {a}
  Crashing = {b}
  MaxModels = 1
  MaxSpawns = 3
  MaxPipe = 2
INVARIANTS WithinLimit ReportsToOwn JoinsAreSafe NoOrphans
CHECK_DEADLOCK FALSE
