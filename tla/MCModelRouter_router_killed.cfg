\* two clients, and a model whose child fails while it loads.
SPECIFICATION Spec
CONSTANTS
  a = a  b = b  r1 = r1  r2 = r2  r3 = r3  r4 = r4
  NoModel = NoModel
  Models = {a, b}
  Requesters = {r1, r2}
  Job <- TwoPostsReload
  Sources <- OnlyA
  Changed <- OnlyA
  Startup = {a}
  Crashing = {b}
  MaxModels = 1
  MaxSpawns = 3
  MaxPipe = 2
INVARIANT KillsOnlyChildren
CHECK_DEADLOCK FALSE
