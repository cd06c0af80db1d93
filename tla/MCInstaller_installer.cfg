\* Three runs, one after the other or overlapping, with faults and kills.
SPECIFICATION Spec
CONSTANTS
  i1 = i1  i2 = i2  i3 = i3
  Runs = {i1, i2, i3}
  Modes <- Both
  Before = Before
  None = None
SYMMETRY Symmetry
INVARIANTS PrefixWhole
PROPERTIES InstallsAtomically EndsAsSaid
CHECK_DEADLOCK FALSE
