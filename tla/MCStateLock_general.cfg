\* Any pause, any inode reuse.
CONSTANTS
  Procs = {p1, p2, p3}
  Dirs = {d1, d2}
  NoDir = NoDir
  NoRec = NoRec
  MaxCrashes = 1
  MayStall = TRUE
  ReusesInodes = TRUE
SPECIFICATION Spec
SYMMETRY Symmetry
CHECK_DEADLOCK FALSE
INVARIANTS OneHolderPerGeneration ClaimPinsPath
PROPERTY HolderIsNotDisplaced
