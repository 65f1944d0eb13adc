\* Constructors publish within the grace, inodes of remembered directories are
\* not reused, one process dies, anywhere: the lock excludes, and what the dead
\* process left behind is taken away.
CONSTANTS
  Procs = {p1, p2, p3}
  Dirs = {d1, d2}
  NoDir = NoDir
  NoRec = NoRec
  MaxCrashes = 1
  MayStall = FALSE
  ReusesInodes = FALSE
SPECIFICATION FairSpec
CHECK_DEADLOCK FALSE
INVARIANTS TypeOK MutualExclusion HolderIsAtPath NoLostGeneration
PROPERTIES AbandonedIsReclaimed ImplementsLock
