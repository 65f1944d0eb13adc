\* A worker is interrupted while it runs.
CONSTANTS
  MaxJobs = 2
  AdmitKeys = {k1}
  CallKeys = {k2}
  NoKey = NoKey
  Ops = {"interrupt"}
  RetainLimit = 0
  MaxHistory = 2
  MaxCrashes = 0
  Reopens = FALSE
SPECIFICATION Spec
CHECK_DEADLOCK FALSE
PROPERTY InterruptedStays
