\* A job that ran before and two more, a key to admit and a key to call with,
\* one crash of a call or of a worker.
CONSTANTS
  MaxJobs = 3
  AdmitKeys = {k1}
  CallKeys = {k2}
  NoKey = NoKey
  Ops = {"followup", "cancel", "foreground", "interrupt", "hook"}
  RetainLimit = 0
  MaxHistory = 2
  MaxCrashes = 1
  Reopens = FALSE
SPECIFICATION Spec
CHECK_DEADLOCK FALSE
INVARIANTS KeyNamesOneJob ExecutionsAreApart FirstCancelIsAccepted
