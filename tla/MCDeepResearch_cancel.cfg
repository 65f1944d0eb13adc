CONSTANTS
  Requests <- AllRequests
  MaxRev = 1
  FaultKinds <- Kinds
  MaxFaults = 0
SPECIFICATION Spec
INVARIANT CleanupIsVerified
CHECK_DEADLOCK FALSE
