SPECIFICATION FairSpec
CONSTANTS
  MaxAttempts = 1
  MaxFaults = 0
  Reconcilers = {h}
  FaultKinds = {}
  h = h
PROPERTY CancelledJobEnds
CHECK_DEADLOCK FALSE
