SPECIFICATION FairSpec
CONSTANTS
  MaxAttempts = 2
  MaxFaults = 2
  Reconcilers = {h, i}
  FaultKinds = {"launcher", "controller", "worker", "bootstrap", "host", "spawn", "capture", "kill", "cleanup", "slow"}
  h = h
  i = i
INVARIANTS PromptIsNeverReplayed OneAttemptSpawns CleanupIsLast
PROPERTIES RecoverySparesTheLiving JobSettles
CHECK_DEADLOCK FALSE
