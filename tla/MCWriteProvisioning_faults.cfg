\* Two calls in turn or at once, and any two faults.
CONSTANTS
  Slots = {s1, s2}
  None = None
  FaultKinds = {"die", "halfGuard", "bootDies", "unkillable", "expire", "edit", "cancel", "sweep", "home"}
  MaxFaults = 2
  MaxRev = 6
SPECIFICATION Spec
CHECK_DEADLOCK FALSE
INVARIANTS ReadyIsEarned FailedLeavesNothing
PROPERTIES CreateFindsNothing ProvisioningSettles
