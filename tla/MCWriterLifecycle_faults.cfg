\* Two writers of one checkout, two calls at once, and any one fault.
CONSTANTS
  Workers = {a, b}
  Disposed = {a}
  Slots = {s1, s2}
  None = None
  FaultKinds = {"die", "unkillable", "unseen", "edit"}
  MaxFaults = 1
SPECIFICATION Spec
CHECK_DEADLOCK FALSE
INVARIANTS AppliedIsDecided AbsentIsAbsent
PROPERTIES WorkIsKept DecisionsEnd
