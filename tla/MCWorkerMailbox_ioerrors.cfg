SPECIFICATION Spec
CONSTANTS
  k1 = k1
  k2 = k2
  Keys = {k1, k2}
  Sizes = {1}
  MaxMessages = 2
  MaxBytes = 2
  MaxFaults = 2
  IOErrors = TRUE
SYMMETRY Symmetry
INVARIANTS
  RecoveryNeverRefuses
  OutcomesAreTrue
  NothingSentAfterUnknown
PROPERTIES
  ImplementsMailbox
CHECK_DEADLOCK FALSE
