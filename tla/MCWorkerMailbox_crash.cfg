SPECIFICATION FairSpec
CONSTANTS
  k1 = k1
  k2 = k2
  Keys = {k1, k2}
  Sizes = {1, 2}
  MaxMessages = 2
  MaxBytes = 2
  MaxFaults = 1
  IOErrors = FALSE
INVARIANTS
  SentOnceInOrder
  OneMessagePerKey
  EveryMessageAccounted
PROPERTIES
  ClosedMailboxIsSettled
  EveryMessageSettles
CHECK_DEADLOCK FALSE
