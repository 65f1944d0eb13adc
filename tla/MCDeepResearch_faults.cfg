CONSTANTS
  Requests <- AllRequests
  MaxRev = 3
  FaultKinds <- Kinds
  MaxFaults = 1
SPECIFICATION FairSpec
INVARIANTS CompletedIsEarned CancelComesFirst FilesOutliveGrok
PROPERTIES ChunksAreWhole EndIsFinal JobEnds
CHECK_DEADLOCK FALSE
