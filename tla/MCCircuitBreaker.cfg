SPECIFICATION FairSpec
CONSTANTS
  FailureThreshold = 2
  WindowSeconds = 3
  RecoverySeconds = 2
  MaxTime = 7
CONSTRAINT BoundedWindow
INVARIANT ClosedBelowThreshold WindowIsRecent
  
