SPECIFICATION FairSpec
CONSTANTS
  Strategies = {ensemble}
  NoStrategy = NoStrategy
  Admitted = {}
  Count = 2
  MaxEvents = 2
PROPERTY EveryMessageDelivered
