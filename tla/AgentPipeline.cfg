SPECIFICATION FairSpec
CONSTANTS
  Strategies = {ensemble}
  NoStrategy = NoStrategy
  Admitted = {1, 2, 3, 4}
  Count = 2
  MaxEvents = 2
INVARIANT OneOrderPerEvent EventsInOrder
 
