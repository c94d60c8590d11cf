SPECIFICATION Spec
CONSTANTS
  Txs = {x1, x2}
  Requests = {q1, q2}
  BatchSize = 2
  MaxRetries = 1
  MaxFaults = 2
  MaxLosses = 1
SYMMETRY Symmetry
INVARIANT TypeOK  CountedOnce  AckedAfterHandling
 
CHECK_DEADLOCK FALSE
