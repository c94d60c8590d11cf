SPECIFICATION FairSpec
CONSTANTS
  Trades = {t1, t2}
  Prices = {0, 1, 4}
  Entry = 2
  TakeProfit = 3
  StopLoss = 1
  Quantity = 2
  Fee = 1
  Tasks = {k1}
  MaxErrors = 1
INVARIANT ReconcilesClean
PROPERTY ClosedStaysClosed EventuallyClosed
CHECK_DEADLOCK FALSE
