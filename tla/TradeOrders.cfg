SPECIFICATION FairSpec
CONSTANTS
  Trades = {t1, t2}
  Markets = {m1}
  Outcomes = {yes, no}
  Strategies = {s1}
  MaxOpen = 1
  Nobody = Nobody
  Seed = Seed
INVARIANT TypeOK PositionLimit OneActivePerOutcome PauseBlocks NoCircularWait
PROPERTY ImplementsBook RequestsEnd PendingEnds
CHECK_DEADLOCK FALSE
