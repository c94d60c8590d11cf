SPECIFICATION FairSpec
CONSTANTS
  Trades = {t1}
  Markets = {m1}
  Outcomes = {yes}
  Strategies = {s1}
  MaxOpen = 1
  Nobody = Nobody
  Seed = Seed
PROPERTY KillSwitchBlocks
CHECK_DEADLOCK FALSE
