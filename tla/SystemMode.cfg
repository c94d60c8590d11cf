SPECIFICATION FairSpec
CONSTANTS
  Worlds <- MCWorlds
  Step = 15
  MaxElapsed = 120
  MaxFaults = 1
  MaxRestarts = 2
  ShadowMode = FALSE
INVARIANT TypeOK
INVARIANT TradingResumesLate
PROPERTY RecoversWhenCalm
PROPERTY OverloadProtects
