SPECIFICATION FairSpec
CONSTANTS
  Assets = {a1, a2}
  ChunkSize = 1
  MaxFaults = 3
INVARIANT RecordedIsSubscribed
PROPERTY ListedIsSubscribed
