SPECIFICATION FairSpec
CONSTANTS
  Signals = {s1, s2}
  Research = {r1}
  Job = job
  Requests = {request}
  Keep = 1
  MaxCopies = 2
  MaxFaults = 1
INVARIANT ProcessedIsMirrored RepeatedOnlyUnmarked MemoryComplete
PROPERTY ActiveIsMirrored
