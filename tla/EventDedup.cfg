SPECIFICATION FairSpec
CONSTANTS
  Ingesters = {api, service}
  Events = {"trade", "price"}
  Raw = "book"
  Messages <- MCMessages
  CacheSize = 1
  MaxMessages = 2
INVARIANT TypeOK RepeatedOnlyForgotten KnownIsAccounted
PROPERTY ReceivedIsPublished MarkedIsKnown
CHECK_DEADLOCK FALSE
