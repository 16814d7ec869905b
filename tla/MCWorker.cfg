CONSTANTS
  Missing = Missing
  Ads = Ads
  Phone = Phone
  Address = Address
  Kept = Kept
  Banned = Banned
  Hit = Hit
  Blocked <- MCBlocked
  Cached <- MCCached
  Payloads <- MCPayloads
  Length = 2
  Skew <- MCSkew
  MaxQueries = 3
  Line = {text, blank, long}
  Blank = blank
  Long = long
  Client = {c1}
  QueueSize = 2
  MaxLines = 3
  MaxFaults = 2
  MaxRestarts = 1
SPECIFICATION MCSpec
INVARIANTS
  WorkerTypeOK
  LostOnlyInGap
  RepeatOnlyIfForgotten
PROPERTIES
  FeedSpec
  LinesStored
  QueriesStored
CHECK_DEADLOCK FALSE
