CONSTANTS
  Missing = Missing
  Ads = Ads
  Phone = Phone
  Address = Address
  Kept = Kept
  Banned = Banned
  Hit = Hit
  Blocked <- MCBlocked
  Cached <- MCCached
  Payloads <- MCPayloads
  Length = 2
  Skew <- MCSkew
  MaxQueries = 0
  Line = {text, blank, long}
  Blank = blank
  Long = long
  Client = {}
  QueueSize = 2
  MaxLines = 3
  MaxFaults = 0
  MaxRestarts = 0
SPECIFICATION Spec
INVARIANT
  EveryLineAppended
CHECK_DEADLOCK FALSE
