SPECIFICATION Spec
CONSTANTS
  Event = {1, 2, 3}
  Rank <- MCRank
  Writer = {w1}
  Browser = {b1}
  PageSize = 2
  Capacity = 1
  QueueSize = 1
  Backfill = 2
  Overlap = FALSE
  None = None
  MaxTxns = 2
  MaxRestarts = 1
  MaxDrops = 1
CHECK_DEADLOCK FALSE
INVARIANTS
  LiveTypeOK
  NoneSkipped
  FedInOrder
  QueueKeepsNewest
  GapClosed
PROPERTY
  EventuallyFannedOut
