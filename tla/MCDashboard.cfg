CONSTANTS
  None = None
  NoRow = NoRow
  Review = Review
  Ignored = Ignored
  d1 = d1
  d2 = d2
  kid = kid
  mum = mum
  ads = ads
  game = game
  HourLength = 1
  DayHours = 24
  ZThreshold = 2
  Percentile = 95
  PercentParts = 1
  Lookup <- MCLookup
  Device = {d1, d2}
  Person = {kid, mum}
  Child = {kid}
  Source <- MCSource
  Parent = {parent1, parent2}
  Start <- MCStart
  Limits <- MCLimits
  Clients <- MCClients
  OnlineTicks = 2
  Window = 2
  Samples = 2
  AttentionLimit = 2
  RecentLimit = 2
  MaxChanges = 2
  MaxTime = 6
  MaxRequests = 1
SPECIFICATION Spec
INVARIANTS
  DashboardTypeOK
  OneOwnerUnlessOverlap
  AttentionShown
  CountsBounded
  ChildrenExact
  RecentHonest
CHECK_DEADLOCK FALSE
