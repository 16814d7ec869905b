SPECIFICATION Spec
CONSTANTS
  None = None
  HourLength = 2
  DayHours = 4
  ZThreshold = 3
  Percentile = 95
  PercentParts = 1
  Limits <- MCLimits
  EvalWindow = 6
  Suffix <- MCSuffix
  Anything = Anything
  Viewing = {watched}
  Households <- MCHouseholds
  Parent = {p1, p2}
  Classification = {"suppress_similar", "resolve"}
  Malformed = {mBad}
  OnlineTime = 1
  Start = 6
  MaxTime = 7
  MaxJudgements = 2
  MaxCrashes = 1
  d1 = d1
  kid = kid
  m1 = m1
  m2 = m2
  mBad = mBad
  ads = ads
  trk = trk
  watched = watched
  shop = shop
  msg = msg
  suffix = suffix
  i1 = i1
  i2 = i2
  i3 = i3
INVARIANTS
  FindingsTypeOK
  DraftsDistinct
  BurstsCaught
PROPERTIES
  SuppressionObeyed
  LifecycleSpec
  SecurityNoticed
