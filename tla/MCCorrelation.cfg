SPECIFICATION CorrelationSpec
CONSTANTS
  Device = {d1, d2}
  Mac = {m1, m2}
  ClientId = {}
  Name = {n1}
  Ip = {ip1, ip2}
  Request = {r1}
  Query = {q2}
  m1 = m1
  m2 = m2
  n1 = n1
  ip1 = ip1
  ip2 = ip2
  q1 = q1
  q2 = q2
  Observation <- MCMovingObservation
  QueryOf <- MCQueryOf
  Threshold = 70
  Overlap = FALSE
  NoDevice = NoDevice
  Absent = Absent
  Open = Open
  NoRow = NoRow
  Undecided = Undecided
  MaxTime = 2
  MaxClients = 1
SYMMETRY MCSymmetry
INVARIANTS
  CorrelationTypeOK
  NeverGuess
  RowCoherent
  ResolvedOnce
  EvidenceInHistory
PROPERTIES
  ManualResolutionKept
  BindingMovesWithDecision
