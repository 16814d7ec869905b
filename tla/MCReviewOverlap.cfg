SPECIFICATION CorrelationSpec
CONSTANTS
  Device = {d1, d2}
  Mac = {m1, m2}
  ClientId = {}
  Name = {n1}
  Ip = {ip1}
  Request = {r1, r2}
  Query = {q1, q2}
  m1 = m1
  m2 = m2
  n1 = n1
  ip1 = ip1
  ip2 = ip2
  q1 = q1
  q2 = q2
  Observation <- MCObservation
  QueryOf <- MCQueryOf
  Threshold = 70
  Overlap = TRUE
  NoDevice = NoDevice
  Absent = Absent
  Open = Open
  NoRow = NoRow
  Undecided = Undecided
  MaxTime = 1
  MaxClients = 1
INVARIANT
  ResolvedOnce
