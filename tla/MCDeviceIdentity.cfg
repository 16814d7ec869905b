SPECIFICATION IdentitySpec
CONSTANTS
  Device = {d1, d2, d3}
  Mac = {m1, m2}
  ClientId = {u1}
  Name = {n1}
  Ip = {ip1, ip2}
  Request = {r1}
  m1 = m1
  m2 = m2
  u1 = u1
  n1 = n1
  ip1 = ip1
  ip2 = ip2
  Observation <- MCObservation
  NoDevice = NoDevice
  Absent = Absent
  Open = Open
  MaxTime = 1
  MaxClients = 2
SYMMETRY MCSymmetry
INVARIANTS
  IdentityTypeOK
  UnknownExactly
  LeaseHistoryLinear
PROPERTIES
  LeaseHistoryKept
  OnlyParentMovesBinding
