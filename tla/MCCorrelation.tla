----------------------------- MODULE MCCorrelation -----------------------------
(***************************************************************************)
(* One address that passes between two devices, and queries from it under  *)
(* one client name at two times.  In the second household the first device *)
(* also moves to another address and back.                                 *)
(***************************************************************************)
EXTENDS Correlation, TLC

CONSTANTS m1, m2, n1, ip1, ip2, q1, q2

First(mac, name, ip) ==
  [mac |-> mac, cid |-> Absent, hostname |-> name, client |-> Absent, ip |-> ip,
   first |-> 0, last |-> Absent]

MCObservation == {First(m1, n1, ip1), [First(m2, Absent, ip1) EXCEPT !.first = Absent]}

MCMovingObservation ==
  {First(m1, n1, ip1), First(m1, Absent, ip2), First(m2, Absent, ip1)}

MCQueryOf ==
  [q \in Query |-> [ip |-> ip1, name |-> n1, at |-> IF q = q1 THEN 0 ELSE 1]]

MCSymmetry == Permutations(Device)
=============================================================================
