---------------------------- MODULE MCDeviceIdentity ----------------------------
(***************************************************************************)
(* A household of three device rows for TLC.  One phone is seen under a    *)
(* MAC, then under a random second MAC with the same UniFi id, and moves   *)
(* between addresses; a tablet has the phone's host name; one sighting has *)
(* nothing but an address and a client name.  Some sightings carry times   *)
(* of the controller, in either order, and some are stamped by the worker. *)
(***************************************************************************)
EXTENDS DeviceIdentity, TLC

CONSTANTS m1, m2, u1, n1, ip1, ip2

MCObservation ==
  {[mac |-> m1, cid |-> u1, hostname |-> n1, client |-> Absent, ip |-> ip1,
    first |-> 0, last |-> 0],
   [mac |-> m1, cid |-> Absent, hostname |-> Absent, client |-> Absent, ip |-> ip2,
    first |-> 0, last |-> Absent],
   [mac |-> m2, cid |-> u1, hostname |-> n1, client |-> Absent, ip |-> Absent,
    first |-> 1, last |-> 0],
   [mac |-> Absent, cid |-> Absent, hostname |-> n1, client |-> n1, ip |-> Absent,
    first |-> 0, last |-> 1]}

MCSymmetry == Permutations(Device)
=============================================================================
