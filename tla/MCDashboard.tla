------------------------------ MODULE MCDashboard ------------------------------
(* Two devices, a child and a parent, four lookups on both sides of the
   boundary between the two windows of a baseline.  The request may find the
   household quiet, with sources down, or with much to look at. *)
EXTENDS Dashboard

CONSTANTS d1, d2, kid, mum, ads, game

Old   == [id |-> 1, at |-> 1, domain |-> game, blocked |-> FALSE]
Edge  == [id |-> 2, at |-> 3, domain |-> ads, blocked |-> TRUE]
Late  == [id |-> 3, at |-> 5, domain |-> game, blocked |-> FALSE]
Later == [id |-> 4, at |-> 5, domain |-> ads, blocked |-> TRUE]

MCLookup == {Old, Edge, Late, Later}
MCLimits == [failures |-> 1, stale |-> 2]
MCSource == {"pihole_api", "unifi_api"}
MCClients == {[id |-> 1, device |-> d1, at |-> 4, up |-> 2, down |-> None, uptime |-> None,
               first |-> 2, last |-> 4],
              [id |-> 2, device |-> d1, at |-> 2, up |-> 1, down |-> 5, uptime |-> 3,
               first |-> None, last |-> None]}

HisPhone == [person |-> kid, device |-> d1, active |-> TRUE, unread |-> {}]
Well     == [success |-> 4, failures |-> 0]
Broken   == [success |-> 4, failures |-> 1]

Quiet ==
  [activity  |-> (Old :> d1) @@ (Edge :> d1) @@ (Late :> NoRow) @@ (Later :> d1),
   seen      |-> (d1 :> 5) @@ (d2 :> 2), unknown |-> (d1 :> FALSE) @@ (d2 :> FALSE),
   links     |-> <<HisPhone>>,
   source    |-> [s \in MCSource |-> Well],
   baselines |-> [p \in {kid, mum} |-> None]]

Busy == [Quiet EXCEPT !.activity[Late] = Review, !.activity[Later] = Review, !.unknown[d1] = TRUE]
Dark == [Quiet EXCEPT !.source["unifi_api"] = Broken, !.activity[Late] = d2]

\* A database with a baseline of quieter days.
Known == [Quiet EXCEPT !.baselines[kid] = BaselineAnswer(kid, 3, [i \in 1..6 |-> Quiet]).baseline]

MCStart == {Known, Busy, Dark}
=============================================================================
