------------------------------- MODULE MCFindings -------------------------------
(***************************************************************************)
(* Five small households: one per group of rules, and one whose events     *)
(* have times that cannot be read.  An hour is two ticks, a day four       *)
(* hours; the evaluation looks six ticks back, so lookups before the first *)
(* tick that is run are in its window already.                             *)
(***************************************************************************)
EXTENDS Findings

CONSTANTS d1, kid, m1, m2, mBad, ads, trk, shop, msg, watched, suffix, i1, i2, i3

MCLimits == [burst |-> 2, burstWindow |-> 1, volume |-> 2, ratio |-> 2, fresh |-> 2,
             freshRatio |-> 2, outside |-> 2, flaps |-> 3, flapWindow |-> 2,
             burstSample |-> 1, freshSample |-> 1]
MCSuffix == [d \in {ads, trk, shop} |-> IF d = shop THEN shop ELSE suffix]

Lookup(id, at, domain, blocked, device) ==
  [kind |-> "lookup", id |-> id, at |-> at, domain |-> domain, blocked |-> blocked,
   device |-> device]
Line(id, move, security, mac) ==
  [kind |-> "line", id |-> id, at |-> 6, move |-> move, security |-> security, mac |-> mac,
   msg |-> IF id = i3 THEN watched ELSE msg]
Event(id, at, move, mac, time) ==
  [kind |-> "event", id |-> id, at |-> at, move |-> move, mac |-> mac, time |-> time]

Device(unknown, person) == [unknown |-> unknown, seen |-> 6, person |-> person]

MeanOne == [n |-> 2, sum |-> 2, squares |-> 2, top |-> 1, samples |-> <<1, 1>>]
MCBaseline == [metrics |-> [m \in Metric |-> MeanOne], hours |-> {1}, weekdays |-> << >>]

House(devices, macs, baselines, schedules, prior, signals) ==
  [devices |-> devices, macs |-> macs, baselines |-> baselines, schedules |-> schedules,
   prior |-> prior, signals |-> signals]

Schedule(whose, hours) == [whose |-> whose, active |-> TRUE, days |-> None, hours |-> hours]

\* Three blocked lookups of which any two neighbours are a burst.
Bursts ==
  House(d1 :> Device(FALSE, kid), << >>, d1 :> None, << >>, d1 :> {ads},
        {Lookup(i1, 4, ads, TRUE, d1), Lookup(i2, 5, trk, TRUE, d1),
         Lookup(i3, 6, ads, TRUE, d1)})

\* More lookups than usual, at night, of domains not seen before.
Volumes ==
  House(d1 :> Device(FALSE, kid), << >>, d1 :> MCBaseline,
        <<Schedule(kid, {3}), Schedule(kid, {2}), Schedule(d1, {0})>>, d1 :> {ads},
        {Lookup(i1, 6, trk, FALSE, d1), Lookup(i2, 6, shop, FALSE, d1)})

\* An unknown device that comes and goes, by lines and by controller events,
\* one of which has an address that cannot be read.
Moves ==
  House(d1 :> Device(TRUE, None), m1 :> d1, d1 :> None, << >>, d1 :> {},
        {Line(i1, "connect", FALSE, m1), Event(i2, 5, "disconnect", m1, "seconds"),
         Event(i3, 6, "connect", mBad, "seconds")})

\* Two security events of a client that is not mapped to a device, and one of
\* a known device whose message has a word that a finding must not use.
Alarms ==
  House(d1 :> Device(FALSE, kid), m1 :> d1, d1 :> None, << >>, d1 :> {},
        {Line(i1, None, TRUE, m2), Line(i2, None, TRUE, m2), Line(i3, None, TRUE, m1)})

\* A security line whose name has the word "connection", an event with a time
\* without a zone and one with a time in milliseconds.
Clocks ==
  House(d1 :> Device(FALSE, None), m1 :> d1, d1 :> None, << >>, d1 :> {},
        {Line(i1, "connect", TRUE, m2), Event(i2, 6, "disconnect", m1, "naive"),
         Event(i3, 6, None, m1, "millis")})

MCHouseholds == {Bursts, Volumes, Moves, Alarms, Clocks}
=============================================================================
