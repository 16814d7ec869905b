-------------------------------- MODULE Activity --------------------------------
(***************************************************************************)
(* Window summaries and baselines: backend/app/activity/aggregate.py and   *)
(* backend/app/activity/baseline.py.  Everything here is a function of     *)
(* rows that have been read; who reads them, and when, is in Dashboard.    *)
(*                                                                         *)
(* A lookup is [id, at, domain, blocked, device], domains are normalised.  *)
(* A snapshot is one raw UniFi client row of a device: [id, device, at,    *)
(* up, down, uptime, first, last], fields that are missing being None.     *)
(* Means and deviations are compared without division: a metric is kept    *)
(* as its number of samples, their sum and the sum of their squares.       *)
(***************************************************************************)
EXTENDS HealthStatus, Sequences, FiniteSets, FiniteSetsExt, Functions

CONSTANTS
  HourLength,  \* ticks of the clock in an hour
  DayHours,    \* hours of a day
  PercentParts, \* parts of a percent that are kept: 10000
  ZThreshold,  \* baseline_z_threshold
  Percentile   \* DEFAULT_PERCENTILE

ASSUME ActivityAssumption ==
  /\ HourLength \in Nat \ {0} /\ DayHours \in Nat \ {0}
  /\ PercentParts \in Nat \ {0}
  /\ ZThreshold \in Nat /\ Percentile \in 1..99

HourOf(at) == (at \div HourLength) % DayHours
Weekday(at) == (at \div (HourLength * DayHours)) % 7

Within(rows, from, to) == {r \in rows : from <= r.at /\ r.at <= to}
Domains(rows) == {r.domain : r \in rows}

\* Mutant: a window without its first instant.
WithinAfter(rows, from, to) == {r \in rows : from < r.at /\ r.at <= to}

\* A percentage in parts, rounded.
Percent(part, whole) ==
  IF whole = 0 THEN 0 ELSE (200 * PercentParts * part + whole) \div (2 * whole)

\* aggregate_dns_records.
DnsTotals(rows, from, to, prior) ==
  LET inside == Within(rows, from, to)
  IN [volume     |-> Cardinality(inside),
      blockedPct |-> Percent(Cardinality({r \in inside : r.blocked}), Cardinality(inside)),
      domains    |-> Domains(inside),
      fresh      |-> Domains(inside) \ prior,
      hours      |-> {HourOf(r.at) : r \in inside},
      buckets    |-> {r.at \div HourLength : r \in inside}]

\* _connection_duration_seconds, on timestamps that parse.
Duration(snap, from, to) ==
  LET first == Min({snap.first, snap.last})
      last  == Max({snap.first, snap.last})
      span  == Min({last, to}) - Max({first, from})
  IN IF snap.uptime # None THEN snap.uptime
     ELSE IF snap.first = None \/ snap.last = None THEN None
     ELSE Max({0, span})

\* The rows aggregate_unifi_traffic may end with: per device a latest one.
\* Rows are read without an order, so of two that are equally late either.
LatestChoices(snaps, devices) ==
  LET late == {s \in snaps : /\ s.device \in devices
                             /\ \A t \in snaps : t.device = s.device => t.at <= s.at}
  IN {L \in SUBSET late : \A s \in late : \E one \in L :
        {t \in L : t.device = s.device} = {one}}

\* The sum of the values of rows, None if no row has one.
Total(values) ==
  LET known == {r \in DOMAIN values : values[r] # None}
  IN IF known = {} THEN None ELSE SumFunctionOnSet(values, known)

TrafficTotals(latest, from, to) ==
  [up       |-> Total([s \in latest |-> s.up]),
   down     |-> Total([s \in latest |-> s.down]),
   duration |-> Total([s \in latest |-> Duration(s, from, to)])]

\* build_activity_summary.
Summary(rows, prior, latest, from, to) ==
  [from |-> from, to |-> to,
   dns |-> DnsTotals(rows, from, to, prior), net |-> TrafficTotals(latest, from, to)]

Metric == {"dns_query_volume", "blocked_query_pct", "unique_domain_count", "new_domain_count",
           "active_hour_count", "upload_bytes", "download_bytes", "connection_duration_seconds"}

\* metric_values; None is a metric the summary does not have.
Values(summary) ==
  [m \in Metric |->
     CASE m = "dns_query_volume"    -> summary.dns.volume
       [] m = "blocked_query_pct"   -> summary.dns.blockedPct
       [] m = "unique_domain_count" -> Cardinality(summary.dns.domains)
       [] m = "new_domain_count"    -> Cardinality(summary.dns.fresh)
       [] m = "active_hour_count"   -> Cardinality(summary.dns.buckets)
       [] m = "upload_bytes"        -> summary.net.up
       [] m = "download_bytes"      -> summary.net.down
       [] OTHER                     -> summary.net.duration]

-----------------------------------------------------------------------------
\* _percentile: nearest rank, of a sequence that is not empty.
NearestRank(v) ==
  LET rank == (Percentile * Len(v) + 99) \div 100
  IN CHOOSE x \in Range(v) :
       /\ Cardinality({i \in DOMAIN v : v[i] < x}) < rank
       /\ rank <= Cardinality({i \in DOMAIN v : v[i] <= x})

\* compute_metric_baseline.
MetricBaseline(v) ==
  [samples |-> v, n |-> Len(v), sum |-> SumFunction(v),
   squares |-> SumFunction([i \in DOMAIN v |-> v[i] * v[i]]), top |-> NearestRank(v)]

Excess(b, value) == b.n * value - b.sum
Spread(b) == b.n * b.squares - b.sum * b.sum

\* More than ZThreshold sample deviations above the mean.
FarAbove(b, value) ==
  /\ Excess(b, value) > 0
  /\ Excess(b, value) * Excess(b, value) * (b.n - 1) > ZThreshold * ZThreshold * b.n * Spread(b)

\* detect_deviations, for one metric; a single sample has no deviation.
DeviationKind(b, value) ==
  IF Spread(b) > 0 /\ FarAbove(b, value) THEN "z_score"
  ELSE IF Spread(b) = 0 /\ Excess(b, value) > 0 THEN "above_constant_mean"
  ELSE IF value > b.top THEN "percentile"
  ELSE None

\* typical_active_hours: the hours of at least half of the samples.
TypicalHours(hours) ==
  {h \in UNION Range(hours) : 2 * Cardinality({i \in DOMAIN hours : h \in hours[i]}) >= Len(hours)}

\* day_of_week_volume_patterns: number and sum of the volumes of a weekday.
WeekdayVolumes(summaries) ==
  [day \in 0..6 |->
     LET I == {i \in DOMAIN summaries : Weekday(summaries[i].to) = day}
     IN [n |-> Cardinality(I), sum |-> MapThenSumSet(LAMBDA i : summaries[i].dns.volume, I)]]

\* compute_baseline.
Baseline(summaries) ==
  LET samples(m) == SelectSeq([i \in DOMAIN summaries |-> Values(summaries[i])[m]],
                              LAMBDA x : x # None)
  IN [metrics  |-> [m \in Metric |-> IF samples(m) = << >> THEN None
                                     ELSE MetricBaseline(samples(m))],
      hours    |-> TypicalHours([i \in DOMAIN summaries |-> summaries[i].dns.hours]),
      weekdays |-> WeekdayVolumes(summaries)]

\* compute_and_store_baseline: the samples that are not empty, or the newest.
UsedSamples(summaries) ==
  LET used == SelectSeq(summaries, LAMBDA s : \/ s.dns.volume > 0
                                              \/ s.net.up # None \/ s.net.down # None)
  IN IF used = << >> THEN <<summaries[Len(summaries)]>> ELSE used

\* detect_deviations.
Deviations(summary, baseline) ==
  {m \in Metric : /\ Values(summary)[m] # None /\ baseline.metrics[m] # None
                  /\ DeviationKind(baseline.metrics[m], Values(summary)[m]) # None}
=============================================================================
