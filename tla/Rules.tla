--------------------------------- MODULE Rules ---------------------------------
(***************************************************************************)
(* The seven rules of backend/app/findings/engine.py and the matching keys *)
(* of backend/app/findings/feedback.py.                                    *)
(*                                                                         *)
(* A draft keeps what identifies a finding (rule, subject and at are its   *)
(* fingerprint), what a suppression is matched on (rule, device, person    *)
(* and the pattern of the domains in its evidence), its evidence, the time *)
(* it occurred and what its text quotes: names, domains and messages.      *)
(* Severity, confidence and wording are left out; that a text which claims *)
(* that content was viewed raises an exception is not.                     *)
(***************************************************************************)
EXTENDS Activity, SequencesExt

CONSTANTS
  Limits,      \* the thresholds at the top of engine.py
  EvalWindow,  \* DEFAULT_EVAL_WINDOW
  Suffix,      \* the last two labels of a domain
  Anything,    \* the domain pattern "*"
  Viewing      \* names, domains and messages with a word like "read" or "watched"

ASSUME RulesAssumption ==
  /\ EvalWindow \in Nat
  /\ Limits \in [burst : Nat \ {0}, burstWindow : Nat \ {0}, volume : Nat \ {0}, ratio : Nat,
                 fresh : Nat \ {0}, freshRatio : Nat, outside : Nat \ {0},
                 flaps : Nat \ {0}, flapWindow : Nat \ {0},
                 burstSample : Nat, freshSample : Nat]

Rule == {"unknown_device_online", "blocked_query_burst", "dns_volume_increase",
         "activity_outside_expected_hours", "new_domain_burst", "connection_flapping",
         "unifi_security_event"}

\* _window_bucket.
Bucket(at, window) == at \div window

\* domain_pattern_from_evidence.
Pattern(domains) ==
  IF domains = {} THEN Anything
  ELSE IF Cardinality(domains) = 1 THEN CHOOSE d \in domains : TRUE
  ELSE IF Cardinality({Suffix[d] : d \in domains}) = 1
       THEN <<"*", CHOOSE s \in {Suffix[d] : d \in domains} : TRUE>>
  ELSE Anything

\* suppression_matching_key: of a draft, or of the row of a finding.
Matching(rule, about) ==
  [rule |-> rule, pattern |-> about.pattern,
   subject |-> IF about.device # None THEN about.device ELSE about.person]

\* Mutant: the fingerprint of a burst without the device.
FingerprintByTime(draft) == [rule |-> draft.rule, subject |-> None, at |-> draft.at]

\* _fingerprint.
Fingerprint(draft) == [rule |-> draft.rule, subject |-> draft.subject, at |-> draft.at]

Draft(rule, subject, at, device, person, evidence, domains, occurred, quoted) ==
  [rule |-> rule, subject |-> subject, at |-> at, device |-> device, person |-> person,
   evidence |-> evidence, pattern |-> Pattern(domains), occurred |-> occurred,
   quoted |-> quoted]

\* The domains that a text quotes: at most n, the first by name (here: some).
Sample(domains, n) ==
  IF Cardinality(domains) <= n THEN domains
  ELSE CHOOSE s \in SUBSET domains : Cardinality(s) = n

\* subject_label: the person's name, else the device's.
Label(device, person) == {IF person # None THEN person ELSE device}

-----------------------------------------------------------------------------
Earliest(events) == Min({e.at : e \in events})
Latest(events) == Max({e.at : e \in events})

\* Mutant: the far end of the window does not belong to it.
SpanOpen(events, to, window) == WithinAfter(events, to - window, to)

\* The events that the sliding window holds when its right end is at to.
Span(events, to, window) == Within(events, to - window, to)

\* The first of the longest spans, or none if all are too short.
BestSpan(events, min, window) ==
  LET spans == {Span(events, e.at, window) : e \in events}
      long == {s \in spans : /\ Cardinality(s) >= min
                             /\ \A u \in spans : Cardinality(u) <= Cardinality(s)}
  IN IF long = {} THEN {}
     ELSE CHOOSE s \in long : \A u \in long : Latest(s) <= Latest(u)

\* rule_unknown_device_online.  A device is [device, unknown, seen, person, online].
UnknownOnline(devices, now) ==
  {Draft("unknown_device_online", c.device, Bucket(now, HourLength), c.device, c.person,
         {}, {}, c.seen, Label(c.device, c.person)) :
     c \in {c \in devices : c.unknown /\ c.online}}

\* rule_blocked_query_burst; lookups that are not attributed share a subject.
BlockedBursts(lookups, person) ==
  LET best(d) == BestSpan({e \in lookups : e.blocked /\ e.device = d},
                          Limits.burst, Limits.burstWindow)
      device(b) == (CHOOSE e \in b : TRUE).device
  IN {Draft("blocked_query_burst", device(b), Bucket(Earliest(b), Limits.burstWindow), device(b),
            person[device(b)], b, Domains(b), Latest(b),
            Label(device(b), person[device(b)]) \cup Sample(Domains(b), Limits.burstSample)) :
        b \in {best(d) : d \in {e.device : e \in lookups}} \ {{}}}

\* rule_connection_flapping.  A transition is [row, at, move, mac, device].
\* Only the longest span is asked for moves of both kinds.
Flappings(transitions, person) ==
  LET key(t) == IF t.device # None THEN t.device ELSE t.mac
      best(k) == BestSpan({t \in transitions : key(t) = k}, Limits.flaps, Limits.flapWindow)
      one(b) == CHOOSE t \in b : TRUE
      both == {b \in {best(k) : k \in {key(t) : t \in transitions}} :
                 {"connect", "disconnect"} \subseteq {t.move : t \in b}}
  IN {Draft("connection_flapping", key(one(b)), Bucket(Earliest(b), Limits.flapWindow),
            one(b).device, person[one(b).device], b, {}, Latest(b),
            Label(one(b).device, person[one(b).device])) : b \in both}

\* rule_unifi_security_event.  An event is [row, at, mac, device, msg].
SecurityEvents(events, person) ==
  {Draft("unifi_security_event", e.row, None, e.device, person[e.device], {e}, {}, e.at,
         Label(e.device, person[e.device]) \cup {e.msg}) : e \in events}

-----------------------------------------------------------------------------
\* _build_subject_stats, for a device with lookups in the window.
Stats(device, lookups, prior, from, to) ==
  LET own == {e \in lookups : e.device = device}
  IN [device |-> device, lookups |-> own, from |-> from, to |-> to,
      dns |-> DnsTotals(own, from, to, prior)]

\* rule_dns_volume_increase: the ratio of the volume to the mean of the
\* baseline, or a deviation by the rules of the baseline itself.
VolumeIncreases(stats, baseline, person) ==
  LET metric == baseline.metrics["dns_query_volume"]
      volume == stats.dns.volume
  IN IF /\ volume >= Limits.volume
        /\ baseline # None /\ metric # None
        /\ \/ volume * metric.n >= Limits.ratio * metric.sum
           \/ DeviationKind(metric, volume) # None
     THEN {Draft("dns_volume_increase", stats.device, stats.to, stats.device, person[stats.device],
                 stats.lookups, {}, stats.to, Label(stats.device, person[stats.device]))}
     ELSE {}

\* rule_activity_outside_expected_hours.
OutsideHours(stats, typical, person) ==
  LET outside == {e \in stats.lookups : HourOf(e.at) \notin typical}
  IN IF typical # {} /\ Cardinality(outside) >= Limits.outside
     THEN {Draft("activity_outside_expected_hours", stats.device, stats.to, stats.device,
                 person[stats.device], outside, Domains(outside), Latest(outside),
                 Label(stats.device, person[stats.device]))}
     ELSE {}

\* rule_new_domain_burst.
NewDomains(stats, baseline, person) ==
  LET metric == baseline.metrics["new_domain_count"]
      fresh == stats.dns.fresh
  IN IF /\ Cardinality(fresh) >= Limits.fresh
        /\ \/ baseline = None
           \/ metric = None
           \/ Cardinality(fresh) * metric.n >= Limits.freshRatio * metric.sum
     THEN {Draft("new_domain_burst", stats.device, stats.to, stats.device, person[stats.device],
                 {}, fresh, stats.to,
                 Label(stats.device, person[stats.device]) \cup Sample(fresh, Limits.freshSample))}
     ELSE {}

\* list_schedules and the two dictionaries of evaluate_and_persist.  Schedules
\* come latest updated first and a later one overwrites: the oldest one wins.
Scheduled(schedules, whose, weekday) ==
  FoldLeft(LAMBDA hours, s : IF /\ s.whose = whose /\ s.active
                                /\ s.days = None \/ weekday \in s.days
                                /\ s.hours # {}
                             THEN s.hours ELSE hours,
           {}, schedules)

\* evaluate_rules: a person's schedule, else the device's, else the baseline.
TypicalOf(stats, baseline, schedules, person) ==
  LET mine == IF person[stats.device] = None THEN {}
              ELSE Scheduled(schedules, person[stats.device], Weekday(stats.to))
      its  == Scheduled(schedules, stats.device, Weekday(stats.to))
  IN IF mine # {} THEN mine ELSE IF its # {} THEN its
     ELSE IF baseline # None THEN baseline.hours ELSE {}

\* evaluate_rules, for the statistics of one device.
SubjectDrafts(stats, baseline, schedules, person) ==
  VolumeIncreases(stats, baseline, person)
    \cup OutsideHours(stats, TypicalOf(stats, baseline, schedules, person), person)
    \cup NewDomains(stats, baseline, person)
=============================================================================
