-------------------------------- MODULE Findings --------------------------------
(***************************************************************************)
(* The findings of a household: the worker's evaluation (findings_loop of  *)
(* backend/worker.py, evaluate_and_persist of                              *)
(* backend/app/findings/engine.py) as one database session, and parents    *)
(* who judge findings and suppress or restore their kind                   *)
(* (backend/app/api/findings.py, backend/app/api/suppressions.py).         *)
(*                                                                         *)
(* A household is fixed: its devices, baselines and schedules, and the     *)
(* signals that may reach the database.  A signal is a lookup with its     *)
(* attribution, a syslog line or a controller event.  Each rule reads one  *)
(* table of signals, so the reads of an evaluation before the suppressions *)
(* are one step.                                                           *)
(***************************************************************************)
EXTENDS Rules

CONSTANTS
  Households,     \* the households looked at
  Parent,         \* requests of parents that can overlap
  Classification, \* the classifications they choose from
  Malformed,      \* addresses of lines that normalize_mac refuses
  OnlineTime,     \* device_online_seconds
  Start, MaxTime, \* bounds of the clock
  MaxJudgements,  \* bound on feedback and restored suppressions
  MaxCrashes      \* bound on crashes of the worker

ASSUME FindingsAssumption ==
  /\ None \notin Classification
  /\ Start \in Nat /\ MaxTime \in Nat /\ Start <= MaxTime
  /\ MaxJudgements \in Nat /\ MaxCrashes \in Nat

\* Signals are rows: a line is known by its id; its time and its move are read
\* from it (_classify_transition_kind).
ASSUME HouseholdsAssumption ==
  \A household \in Households :
    /\ \A s \in household.signals :
         /\ s.at \in Nat
         /\ s.kind \in {"line", "event"} => s.move \in {None, "connect", "disconnect"}
         /\ s.kind = "event" => s.time \in {"seconds", "millis", "naive"}
    /\ \A s, t \in household.signals :
         s.kind = "line" /\ t.kind = "line" /\ s.id = t.id => s = t

VARIABLES
  clock,
  house,       \* one of Households
  stored,      \* raw rows: [signal, at], at the time of storing
  findings,    \* committed findings by fingerprint
  suppressed,  \* matching keys of finding_suppression
  events,      \* committed live events per finding
  ev,          \* the evaluation of the worker
  fb,          \* open feedback requests
  judged,      \* feedback and restored suppressions so far
  crashes

vars == <<clock, house, stored, findings, suppressed, events, ev, fb, judged, crashes>>

Stage == {"due", "read", "filtered", "upserted", "asleep", "failed"}

\* An evaluation without results.
At(stage) == [stage |-> stage, drafts |-> {}, keys |-> {}, rows |-> << >>]

-----------------------------------------------------------------------------
(* The evaluation. *)

Ingested(kind) ==
  {r \in stored : r.signal.kind = kind /\ clock - EvalWindow <= r.at /\ r.at <= clock}

Person == [d \in DOMAIN house.devices \cup {None} |-> IF d = None THEN None ELSE house.devices[d].person]

\* _load_device_contexts.
DeviceContexts ==
  {[device |-> d, person |-> Person[d], unknown |-> house.devices[d].unknown,
    seen |-> house.devices[d].seen, online |-> house.devices[d].seen >= clock - OnlineTime] :
     d \in DOMAIN house.devices}

\* _load_lookups.
Lookups ==
  {s \in {r.signal : r \in stored} :
     s.kind = "lookup" /\ clock - EvalWindow <= s.at /\ s.at <= clock}

Owner(mac) == IF mac \in DOMAIN house.macs THEN house.macs[mac] ELSE None

\* Rows of _load_transitions: a line has the time it was stored, an event the
\* time of the controller, however often and whenever it was stored.
Transitions ==
  {[row |-> r, at |-> r.at, move |-> r.signal.move, mac |-> r.signal.mac,
    device |-> Owner(r.signal.mac)] :
     r \in {r \in Ingested("line") : r.signal.move # None}}
  \cup
  {[row |-> r, at |-> r.signal.at, move |-> r.signal.move, mac |-> r.signal.mac,
    device |-> Owner(r.signal.mac)] :
     r \in {r \in Ingested("event") : r.signal.move # None}}

\* Mutant: only the events of mapped clients.
SecurityMapped ==
  {[row |-> r.signal.id, at |-> r.at, mac |-> r.signal.mac, device |-> Owner(r.signal.mac),
    msg |-> r.signal.msg] :
     r \in {r \in Ingested("line") : r.signal.security /\ Owner(r.signal.mac) # None}}

\* _load_security_events.
Security ==
  {[row |-> r.signal.id, at |-> r.at, mac |-> r.signal.mac, device |-> Owner(r.signal.mac),
    msg |-> r.signal.msg] :
     r \in {r \in Ingested("line") : r.signal.security}}

\* A time without a zone: the datetime of an event, as the controller writes it.
Naive(t) == t.row.signal.kind = "event" /\ t.row.signal.time = "naive"

\* What raises while the rows are loaded: normalize_mac on an address that
\* _optional_mac let pass; fromtimestamp on the milliseconds of an event of
\* any kind; the sort of moves with and without a zone.
Unreadable ==
  \/ \E t \in Transitions \cup Security : t.mac \in Malformed
  \/ \E r \in Ingested("event") : r.signal.time = "millis"
  \/ \E t, u \in Transitions : Naive(t) /\ ~Naive(u)

\* _build_subject_stats.
SubjectStats ==
  {Stats(d, Lookups, house.prior[d], clock - EvalWindow, clock) :
     d \in {s.device : s \in Lookups} \ {None}}

\* evaluate_rules, on what was loaded.
AllDrafts ==
  UnknownOnline(DeviceContexts, clock)
    \cup BlockedBursts(Lookups, Person)
    \cup Flappings(Transitions, Person)
    \cup SecurityEvents(Security, Person)
    \cup UNION {SubjectDrafts(s, house.baselines[s.device], house.schedules, Person) :
                  s \in SubjectStats}

\* FindingDraft.__post_init__ raises on the text of one draft.
Dishonest == \E d \in AllDrafts : d.quoted \cap Viewing # {}

Poisoned == Unreadable \/ Dishonest

\* evaluate_and_persist up to evaluate_rules.
EvalRead ==
  /\ ev.stage = "due" /\ ~Poisoned
  /\ ev' = [At("read") EXCEPT !.drafts = AllDrafts]
  /\ UNCHANGED <<clock, house, stored, findings, suppressed, events, fb, judged, crashes>>

\* findings_loop: the exception is logged, the session rolled back.
EvalFail ==
  /\ ev.stage = "due" /\ Poisoned
  /\ ev' = At("failed")
  /\ UNCHANGED <<clock, house, stored, findings, suppressed, events, fb, judged, crashes>>

\* Mutant: the key of a draft without its domains.
FilteredBySubject(drafts, keys) ==
  {d \in drafts : Matching(d.rule, [d EXCEPT !.pattern = Anything]) \notin keys}

\* filter_suppressed_drafts.
Filtered(drafts, keys) == {d \in drafts : Matching(d.rule, d) \notin keys}

\* load_suppression_keys.
EvalFilter ==
  /\ ev.stage = "read"
  /\ ev' = [ev EXCEPT !.stage = "filtered", !.keys = suppressed,
                      !.drafts = Filtered(ev.drafts, suppressed)]
  /\ UNCHANGED <<clock, house, stored, findings, suppressed, events, fb, judged, crashes>>

Row(draft) == [device |-> draft.device, person |-> draft.person, pattern |-> draft.pattern]

\* upsert_finding of every draft: the fingerprints to insert or refresh.
Upserted(drafts) ==
  LET keys == {Fingerprint(d) : d \in drafts}
      open == {k \in keys : k \in DOMAIN findings =>
                              findings[k].status \notin {"dismissed", "resolved"}}
  IN [k \in open |-> Row(CHOOSE d \in drafts : Fingerprint(d) = k)]

EvalUpsert ==
  /\ ev.stage = "filtered"
  /\ ev' = [ev EXCEPT !.stage = "upserted", !.rows = Upserted(ev.drafts)]
  /\ UNCHANGED <<clock, house, stored, findings, suppressed, events, fb, judged, crashes>>

\* Mutant: a refresh writes the default status as well.
StatusReset(k) == "open"

\* The status column after the commit: a refresh does not touch it.
StatusAfter(k) == IF k \in DOMAIN findings THEN findings[k].status ELSE "open"

\* Feedback that has updated its finding and not committed yet.
Locked(p) == fb[p] # None /\ fb[p].flushed /\ fb[p].writes

\* The flushes and the commit of findings_loop, with the events of
\* publish_finding_created.  An update waits for the lock of a feedback.
EvalCommit ==
  /\ ev.stage = "upserted"
  /\ \A p \in Parent : Locked(p) => fb[p].key \notin DOMAIN ev.rows
  /\ findings' = [k \in DOMAIN findings \cup DOMAIN ev.rows |->
                    IF k \in DOMAIN ev.rows
                    THEN [status |-> StatusAfter(k), about |-> ev.rows[k]]
                    ELSE findings[k]]
  /\ events' = [k \in DOMAIN findings \cup DOMAIN ev.rows |->
                  IF k \in DOMAIN findings THEN events[k] ELSE 1]
  /\ ev' = At("asleep")
  /\ UNCHANGED <<clock, house, stored, suppressed, fb, judged, crashes>>

\* The sleep of findings_loop ends.
Wake ==
  /\ ev.stage \in {"asleep", "failed"}
  /\ ev' = At("due")
  /\ UNCHANGED <<clock, house, stored, findings, suppressed, events, fb, judged, crashes>>

\* The worker dies; its transaction is rolled back and it is started again.
Crash ==
  /\ crashes < MaxCrashes /\ ev.stage \notin {"due", "asleep", "failed"}
  /\ crashes' = crashes + 1
  /\ ev' = At("due")
  /\ UNCHANGED <<clock, house, stored, findings, suppressed, events, fb, judged>>

-----------------------------------------------------------------------------
(* Parents. *)

\* Mutant: a status that the table does not map stays as it was sent.
StatusForUnmapped(class) == IF class = "concerning" THEN "acknowledged" ELSE class

\* _STATUS_BY_CLASSIFICATION.
StatusFor(class) ==
  CASE class \in {"concerning", "needs_investigation", "acknowledge"} -> "acknowledged"
    [] class = "resolve" -> "resolved"
    [] OTHER -> "dismissed"

\* submit_finding_feedback, SELECT of the finding; its matching key comes
\* from the evidence in the row that was read.  A status that is the same as
\* before is not written.
FeedbackRead(p, k, class) ==
  /\ fb[p] = None /\ judged < MaxJudgements
  /\ judged' = judged + 1
  /\ fb' = [fb EXCEPT ![p] = [key |-> k, status |-> StatusFor(class), flushed |-> FALSE,
                              writes |-> findings[k].status # StatusFor(class),
                              match |-> Matching(k.rule, findings[k].about),
                              insert |-> class = "suppress_similar"]]
  /\ UNCHANGED <<clock, house, stored, findings, suppressed, events, ev, crashes>>

\* The flush of the new status locks the row; then a suppression is looked for.
FeedbackFlush(p) ==
  /\ fb[p] # None /\ ~fb[p].flushed
  /\ fb[p].writes => \A q \in Parent : Locked(q) => fb[q].key # fb[p].key
  /\ fb' = [fb EXCEPT ![p].flushed = TRUE,
                      ![p].insert = fb[p].insert /\ fb[p].match \notin suppressed]
  /\ UNCHANGED <<clock, house, stored, findings, suppressed, events, ev, judged, crashes>>

\* The commit; the unique key of matching_key refuses a second suppression.
FeedbackCommit(p) ==
  /\ fb[p] # None /\ fb[p].flushed
  /\ fb[p].insert => fb[p].match \notin suppressed
  /\ findings' = IF fb[p].writes THEN [findings EXCEPT ![fb[p].key].status = fb[p].status]
                 ELSE findings
  /\ suppressed' = IF fb[p].insert THEN suppressed \cup {fb[p].match} ELSE suppressed
  /\ fb' = [fb EXCEPT ![p] = None]
  /\ UNCHANGED <<clock, house, stored, events, ev, judged, crashes>>

\* The session is rolled back.
FeedbackAbort(p) ==
  /\ fb[p] # None /\ fb[p].flushed /\ fb[p].insert /\ fb[p].match \in suppressed
  /\ fb' = [fb EXCEPT ![p] = None]
  /\ UNCHANGED <<clock, house, stored, findings, suppressed, events, ev, judged, crashes>>

\* delete_suppression.
Unsuppress(match) ==
  /\ judged < MaxJudgements
  /\ judged' = judged + 1
  /\ suppressed' = suppressed \ {match}
  /\ UNCHANGED <<clock, house, stored, findings, events, ev, fb, crashes>>

-----------------------------------------------------------------------------
(* The signals. *)

\* The commit of an ingest.  The recent events of the controller are stored
\* again by every poll.
Store(s) ==
  /\ s.at <= clock
  /\ s.kind = "event" \/ s \notin {r.signal : r \in stored}
  /\ [signal |-> s, at |-> clock] \notin stored
  /\ stored' = stored \cup {[signal |-> s, at |-> clock]}
  /\ UNCHANGED <<clock, house, findings, suppressed, events, ev, fb, judged, crashes>>

Tick ==
  /\ clock < MaxTime
  /\ clock' = clock + 1
  /\ UNCHANGED <<house, stored, findings, suppressed, events, ev, fb, judged, crashes>>

Init ==
  /\ clock = Start
  /\ house \in Households
  /\ stored = {} /\ findings = << >> /\ suppressed = {} /\ events = << >>
  /\ ev = At("due")
  /\ fb = [p \in Parent |-> None]
  /\ judged = 0 /\ crashes = 0

Evaluate == EvalRead \/ EvalFail \/ EvalFilter \/ EvalUpsert \/ EvalCommit \/ Wake
Answer(p) == FeedbackFlush(p) \/ FeedbackCommit(p) \/ FeedbackAbort(p)

Next ==
  \/ Evaluate \/ Crash \/ Tick
  \/ \E p \in Parent : Answer(p)
  \/ \E p \in Parent, k \in DOMAIN findings, class \in Classification : FeedbackRead(p, k, class)
  \/ \E match \in suppressed : Unsuppress(match)
  \/ \E s \in house.signals : Store(s)

Fairness == WF_vars(Evaluate) /\ \A p \in Parent : WF_vars(Answer(p))

Spec == Init /\ [][Next]_vars /\ Fairness

-----------------------------------------------------------------------------
(* Properties. *)

Match(d) == Matching(d.rule, d)

\* Findings, suppressions, the open session of the worker and those of parents
\* are well typed; a finding has an event exactly if it is committed.
FindingsTypeOK ==
  /\ clock \in Start..MaxTime /\ house \in Households
  /\ \A r \in stored : r.signal \in house.signals /\ r.at \in Start..MaxTime
  /\ \A k \in DOMAIN findings :
       /\ k.rule \in Rule
       /\ findings[k].status \in {"open", "acknowledged", "dismissed", "resolved"}
  /\ DOMAIN events = DOMAIN findings
  /\ ev.stage \in Stage
  /\ \A m \in suppressed \cup ev.keys : m.rule \in Rule
  /\ \A p \in Parent : fb[p] # None => fb[p].key \in DOMAIN findings

\* No two drafts of one evaluation share a fingerprint: the second would be
\* taken for the first, and one of the conditions would have no finding
\* (upsert_finding of backend/app/findings/engine.py).
DraftsDistinct ==
  \A d, e \in ev.drafts : Fingerprint(d) = Fingerprint(e) => d = e

\* The sliding window misses no burst and sees none: a device has a burst
\* finding exactly if some window of the rule's length holds enough of its
\* blocked lookups, both ends included (rule_blocked_query_burst); and what
\* a flapping finding reports are moves of both kinds in one window
\* (rule_connection_flapping).
BurstsCaught ==
  ev.stage = "due" =>
  /\ \A d \in DOMAIN house.devices \cup {None} :
       LET own == {e \in Lookups : e.blocked /\ e.device = d}
       IN (\E e \in own : Cardinality(Within(own, e.at, e.at + Limits.burstWindow)) >= Limits.burst)
            <=> \E x \in BlockedBursts(Lookups, Person) : x.device = d
  /\ \A x \in Flappings(Transitions, Person) :
       /\ Cardinality(x.evidence) >= Limits.flaps
       /\ Latest(x.evidence) - Earliest(x.evidence) <= Limits.flapWindow
       /\ {t.move : t \in x.evidence} = {"connect", "disconnect"}

\* A new finding is of a suppressed kind only if the parent's suppression was
\* committed after the evaluation had read the suppressions: a kind that was
\* suppressed before is not raised (filter_suppressed_drafts against
\* submit_finding_feedback and delete_suppression).
SuppressionObeyed ==
  [][\A k \in DOMAIN findings' \ DOMAIN findings :
       LET match == Matching(k.rule, findings'[k].about)
       IN match \in suppressed => match \notin ev.keys]_vars

\* Evaluations, crashes and overlapping feedback implement the life cycle of a
\* finding: raised once and announced once, never open again after a parent
\* has judged it.
Lifecycle == INSTANCE FindingLifecycle
               WITH status <- [k \in DOMAIN findings |-> findings[k].status],
                    announced <- events
LifecycleSpec == Lifecycle!Spec

\* What may keep a stored security event from being noticed: its kind is
\* suppressed, or something else in the window makes the evaluation fail.
Excused(s) ==
  \/ \E m \in suppressed : m.rule = "unifi_security_event" /\ m.subject = Owner(s.mac)
  \/ ev.stage = "failed"

\* A security event that has been stored becomes a finding in the end,
\* whatever crashes and feedback come in between, unless it is excused
\* (findings_loop of backend/worker.py, every minute over 24 hours).
SecurityNoticed ==
  \A s \in {s \in UNION {h.signals : h \in Households} : s.kind = "line" /\ s.security} :
    s \in {r.signal : r \in stored}
      ~> (\/ \E k \in DOMAIN findings : k.rule = "unifi_security_event" /\ k.subject = s.id
          \/ Excused(s))
=============================================================================
