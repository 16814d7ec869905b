------------------------------- MODULE Dashboard -------------------------------
(***************************************************************************)
(* Three requests that put one answer together from many SELECTs: the      *)
(* summary of backend/app/dashboard/summary.py, and the activity and the   *)
(* recomputed baseline of backend/app/api/activity.py.  A session is READ  *)
(* COMMITTED, so each SELECT sees the database of its own moment: a        *)
(* request is the sequence of its SELECTs (Plan) and of the databases they *)
(* saw (view), and its answer a function of these.                         *)
(***************************************************************************)
EXTENDS Household, SequencesExt

CONSTANTS
  Child,          \* people whose role is CHILD
  Limits,         \* thresholds of the source health
  Clients,        \* raw_unifi_client: the snapshots of module Activity
  OnlineTicks,    \* device_online_seconds
  Window,         \* TREND_WINDOW, and the window of the baselines
  Samples,        \* windows of a baseline
  AttentionLimit, \* attention_limit
  RecentLimit,    \* recent_limit
  MaxRequests     \* bound on the requests

ASSUME DashboardAssumption ==
  /\ {"pihole_api", "unifi_api"} \subseteq Source
  /\ Child \subseteq Person /\ Samples \in Nat \ {0} /\ Window \in Nat
  /\ AttentionLimit \in Nat \ {0} /\ RecentLimit \in Nat /\ MaxRequests \in Nat

VARIABLES
  request,  \* None, or [kind, subject, at, view]
  answer,   \* of the request that has read everything, or None
  asked     \* how many requests there have been

vars == <<householdVars, request, answer, asked>>

-----------------------------------------------------------------------------
(* What a SELECT gives. *)

\* The device a lookup is attributed to.
Attributed(database) == {r \in Lookup : database.activity[r] \in Device}

\* resolve_subject_device_ids for a person, _person_device_map for a child.
DevicesOf(database, person) ==
  {l.device : l \in {k \in Range(database.links) : k.active /\ k.person = person}}

\* _load_dns_records.
Records(database, devices, from, to) ==
  Within({r \in Lookup : database.activity[r] \in devices}, from, to)

\* _load_prior_domains.
PriorDomains(database, devices, before) ==
  Domains({r \in Lookup : database.activity[r] \in devices /\ r.at < before})

\* load_unifi_records.
Traffic(devices, from, to) ==
  {s \in Clients : s.device \in devices /\ from <= s.at /\ s.at <= to}

\* ORDER BY queried_at DESC LIMIT: any order of rows of one time.
Newest(rows, limit) ==
  {S \in SUBSET rows :
     /\ Cardinality(S) = (IF Cardinality(rows) < limit THEN Cardinality(rows) ELSE limit)
     /\ \A r \in S, q \in rows \ S : q.at <= r.at}

Ordered(S) == CHOOSE s \in SetToSeqs(S) : \A i, j \in DOMAIN s : i < j => s[j].at <= s[i].at

-----------------------------------------------------------------------------
(* The summary. *)

\* The SELECTs of build_dashboard_summary that read what can change, without
\* those of its traffic and of the means of baselines, which it passes on.
SummaryPlan == <<"health", "devices", "owners", "review", "count", "links", "latest",
                 "blocked", "recent", "attributed", "volume">>

\* list_source_health.
StatusOf(database, s, at) == Evaluated(database.source[s], Limits, at)

\* incomplete_sources_from_health.
Incomplete(database, at) == {s \in Source : StatusOf(database, s, at) = "down"}

\* _load_device_views: SELECTs of devices and of their links.
Online(database, at) == {d \in Device : database.seen[d] >= at - OnlineTicks}
Owners(database, d) ==
  {l.person : l \in {k \in Range(database.links) : k.device = d /\ k.active}}

\* Mutant: a device must be both.
NoticedBoth(devices, owners, at) ==
  {d \in Online(devices, at) : devices.unknown[d] /\ Owners(owners, d) = {}}

\* unknown_unassigned_views.
Noticed(devices, owners, at) ==
  {d \in Online(devices, at) : devices.unknown[d] \/ Owners(owners, d) = {}}

Waiting(database) == {r \in Lookup : database.activity[r] = Review}

\* Mutant: the list is not cut.
AttentionItemsAll(troubled, shown, noticed) ==
  SetToSeq(troubled) \o Ordered(shown) \o SetToSeq(noticed)

\* build_attention_items: sources, lookups, devices, then cut.
AttentionItems(troubled, shown, noticed) ==
  LET all == SetToSeq(troubled) \o Ordered(shown) \o SetToSeq(noticed)
  IN SubSeq(all, 1, IF Len(all) < AttentionLimit THEN Len(all) ELSE AttentionLimit)

\* The activity a session has in hand: a row that it loaded before and still
\* holds keeps the attributes of that time, whatever the SELECT has found.
InHand(held, r, database) == IF r \in DOMAIN held THEN held[r] ELSE database.activity[r]

\* Mutant: rows are not looked up in the list.
AppendedTwice(items, rows) ==
  LET s == Ordered(rows)
      room == RecentLimit - Len(items)
  IN items \o SubSeq(s, 1, IF Len(s) < room THEN Len(s) ELSE room)

\* The loops of _load_recent_dns_activity: what is new, up to the limit.
Appended(items, rows) ==
  LET s == Ordered(rows \ Range(items))
      room == RecentLimit - Len(items)
  IN items \o SubSeq(s, 1, IF Len(s) < room THEN Len(s) ELSE room)

\* Mutant: everything that is not waiting is counted.
HouseholdRowsSettled(database, held, from, to) ==
  Within({r \in Lookup : database.activity[r] \notin {NoRow, Review}}, from, to)

\* _household_dns_today: attributed rows, without those whose object has no device.
HouseholdRows(database, held, from, to) ==
  Within({r \in Attributed(database) : InHand(held, r, database) \in Device}, from, to)

\* Mutant: presence in UniFi counts, whatever its state.
PresentAnyway(database, at, down) == Online(database, at)

\* A device is present by UniFi unless that is down.
Present(database, at, down) == IF "unifi_api" \in down THEN {} ELSE Online(database, at)

\* _latest_activity_by_device.
Lively(database, at, down) ==
  IF "pihole_api" \in down THEN {}
  ELSE {database.activity[r] : r \in {q \in Attributed(database) : q.at >= at - OnlineTicks}}

\* build_dashboard_summary, with the rows the LIMITs have let through.
SummaryAnswer(at, view, shown, blocked, recent, attributed) ==
  LET down     == Incomplete(view.health, at)
      troubled == {s \in Source : StatusOf(view.health, s, at) # "ok"}
      noticed  == Noticed(view.devices, view.owners, at)
      count    == Cardinality(troubled) + Cardinality(noticed) + Cardinality(Waiting(view.count))
      first    == Appended(<< >>, blocked)
      second   == Appended(first, recent)
      all      == Appended(second, attributed)
      fateIn(r) == IF r \in shown THEN Review
                   ELSE IF r \in Range(first) THEN view.blocked.activity[r]
                   ELSE IF r \in Range(second) THEN view.recent.activity[r]
                   ELSE view.attributed.activity[r]
      held     == [r \in shown \cup Range(all) |-> fateIn(r)]
      today    == HouseholdRows(view.volume, held, at - Window, at)
      active(c) == {d \in DevicesOf(view.links, c) :
                      \/ d \in Present(view.devices, at, down)
                      \/ d \in Lively(view.latest, at, down)}
  IN [calm     |-> down = {} /\ count = 0,
      down     |-> down,
      count    |-> count,
      items    |-> AttentionItems(troubled, shown, noticed),
      online   |-> IF "unifi_api" \in down THEN None ELSE Online(view.devices, at),
      noticed  |-> IF "unifi_api" \in down THEN None ELSE noticed,
      children |-> [c \in Child |-> active(c)],
      recent   |-> IF "pihole_api" \in down THEN None
                   ELSE [i \in DOMAIN all |->
                           [row |-> all[i], device |-> held[all[i]],
                            owners |-> IF held[all[i]] \in Device
                                       THEN Owners(view.owners, held[all[i]]) ELSE {},
                            kind |-> IF held[all[i]] = Review THEN "correlation_review"
                                     ELSE IF all[i].blocked THEN "blocked_dns"
                                     ELSE "attributed_dns"]],
      today    |-> IF "pihole_api" \in down THEN None ELSE today]

-----------------------------------------------------------------------------
(* Activity and baselines of a person. *)

\* collect_historical_summaries: the windows from the newest back, with both
\* ends of a window belonging to it.
WindowEnd(at, i) == at - (i - 1) * Window

\* _load_dns_records of window i; the three SELECTs of aggregate_activity that
\* read what can change are view[3 * i - 2] to view[3 * i].
WindowRows(subject, at, view, i) ==
  Records(view[3 * i - 1], DevicesOf(view[3 * i - 2], subject),
          WindowEnd(at, i) - Window, WindowEnd(at, i))

\* aggregate_activity; the snapshots of a device differ in their times.
WindowSummary(subject, at, view, i) ==
  LET devices == DevicesOf(view[3 * i - 2], subject)
      to      == WindowEnd(at, i)
      traffic == Traffic(devices, to - Window, to)
  IN Summary(WindowRows(subject, at, view, i), PriorDomains(view[3 * i], devices, to - Window),
             CHOOSE L \in LatestChoices(traffic, devices) : TRUE, to - Window, to)

\* compute_and_store_baseline, oldest window first.
BaselineAnswer(subject, at, view) ==
  [windows  |-> [i \in 1..Samples |-> WindowRows(subject, at, view, i)],
   baseline |-> Baseline(UsedSamples(
                  [i \in 1..Samples |-> WindowSummary(subject, at, view, Samples + 1 - i)]))]

\* get_activity, with the deviations from the stored baseline.
ActivityAnswer(subject, at, view) ==
  [windows    |-> <<WindowRows(subject, at, view, 1)>>,
   deviations |-> IF view[4].baselines[subject] = None THEN {}
                  ELSE Deviations(WindowSummary(subject, at, view, 1),
                                  view[4].baselines[subject])]

-----------------------------------------------------------------------------
(* Requests, one at a time; they meet each other only in what they commit. *)

Selects(kind) == CASE kind = "summary"  -> Len(SummaryPlan)
                   [] kind = "baseline" -> 3 * Samples
                   [] kind = "activity" -> 4

\* A request begins and takes the time.
Ask(kind, subject) ==
  /\ request = None \/ answer # None
  /\ asked < MaxRequests /\ asked' = asked + 1
  /\ request' = [kind |-> kind, subject |-> subject, at |-> now, view |-> << >>]
  /\ answer' = None
  /\ UNCHANGED householdVars

\* The next SELECT.
Select ==
  /\ request # None
  /\ Len(request.view) < Selects(request.kind)
  /\ request' = [request EXCEPT !.view = Append(@, db)]
  /\ UNCHANGED <<householdVars, answer, asked>>

Done(kind) ==
  /\ request # None /\ answer = None
  /\ request.kind = kind /\ Len(request.view) = Selects(kind)
  /\ UNCHANGED <<request, asked>>

\* get_dashboard_summary, with any rows that its LIMITs may let through.
AnswerSummary ==
  /\ Done("summary")
  /\ LET view  == [name \in Range(SummaryPlan) |->
                     request.view[CHOOSE i \in DOMAIN SummaryPlan : SummaryPlan[i] = name]]
         fresh(rows) == {r \in rows : r.at >= request.at - OnlineTicks}
         stored(database) == {r \in Lookup : database.activity[r] # NoRow}
     IN \E shown      \in Newest(Waiting(view.review), AttentionLimit),
           blocked    \in Newest(fresh({r \in stored(view.blocked) : r.blocked}), RecentLimit),
           recent     \in Newest(fresh(Waiting(view.recent)), RecentLimit),
           attributed \in Newest(fresh(Attributed(view.attributed)), RecentLimit) :
          answer' = SummaryAnswer(request.at, view, shown, blocked, recent, attributed)
  /\ UNCHANGED householdVars

\* get_baseline with recompute: the row is committed before the answer.
AnswerBaseline ==
  /\ Done("baseline")
  /\ answer' = BaselineAnswer(request.subject, request.at, request.view)
  /\ db' = [db EXCEPT !.baselines[request.subject] = answer'.baseline]
  /\ UNCHANGED <<now, assigning, changes>>

\* get_activity.
AnswerActivity ==
  /\ Done("activity")
  /\ answer' = ActivityAnswer(request.subject, request.at, request.view)
  /\ UNCHANGED householdVars

Init == HouseholdInit /\ request = None /\ answer = None /\ asked = 0

Outside == (Assignment \/ Ingest) /\ UNCHANGED <<request, answer, asked>>

Next ==
  \/ Outside
  \/ Ask("summary", None)
  \/ \E c \in Child, kind \in {"baseline", "activity"} : Ask(kind, c)
  \/ Select
  \/ AnswerSummary \/ AnswerBaseline \/ AnswerActivity

Spec == Init /\ [][Next]_vars

-----------------------------------------------------------------------------
(* Properties.  What was so in every database the request saw was so         *)
(* throughout; what was so in one of them was so at some time.               *)

Throughout(P(_)) == \A i \in DOMAIN request.view : P(request.view[i])
Sometime(P(_))   == \E i \in DOMAIN request.view : P(request.view[i])
Summarised       == answer # None /\ request.kind = "summary"

DashboardTypeOK ==
  /\ db.activity \in [Lookup -> Fate] /\ db.links \in Seq(Link)
  /\ \A s \in Source : StatusOf(db, s, now) \in Status
  /\ request # None => Len(request.view) <= Selects(request.kind)
  /\ Summarised =>
       /\ Len(answer.items) <= AttentionLimit
       /\ answer.recent # None => Len(answer.recent) <= RecentLimit
       /\ answer.count \in Nat /\ answer.down \subseteq Source

\* What needs a parent's attention during the whole request is counted and
\* listed, and the household is not called normal (derive_household_status,
\* build_attention_items: counted and listed from different SELECTs).
AttentionShown ==
  Summarised /\ (\/ \E s \in Source : Throughout(LAMBDA d : StatusOf(d, s, request.at) # "ok")
                 \/ \E r \in Lookup : Throughout(LAMBDA d : d.activity[r] = Review)
                 \/ \E e \in Device : Throughout(LAMBDA d :
                      d.seen[e] >= request.at - OnlineTicks /\ (d.unknown[e] \/ Owners(d, e) = {})))
    => ~answer.calm /\ answer.count > 0 /\ answer.items # << >>

\* A lookup that was attributed during the whole request is counted, and none
\* that never was, though the session holds older copies of some rows
\* (_household_dns_today); the windows of a baseline leave no lookup of the
\* subject out (collect_historical_summaries).
CountsBounded ==
  /\ Summarised /\ answer.today # None =>
       /\ \A r \in Within(Lookup, request.at - Window, request.at) :
            Throughout(LAMBDA d : r \in Attributed(d)) => r \in answer.today
       /\ \A r \in answer.today : Sometime(LAMBDA d : r \in Attributed(d))
  /\ answer # None /\ request.kind # "summary" =>
       \A r \in Within(Lookup, request.at - Len(answer.windows) * Window, request.at) :
         (\E e \in Device : Throughout(LAMBDA d : d.activity[r] = e /\ e \in DevicesOf(d, request.subject)))
           => r \in UNION Range(answer.windows)

\* A child is shown as active on a device that was theirs and was present or
\* looked something up, by a source that was not down; and one for whom all
\* this held during the whole request is shown (active_children: links,
\* devices and lookups come from three SELECTs).
ChildrenExact ==
  LET up(d, s)     == StatusOf(d, s, request.at) # "down"
      present(d, e) == d.seen[e] >= request.at - OnlineTicks
      lively(d, e)  == \E r \in Lookup : r.at >= request.at - OnlineTicks /\ d.activity[r] = e
  IN Summarised =>
       \A c \in Child, e \in Device :
         /\ e \in answer.children[c] =>
              /\ Sometime(LAMBDA d : e \in DevicesOf(d, c))
              /\ \/ /\ Sometime(LAMBDA d : up(d, "unifi_api"))
                    /\ Sometime(LAMBDA d : present(d, e))
                 \/ /\ Sometime(LAMBDA d : up(d, "pihole_api"))
                    /\ Sometime(LAMBDA d : lively(d, e))
         /\ Throughout(LAMBDA d : /\ e \in DevicesOf(d, c)
                                  /\ up(d, "unifi_api") /\ present(d, e))
              => e \in answer.children[c]
         /\ Throughout(LAMBDA d : /\ e \in DevicesOf(d, c)
                                  /\ up(d, "pihole_api") /\ lively(d, e))
              => e \in answer.children[c]

\* The recent list names a lookup once, by what it was at some time of the
\* request, and a blocked lookup is left out only for others that are not
\* older (_load_recent_dns_activity, three SELECTs into one list).
RecentHonest ==
  Summarised /\ answer.recent # None =>
    LET rows == [i \in DOMAIN answer.recent |-> answer.recent[i].row]
    IN /\ IsInjective(rows)
       /\ \A i \in DOMAIN answer.recent : LET item == answer.recent[i] IN
            /\ Sometime(LAMBDA d : d.activity[item.row] = item.device)
            /\ item.kind = "attributed_dns" => item.device \in Device
            /\ \A p \in item.owners : Sometime(LAMBDA d : p \in Owners(d, item.device))
       /\ \A r \in Lookup \ Range(rows) :
            /\ r.blocked /\ r.at >= request.at - OnlineTicks
            /\ Throughout(LAMBDA d : d.activity[r] # NoRow)
            => Len(rows) = RecentLimit /\ \A q \in Range(rows) : q.blocked /\ q.at >= r.at
=============================================================================
