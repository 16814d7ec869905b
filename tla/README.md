# Parent network dashboard: specifications

TLA+ models of the dashboard's backend, the TLC runs that check them and the
TLAPS proofs about them. `PROJECT.json` lists components, runs, theorems,
hazards and, per definition, the source lines it stands for.

    tlc -workers 2 -config MCCorrelation.cfg MCCorrelation
    tlapm CorrelationProofs.tla

## The system

Four processes: PostgreSQL, the API (FastAPI, one process), the worker (one
asyncio process with a loop per task) and the frontend (Next.js). API and
worker share nothing but the database. Every loop of the worker and every API
request has a database session of its own, under READ COMMITTED, and the ORM
writes back the columns it changed. All processes restart when they stop.

| component | state | operations | interacts through | hard | correct when |
|---|---|---|---|---|---|
| device identity (`identity/resolver.py`) | `device`, `device_identifier`, `ip_assignment` | resolve a sighting, confirm a name | UniFi poll, review | poll and confirmation overlap; random MACs; moves between addresses; the controller's own times | only a parent moves a binding, the addresses of a device form a chain, `is_unknown` exact |
| correlation (`correlate/engine.py`) | `dns_activity` | decide a window, upsert | reads identity and queries | evidence of two moments; a decision meanwhile | never a guess; a decided row is final |
| review (`api/correlation.py`) | `dns_activity`, `audit_log` | resolve, strengthen | identity in one transaction | double submit | resolved once, columns agree |
| live events (`events/`, `api/events.py`) | `stream_event`, watermark, bus, queues | publish, poll, subscribe | worker writes, API polls | late commits, full queues, restart | no event passed by, in order, gap closed |
| live feed (`use-live-events.ts`) | shown events, stream, requests | open, reopen, refill | SSE and recent list | lost streams | shows what was published |
| UniFi ingest (`ingest/unifi.py`) | raw clients and events, batches | poll | identity, source health | repeated events, failure in the middle | all of a poll or none |
| Pi-hole ingest (`ingest/pihole.py`) | `dns_query`, raw events, `since` | poll | source health | gap before `since`, two clocks, page limit, bad payload, lost answer, restart | every query once |
| syslog (`ingest/unifi_syslog.py`) | raw lines, queue of 10 000 | receive, store | source health | full queue, over-long line, failed insert, stop | every line stored |
| source health (`health/source_health.py`) | `source_health` | attempt, success, failure, refresh | all ingests, all dashboards | two sets of thresholds, refresh meanwhile | one alarm per outage |
| findings (`findings/`, `api/findings.py`, `api/suppressions.py`) | `finding`, `finding_feedback`, `finding_suppression` | evaluate, feedback, suppress | all tables, live events | suppression meanwhile, window fingerprints | dismissed stays dismissed |
| worker (`worker.py`) | the loops, `since` | start, poll, sleep | everything | one loop ends all | each loop goes on |
| people (`api/people.py`, `api/devices.py`) | `person`, `person_device` | assign, unassign | findings, dashboard | two assignments | one person per device |
| settings (`settings_store.py`, `api/settings.py`) | thresholds, schedules | patch | source health, worker | change meanwhile | readers and writers agree |
| activity and baselines (`activity/`, `api/activity.py`) | `activity_baseline` | aggregate, recompute, compare | reads identity, links and lookups | window ends, several SELECTs | no lookup left out |
| dashboard (`dashboard/summary.py`) | none | summarise | reads every table | eleven SELECTs, each of its own moment | shows what was so throughout, nothing that never was |
| system health (`health/system_health.py`) | heartbeat row | beat, report | read-only | none | out of scope |
| frontend session, proxy and pages | cookie | check, forward, render | API | stateless | out of scope |

## Modules

| module | models | extends |
|---|---|---|
| `DeviceIdentity` | identity tables, the worker's poll, a parent's confirmation | |
| `Correlation` | replay and review, composed with identity | `DeviceIdentity` |
| `LiveEvents` | worker transactions, poller, bus, streams, dashboards | |
| `HealthStatus` | how a source is judged | |
| `SourceHealth` | ingest cycles, reports, thresholds, source-down events | `HealthStatus` |
| `Activity` | summaries and baselines, as functions of the rows read | `HealthStatus` |
| `Rules` | the seven rules, fingerprints and matching keys | `Activity` |
| `Findings` | evaluation, feedback, suppressions, signals | `Rules` |
| `FindingLifecycle` | what a finding promises (abstract) | |
| `PiholeIngest` | the Pi-hole poll loop and Pi-hole's log | |
| `SyslogIngest` | sockets, queue and consumer of the listener | |
| `LineFeed` | what the listener promises (abstract) | |
| `Worker` | both ingests in one process that ends and restarts | `PiholeIngest`, `SyslogIngest` |
| `Household` | the rows a dashboard reads, assignments, ingests | `Activity` |
| `Dashboard` | summary, activity and baseline requests | `Household` |
| `Induction` | induction over the naturals, stated for sets | `FiniteSetTheorems`, `TLAPS` |
| `*Proofs` | proofs about `DeviceIdentity`, `Correlation`, `LiveEvents`, `SourceHealth`, `Findings`, `Worker`, `Dashboard` | that module, `TLAPS` or `Induction` |
| `MC*` | small instances for TLC | the module they check |

### Sessions

A session is the pair of what it has read (`base`) and what it has made of it
(`work`). Its commit merges the columns in which they differ into the committed
tables (`Written`, `MergedRow`): that is what an ORM UPDATE of the changed
columns does under READ COMMITTED. Rows of `device_identifier` are named by
their unique (kind, value), so an insert of a row that another session has
committed meanwhile is a collision (`Collides`) and the session can only abort.
PostgreSQL's row locks forbid some of the orders the merge allows; what the
model adds are orders in which the second writer waits, which end in the same
merge. A poll that fails is rolled back whole, because a payload is normalised
before the first client is resolved and a database error leaves the session
unusable.

### DeviceIdentity

`db` is the committed tables, `poll` the worker's session, `request[r]` a
parent's. `PollClient` is one turn of the loop in `persist_snapshot`, with all
of `resolve_observation`: match by MAC then UniFi id, bind or refresh every
identifier, end and open address intervals, recompute `is_unknown`. Each turn
reads afresh, on top of what the session has pending. A sighting carries
`first_seen` and `last_seen` as the controller gives them, in either order and
from a clock that need not agree with the worker's, or neither (`Stamp` is then
the worker's now): the intervals of `ip_assignment` are in these times.
`ConfirmBegin` is `confirm_device_identifier` for the Pi-hole client name and
the host name. Left out: display names, `last_seen` of a device,
`logic_version`, raw rows.

A controller may name a time before a device's latest move. The history is then
still a chain, each interval beginning where the last was ended, but an interval
may run backwards (`Backdated`) and others share its time: `LeaseHistoryLinear`
claims the chain for every history, and that no two intervals overlap for those
without such an interval.

### Correlation

`replay` is `correlate_time_range`: `ReplayBegin` loads queries and address
history, `ReplayQuery` decides one query (reading the identifiers and the
existing row then), `ReplayCommit` writes. `ReviewBegin` is
`resolve_review_item` up to its commit and takes the identity session of the
same request when the parent strengthens the identifier, so `ReviewCommit`
commits both or neither. Confidence is in hundredths, the evidence carries
what its row was read from. `Overlap` says whether a replay and reviews, or
two reviews, may overlap. With `FALSE` a decision is final; with `TRUE` the two
violations below appear. At present no process of the repository calls
`correlate_*` on a schedule, but two open tabs are enough for two reviews. What
the code promises with unrestricted overlap is proved: a decision is undone only by
a session that read the row before it (`DecisionFinalUnlessStale`), and a name
moves exactly with a recorded decision (`BindingMovesWithDecision`), because the
confirmation is part of the review's transaction.

### LiveEvents

`txn[w]` is a worker transaction, whose rows carry the time it began.
`FanOutRead` and `FanOutPublish` are the two halves of
`fanout_new_events_once`, separated by its await; publishing a page has no
await in it and is one step. `bus` holds the seen ids, the ring and each
subscriber's queue. A dashboard has a link, requests for recent events under
way (`asked`, `answers`) and what it shows. `published`, `fed`, `lost`,
`reopened` and `failed` are history variables. `Overlap` says whether
transactions of two writers may overlap. Left out: the display cap of the feed
and wording; the server notices a lost stream at once.

### SourceHealth

`cycle[s]` is the transaction of a source's only writer: `Attempt` and `Flush`
are `record_attempt` before and after its flush, `Success` and `Failure` the
outcome with its commit. `report[r]` is a request that derives every status
again and stores it, or the worker's check of the syslog source. Once a parent
has saved limits they replace the reader's own, the check's
`UNIFI_SYSLOG_STALE_SECONDS` included (`ReaderLimits`), which contradicts the
documents (finding 4). So `SilenceShows` asks whether a silent source is found
out at all, by the window in force. Each UPDATE
writes `checked_at`, so it locks the row until the commit; what it writes
besides is what changed since the SELECT, which may be old. The ORM does not
keep an unreferenced row alive after a flush, so the outcome reads the row
again, a status stored meanwhile included. `Paused` states the one assumption
about time: a report does not outlast the interval between two polls of a
source (syslog lines have no interval, but they record no failures either,
because `ingest_line` rolls a failed line back). `alarms` and `streak` are
history variables. Left out: details, attempt times and what the API answers.

### Activity, Rules

Pure definitions. A lookup or snapshot is a record with its time; a metric is
its number of samples with their sum and sum of squares, so that means and
deviations are compared without division, as the code compares them up to
rounding to six digits. The rules of volume and of new domains decide by these
metrics, and what they raise enters every property of findings; the traffic,
percentages and weekday volumes beside them are part of the answers of the
activity and baseline requests, and no property is about their arithmetic.
`Rules` keeps of a draft what identifies the finding
(`Fingerprint`), what a suppression matches (`Matching`), its evidence and the
names, domains and messages its text quotes (of a list of domains only the
sample that the text has room for, `Sample`); severity, confidence and wording
are left out. `BestSpan` is the sliding window, stated as the spans that end at
an event instead of the loop with its two indices.

### Findings

`ev` is the worker's session, one evaluation: `EvalRead` loads devices, lookups,
transitions, security events and statistics and applies the rules (each rule
reads one table of signals, so these reads are one step), `EvalFilter` reads the
suppressions, `EvalUpsert` looks up the fingerprints, `EvalCommit` writes
findings and events. `EvalFail` is an evaluation that raises: on a text with a
word that claims content was viewed (`Dishonest`), on an address `normalize_mac`
refuses, on the time of a controller event in milliseconds, or on moves with and
without a time zone (`Unreadable`). `SecurityNoticed` asks for progress past
crashes and feedback and excuses failed evaluations. `fb[p]` is a parent's
feedback with its read, flush and commit; the flush of a changed status locks
the row, the commit fails on a matching key that another request has inserted.
`Crash` restarts the worker at any stage. A household (devices, baselines,
schedules, possible signals) is fixed in a behaviour and chosen at the start.
`Lifecycle` maps the status of each committed finding and its count of events to
`FindingLifecycle`.

### PiholeIngest, SyslogIngest, Worker

A time is the number of queries that had reached Pi-hole: only the order of
queries and polls matters. `since` comes from the worker's clock and Pi-hole
compares it with its own: at every batch the worker's may be ahead or behind by
another amount of `Skew`. Pi-hole's clock itself is taken not to run backwards.
`Fetch` reads the page, `Persist` takes `started_at`, stores the batch and moves
`since`; what lies between the fetch and `started_at` on Pi-hole's clock goes to
`gap`, what the page had no room for to `cut`, what is stored and not yet passed
by `since` to `again` (all history). `rows` is the set of queries with a row,
since a second row of a query is a page that holds one of them
(`RepeatOnlyIfForgotten`). `PersistFails` is a payload that cannot be
normalised, `FetchFails` and `PersistAborts` are a failed request and a failed
transaction, `PersistUnheard` is a commit whose answer is lost. In
`SyslogIngest` a line is known by its place in the order of arrival; `Datagram`
puts lines until the queue is full, `Read` waits for room, `ReadFails` is the
end of a connection at an over-long line, one consumer stores. `Feed` maps the
listener to `LineFeed`: the lines up to `handled` are those out of the queue and
out of the consumer's hand. `Worker` runs both in one `asyncio.gather`: `End` is
the end of the process, which loses `since`, the queue and the open connections;
`Start` is its restart. Left out: authentication, field formats and the parsers
of syslog lines.

### Household, Dashboard

`db` is the committed rows that dashboards read. Assignments are modelled in
detail (`AssignRead` and `AssignCommit` of overlapping requests, `Unassign`),
the other writers by what they leave behind. A request is the sequence of its
SELECTs (of a summary: health, devices, links of their owners, waiting lookups,
their number, links of children, latest, blocked and recent lookups, attributed
lookups, volume): `Select` appends the database of that moment to `view`, and
the answer is a function of the databases seen (`SummaryAnswer`, `BaselineAnswer`,
`ActivityAnswer`). Rows that an ORM session has loaded keep their attributes
when a later SELECT returns them again (`InHand`). `unread` in a link notes, for
`OneOwnerUnlessOverlap`, which links the assignment had not read. A device that
has become known never becomes unknown again (`Sight`), as in `DeviceIdentity`,
where identifiers are added and moved and the strong ones stay. Left out: the
per-child baselines and traffic of a summary, counts of findings by severity,
trends and wording.

## Runs

| run | cfg | shows |
|---|---|---|
| `identity` | `MCDeviceIdentity.cfg` | unknown flag, address history and ownership of identifiers under overlapping polls and confirmations |
| `correlation` | `MCCorrelation.cfg` | no guess, coherent rows, one resolution, final decisions; evidence stays in the address history while a device moves away and back; names move with decisions |
| `replay_overlap` | `MCReplayOverlap.cfg` | **violated** `ManualResolutionKept`: a replay overwrites a decision made meanwhile |
| `review_overlap` | `MCReviewOverlap.cfg` | **violated** `ResolvedOnce`: two requests resolve one item |
| `live_events` | `MCLiveEvents.cfg` | no row passed by, order, newest kept, gap closed, all fanned out in the end |
| `late_commit` | `MCLateCommit.cfg` | **violated** `NoneSkipped`: a row that commits late stays behind the watermark |
| `source_health` | `MCSourceHealth.cfg` | no failure lost, an event per outage and none without, silence shows; a dashboard and the check overlap the cycles |
| `lenient_readers` | `MCLenientReaders.cfg` | **violated** `OneAlarmPerOutage`: readers with a higher limit make the worker repeat the event |
| `findings` | `MCFindings.cfg` | distinct fingerprints, exact bursts, suppressions obeyed, the life cycle refined, security events noticed in the end |
| `ingest` | `MCWorker.cfg` | what is lost and what is repeated by polls, two clocks, lost answers and restarts; the line feed refined; everything stored in the end or accounted for |
| `dropped_lines` | `MCDroppedLines.cfg` | **violated** `EveryLineAppended`: the rest of a datagram that meets a full queue is gone |
| `dashboard` | `MCDashboard.cfg` | answers put together from many SELECTs against a household that changes, owners of a device |

Bounds, and why they are enough. Identity (864,265 states): two MACs under one
UniFi id, two addresses, one shared name and a sighting without strong
identifier reach every branch of the resolver; some carry the controller's
times, late, early or in the wrong order, and some none; three devices allow a
conflict with a bystander; two clients per poll let one transaction build on
itself. Correlation (1,251,112 states): two addresses and three times, so that a
device leaves an address to another and returns, and a query in between whose
name one of them has; the two violations need two queries at the most.
Live events: pages of two, a ring and a queue of one, so that each overflows
with three events in two transactions; one restart and one lost stream. Source
health: an outage is two failures and silence one tick, so that a source
succeeds, goes down and recovers within the bounds; the saved limits are laxer
than the environment's. With stricter ones a report that commits between the
SELECT and the flush of an attempt can leave out an event, which
`OutageAlarmed` therefore does not claim. Device rows are symmetric; no
liveness run uses symmetry.

Findings (203,588 states): five households, each with up to three signals that
reach one group of rules (bursts; volume, hours and new domains with three
schedules; flapping by lines and events with an unreadable address; security
events with an unmapped client and a forbidden word; a security event beside
controller events with unreadable times). Texts quote one domain of a list.
Thresholds are two, so that two of three signals fire a rule and the third moves
the window; two ticks let signals be stored before and after an evaluation, two
judgements let feedback overlap feedback, one crash hits every stage. Ingest
(229,337 states): the two halves of `Worker` share only the end of the process,
so one is kept small while the other is busy (`Few`). Up to three queries
against pages of two, so that a page is cut, a query falls into the gap and a
payload blocks the polls, with two faults and a clock that is right, ahead or
behind by one; or up to three lines against a queue of two, so that a datagram
overflows, with one query and one fault; one restart at any point. Dashboard
(651,261 states): two devices and two people, four lookups on both sides of a
window's end, three starting databases, one request and two changes, which is
enough for a row to be read before one change, between the two and after both;
lists are cut at two. `findings` has no deadlock, since an evaluation follows
another; the runs of `LiveEvents`, `Worker` and `Dashboard` switch the check off
because their bounds end a behaviour.

Fairness. `live_events`: weak fairness of the poller's two steps. Its loop runs
every second, catches every exception and never leaves the loop before the
process stops; a failed read leaves the state unchanged. `source_health`: an
ingest transaction ends, since fetching has a timeout and precedes it; the
check begins again and again (`syslog_health_loop` catches everything), and is
not aborted for ever (strong fairness of its commit). Nothing is assumed of
dashboards and of sources. `findings`: weak fairness of the evaluation's steps,
whose loop catches every exception and sleeps a fixed interval, and of the steps
of a request once begun, since a lock is held only by a session that goes on;
nothing is assumed of parents, signals and crashes. `ingest`: weak fairness of
the poll and its sleep, of the consumer, of reading a connection and of the
restart (`restart: unless-stopped`); faults and the end of the process are not
fair, and queries and lines need not come. `dashboard` states no fairness.

## Proofs

Proved for every value of the constants that satisfies the assumptions of the
modules:

- `IdentityTypeOK`, `UnknownExactly` and `LeaseHistoryLinear`, whatever times the
  controller gives, as invariants,
  `OnlyParentMovesBinding` and `LeaseHistoryKept` as action properties of
  `IdentitySpec`. None of the invariants is inductive, because a commit
  depends on what the session read. `IdentityInv` says what a session still
  shares with the committed tables. The poll alone writes devices, flags,
  intervals and strong identifiers, so its base agrees with the tables on all
  of them (`SamePollOnly`), its work satisfies every invariant at the time of
  the poll (`Sound`), and it moves nothing that was bound. A request's work
  differs from its base in names only, and names devices that are committed.
  So when a poll commits without a collision, its work is the merge up to
  names, and when a request does, nothing the flags depend on changes.
  `HistoryInv` adds that the poll's intervals continue the committed ones.
- The theorems above hold in the composition as well (`IdentityUnderReview`);
  the lemma behind it, `CorrelationSpec => IdentitySpec`, follows from how
  `Correlation` is built on the identity actions.
- `CorrelationTypeOK`, `EvidenceInHistory`, `DecisionFinalUnlessStale` and
  `BindingMovesWithDecision` for `CorrelationSpec` without further assumption;
  `NeverGuess`, `RowCoherent` and `ResolvedOnce` under `~Overlap`. `RowInv` says that the evidence of
  every row, committed or pending, is an interval of the address history or an
  earlier form of one, and that a row a session read still exists.
  `DecisionInv` says that a row a replay has worked on is, given its base,
  what the engine decides or what it must leave, and that an open review's
  base is the committed row, still in the queue, and its work that row
  settled. For any overlap, `StaleInv` says that a replay keeps a decision it has
  read and a review has read a row in the queue, and `ConfirmInv` that an open
  confirmation belongs to an open review and changes only the name of its query.
- For `LiveEvents`, whether transactions overlap or not: `LiveTypeOK`,
  `FedInOrder`, `QueueKeepsNewest` and `GapClosed`. `RowInv` says that no two
  transactions, open or committed, hold a row together, and that a page read
  and not yet published lies after the watermark. `BusInv` adds that what a
  subscription was fed is committed, in order and not after the watermark, and
  that its queue is the latest part of it. Publishing a page is one step and a
  loop in the code, so the lemmas follow the bus from row to row: the fold is
  a sequence of states, and each part is kept from one to the next. `ViewInv`
  says that a stream that was reopened is refilled, or a request for recent
  events that will refill it is under way or answered (`Refilled`).
- `NoneSkipped` under `~Overlap`, for every page size. The invariant
  (`SkipInv`): every committed row is older than an open transaction, and what
  is after the watermark but not on the page is after the whole page. The
  second part holds when the page is read because a row left out has
  `PageSize` rows before it, which are then before everything else that is
  left out.
- For `SourceHealth`: `FailuresCounted` (a cycle under way has the count of
  the committed row, which it alone can change, and a row a report has read
  still exists when its status is stored); `HealthTypeOK` (a cycle has the
  success of the committed row, and a row without success was read without
  one, so that nothing but down is ever derived or stored for it);
  `OutageAlarmed` if no saved limit is below the worker's (`Lax`). A stored
  down may be stale, but a report that could store a stale one bars the next
  cycle, so whatever an open cycle finds stored as down since it began is down
  by the cycle's own count (`PolledAt`).
- For `Worker`, for any difference of the two clocks (`Skew`): `LostOnlyInGap` and
  `RepeatOnlyIfForgotten`. `PollInv` says that what a poll does not ask for is
  stored or given up, and that what is stored is behind `since`, in `again`, or
  stored by an earlier process. Besides, `FeedSpec` (the queue is a contiguous part of the places taken in, after the
  one in the consumer's hand and after all that is stored) and `WorkerTypeOK`.
- For `Findings`: `SuppressionObeyed` (what an evaluation holds is bound to
  the keys it read: no draft or row of it matches one of them, and a refresh
  creates no finding), `LifecycleSpec` (feedback names a committed finding,
  and no step of the worker writes a status) and `FindingsTypeOK`. They hold
  whatever the rules compute.
- For `Findings`, about what the rules compute: `DraftsDistinct` and
  `BurstsCaught`. The invariant is `StoredOnce`: the stored signals are finite
  and a line is stored once. `DraftsDistinct` then says that each rule drafts
  at most one finding per subject, so that rule, subject and window identify a
  draft. `BurstsCaught` compares the windows that begin at a lookup, which is
  how a reader thinks of a burst, with those that end at one, which is how the
  code counts: a full window of one kind moves to one of the other that holds
  no fewer lookups, and of finitely many windows one holds the most.
- For `Dashboard`: `OneOwnerUnlessOverlap` is inductive with the type of the
  links. The five properties of answers follow from `AnswerInv`: an answer is
  the function of the databases that its SELECTs saw, and every lookup has a
  fate in each of them. From that come `DashboardTypeOK`, `AttentionShown`,
  `CountsBounded` (the windows of a baseline leave no instant out, by
  induction on their number), `RecentHonest` and `ChildrenExact` (what a
  summary shows of children depends on four of the SELECTs only). `FlagInv` says
  that a device unknown in a database was so in every earlier one: `AttentionShown`
  needs it, since devices and their owners come from two SELECTs. A list is
  the CHOOSE of a sorted arrangement, so the proofs first show that a finite
  set has one.

Assumptions on constants, each in the module that declares the constant: the
value for "no event" is no mark of the stream; the lookups, devices and
sources of a household are finitely many and their times natural numbers;
starting databases are of their type and say of each device whether it is
unknown; `Skew` is any set of integers; the limit of a list of attention is at
least one (the default is five); the moves of a signal are connect, disconnect
or none, and a syslog line is known by its id; `Lax` and `~Overlap` where a
theorem names them.

Induction. The theorems of the library that take the property as an operator
cannot be instantiated by the installed provers. `Induction` states them for
sets instead: a set of naturals that has zero and each successor has every
natural, and a nonempty one has a least member. A proof by induction defines
the set of numbers for which the claim holds. That is enough for
cardinalities, sorted lists, the fold over a page and the windows of a
summary.

Only model-checked: the liveness properties `EventuallyFannedOut`,
`SilenceShows`, `SecurityNoticed`, `LinesStored` and `QueriesStored`, which
are out of the prover's reach, and `ManualResolutionKept`, of which
`DecisionFinalUnlessStale` is the provable form. The proofs use no fact about what sums,
quantiles and deviations of `Activity` compute; those definitions are
evaluated by the runs.

## Findings

1. A replay that read a row before a decision was committed writes over it
   (`correlate/engine.py:432`).
2. Two resolutions of one item both succeed (`api/correlation.py:172`).
3. An event whose transaction began earlier and committed later than another
   is never fanned out (`events/store.py:67`).
4. A source that is down is announced again when a report with a higher limit
   of failures has stored degraded meanwhile (`health/source_health.py:319`).
   The saved threshold also replaces `UNIFI_SYSLOG_STALE_SECONDS`, although
   `docs/unifi-syslog.md` and `config.py` say that this setting decides when a
   silent syslog source is degraded (`health/source_health.py:285`).
5. The rest of a datagram that meets a full queue is gone, although
   `docs/unifi-syslog.md` and the module say that every line received is appended
   (`ingest/unifi_syslog.py:519`). So is what follows an over-long line on a
   connection, and a line whose insert fails.

Besides, the models state what the code does where a reader may not expect it:

- one domain, name or message with a forbidden word, one syslog line with an
  address that is no MAC, or one controller event with its time in milliseconds
  or without a time zone beside others with one, fails every evaluation for as
  long as it is in the window (`findings/engine.py:114`, `:1194`, `:1257`,
  `:1276`); `SecurityNoticed` excuses it;
- a controller that names a time before a device's latest move makes an interval
  of `ip_assignment` run backwards and others overlap
  (`identity/resolver.py:210`), which the correlation takes as evidence;
- the controller's recent events are stored again by every poll, so one
  disconnect is several transitions to the flapping rule;
- three rules put the raw bounds of the window in the fingerprint, so each
  evaluation raises a new finding and dismissing one does not quiet it;
- security events of clients without a device share one suppression subject;
- flapping asks only the longest span for moves of both kinds, so a shorter span
  with both is not reported;
- of several schedules the one updated longest ago wins;
- the windows of a baseline share their ends, and a lookup there counts twice,
  although the docstring calls them non-overlapping (`activity/baseline.py:459`);
- a query that reaches Pi-hole between a fetch and its `started_at` is never
  asked for, nor what comes until Pi-hole's clock has reached a `since` that is
  ahead of it; after a restart, a lost acknowledgement or with a clock that is
  behind, queries are stored a second time;
- a list and a count of the same summary may be of two moments.

## Not modelled

- Parsers (syslog formats, payload fields, addresses) and authentication to
  sources: pure functions of one input or I/O. What a parsed line says is a
  field of a signal.
- System health: one loop writes a heartbeat row, a request reads it.
- Creating, renaming and deleting people, editing schedules, listings and their
  filters: requests that touch one row or read one table. The audit records
  they write are left out with them.
- Findings by severity, wording, the layout of trends, rounding.
- The operator's command line for UniFi, the replay of Pi-hole fixtures.
- Frontend session, proxy and pages: stateless, or rendering of answers.
- Migrations: schema only; the constraints that matter are guards of the models.

## Next steps

The heartbeat with system health, and the people and schedule requests with
their audit records, are the parts a further module would take. Further proofs
would be an abstract specification of the live feed that `LiveEvents`
implements, and lemmas on `Activity`: that the nearest rank of a nonempty list
is one of its members, and that a comparison without division is the comparison
of the means.
