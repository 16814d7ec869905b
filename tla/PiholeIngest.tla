------------------------------ MODULE PiholeIngest ------------------------------
(***************************************************************************)
(* pihole_poll_loop of backend/worker.py with the live ingest of           *)
(* backend/app/ingest/pihole.py, against a Pi-hole that keeps a log of     *)
(* queries.  A time is how many queries had reached Pi-hole by then: only  *)
(* the order of the queries and the polls matters, and no two queries have *)
(* one timestamp.  A query is known by its time, its place in log.  The    *)
(* worker takes `since` from its own clock and Pi-hole compares it with    *)
(* the times of its log: the worker's clock may be ahead or behind, at     *)
(* every poll by another amount of Skew.                                   *)
(*                                                                         *)
(* A payload is [legacy, domain, name, ip, status], fields that it lacks   *)
(* being Missing.                                                          *)
(***************************************************************************)
EXTENDS Integers, FiniteSets, Sequences

CONSTANTS
  Missing,       \* a field a payload does not have; no `since`
  Blocked,       \* _BLOCKED_STATUSES
  Cached,        \* _CACHED_STATUSES
  Length,        \* pihole_query_length
  Payloads,      \* what a query may look like
  Skew,          \* how far the worker's clock may be ahead of Pi-hole's
  MaxQueries     \* bound on the log

ASSUME PiholeAssumption ==
  /\ Length \in Nat \ {0} /\ MaxQueries \in Nat
  /\ Skew \subseteq Int /\ Missing \notin Int

VARIABLES
  log,      \* the payloads of Pi-hole, in order
  since,    \* of pihole_poll_loop, in memory
  poll,     \* the loop: [stage, page, seen, over], see Fetch
  rows,     \* dns_query: the queries that have a row, or several
  gap,      \* times between a fetch and its started_at, on Pi-hole's clock
  cut,      \* queries that a page had no room for
  again     \* queries stored by this process that `since` has not passed

piholeVars == <<log, since, poll, rows, gap, cut, again>>

Loop(stage) == [stage |-> stage, page |-> {}, seen |-> 0, over |-> {}]

-----------------------------------------------------------------------------
\* map_pihole_status.
Status(raw) == IF raw \in Cached THEN "cached" ELSE IF raw \in Blocked THEN "blocked" ELSE "allowed"

\* normalize_query with _client_fields; Missing if it raises.
Normalized(n) ==
  LET p == log[n]
  IN IF p.legacy \/ p.domain = Missing \/ (p.name = Missing /\ p.ip = Missing)
     THEN Missing
     ELSE [queried |-> n, domain |-> p.domain, ip |-> p.ip, status |-> Status(p.status),
           client |-> IF p.name # Missing THEN p.name ELSE p.ip]

\* What Pi-hole is asked for: everything at first, then from `since` on.
Asked(n) == since = Missing \/ n > since

\* Pi-hole answers with the newest Length of them.
Page(asked) == {n \in asked : Cardinality({m \in asked : m > n}) < Length}

\* A device of the household asks Pi-hole.
Query(payload) ==
  /\ Len(log) < MaxQueries
  /\ log' = Append(log, payload)
  /\ UNCHANGED <<since, poll, rows, gap, cut, again>>

\* fetch_queries: the page, the time of it, and what it had no room for.
Fetch ==
  /\ poll.stage = "due"
  /\ LET asked == {n \in DOMAIN log : Asked(n)}
     IN poll' = [stage |-> "fetched", page |-> Page(asked), seen |-> Len(log),
                 over |-> asked \ Page(asked)]
  /\ UNCHANGED <<log, since, rows, gap, cut, again>>

\* The request fails; _record_fetch_failure, and the loop sleeps.
FetchFails ==
  /\ poll.stage = "due"
  /\ poll' = Loop("asleep")
  /\ UNCHANGED <<log, since, rows, gap, cut, again>>

\* Mutant: what can be normalised of the page is stored.
StorablePart(page) == page # {}

\* persist_queries normalises the whole page before it adds a row.
Storable(page) == \A n \in page : Normalized(n) # Missing

\* Mutant: the time before the batch.
NextSinceKept(started) == since

\* since = batch.started_at.timestamp().
NextSince(started) == started

\* persist_queries adds a row for every query of the page.
StorePage ==
  /\ poll.stage = "fetched" /\ Storable(poll.page)
  /\ rows' = rows \cup {n \in poll.page : Normalized(n) # Missing}
  /\ poll' = Loop("asleep")

\* persist_queries and the commit of ingest_from_payloads.  started_at is
\* what the worker's clock shows at this step, after the fetch.
Persist ==
  /\ StorePage
  /\ \E skew \in Skew :
       LET started == Len(log) + skew
       IN /\ since' = NextSince(started)
          /\ gap' = gap \cup {n \in 1..MaxQueries : poll.seen < n /\ n <= started}
          /\ again' = {n \in rows' : n > started}
  /\ cut' = cut \cup poll.over
  /\ UNCHANGED log

\* The commit is done, its answer is lost: the loop sees an error and keeps
\* `since`.
PersistUnheard ==
  /\ StorePage
  /\ again' = again \cup poll.page
  /\ UNCHANGED <<log, since, gap, cut>>

\* A payload raises: the failed batch is recorded, `since` stays.
PersistFails ==
  /\ poll.stage = "fetched" /\ ~Storable(poll.page)
  /\ poll' = Loop("asleep")
  /\ UNCHANGED <<log, since, rows, gap, cut, again>>

\* The database fails: the session is rolled back, `since` stays.
PersistAborts ==
  /\ poll.stage = "fetched"
  /\ poll' = Loop("asleep")
  /\ UNCHANGED <<log, since, rows, gap, cut, again>>

\* The sleep ends and the intervals are read.
PollAgain ==
  /\ poll.stage = "asleep"
  /\ poll' = Loop("due")
  /\ UNCHANGED <<log, since, rows, gap, cut, again>>

\* The process ends: what the loop holds in memory is gone.
PollLost ==
  /\ poll' = Loop("down")
  /\ since' = Missing /\ again' = {}
  /\ UNCHANGED <<log, rows, gap, cut>>

\* The worker is started again.
PollStart ==
  /\ poll' = Loop("due")
  /\ UNCHANGED <<log, since, rows, gap, cut, again>>

PollInit ==
  /\ log = << >> /\ since = Missing
  /\ poll = Loop("due")
  /\ rows = {} /\ gap = {} /\ cut = {} /\ again = {}

PollStep == Fetch \/ Persist \/ PersistFails

-----------------------------------------------------------------------------
(* Properties. *)

\* A query that the next poll will not ask for has been stored, or it is one
\* of the two kinds the program gives up: its time is after a fetch and before
\* what the worker's clock showed when the page was stored, or a page had no
\* room for it.  Failed requests and batches, commits without an answer,
\* payloads that cannot be read, a clock that is set back and restarts lose
\* nothing else (ingest_live, and `since` in pihole_poll_loop).
LostOnlyInGap ==
  \A n \in DOMAIN log : ~Asked(n) => n \in rows \cup gap \cup cut

\* A payload that normalize_query refuses blocks the polls that get it.
Stuck == \E n \in DOMAIN log : Asked(n) /\ Normalized(n) = Missing

\* A query is stored in the end, or given up, or behind a payload that blocks
\* the polls (pihole_poll_loop: an error is logged and the poll repeated).
QueriesStored ==
  \A n \in 1..MaxQueries :
    n \in DOMAIN log ~> (Stuck \/ n \in rows \cup gap \cup cut)
=============================================================================
