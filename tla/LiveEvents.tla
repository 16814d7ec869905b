------------------------------- MODULE LiveEvents -------------------------------
(***************************************************************************)
(* The live feed: backend/app/events and frontend/src/hooks/               *)
(* use-live-events.ts.                                                     *)
(*                                                                         *)
(* The worker's transactions insert rows into stream_event.  The API       *)
(* process polls the table past a watermark and publishes what it finds on *)
(* its in-process bus, whose bounded queues feed the browsers' event       *)
(* streams.  A browser that lost its stream reconnects and asks for the    *)
(* recent events.                                                          *)
(***************************************************************************)
EXTENDS Naturals, FiniteSets, SequencesExt

CONSTANTS
  Event,        \* ids of stream_event rows, naturals so that they have an order
  Rank,         \* place of an event in the order severity, occurred_at, id
  Writer,       \* worker tasks that write events
  Browser,      \* dashboards that are open
  PageSize,     \* rows the poller loads at a time (100)
  Capacity,     \* of the bus's ring of recent events (500)
  QueueSize,    \* of a subscriber's queue (256)
  Backfill,     \* events a browser asks for (50)
  Overlap,      \* whether transactions of two writers may overlap
  None,         \* no row, no watermark
  MaxTxns,      \* bound on the transactions begun
  MaxRestarts,  \* bound on the restarts of the API process
  MaxDrops      \* bound on the streams lost without a restart

ASSUME LiveEventsAssumption ==
  /\ Event \subseteq Nat /\ IsFiniteSet(Event)
  /\ Rank \in [Event -> Nat]
  /\ \A e, f \in Event : e # f => Rank[e] # Rank[f]
  /\ {PageSize, Capacity, QueueSize, Backfill} \subseteq Nat \ {0}
  /\ Overlap \in BOOLEAN
  /\ None \notin Nat \cup (Nat \X Event)
  /\ {MaxTxns, MaxRestarts, MaxDrops} \subseteq Nat

VARIABLES
  clock,    \* transactions begun, which tells their times apart
  txn,      \* the open transaction of each writer
  stream,   \* created_at of the committed rows
  poller,   \* watermark and page of the fan-out task
  bus,      \* the API process's bus
  browser,  \* the dashboards
  budget    \* restarts and lost streams so far

vars == <<clock, txn, stream, poller, bus, browser, budget>>

-----------------------------------------------------------------------------
NoTxn == [open |-> FALSE, at |-> 0, events |-> {}]

\* lost and fed are history: what a full queue dropped, and all that was
\* put into the queue of the present subscription.
NewBus ==
  [seen   |-> {},
   recent |-> <<>>,
   queue  |-> [b \in Browser |-> <<>>],
   fed    |-> [b \in Browser |-> <<>>],
   lost   |-> [b \in Browser |-> {}]]

\* page holds the rows read and not yet published; published is history.
NewPoller == [mark |-> None, page |-> {}, published |-> {}]

\* asked counts requests for recent events that the API has not read yet,
\* answers holds the responses under way.  reopened and failed are history.
NewBrowser ==
  [link |-> "down", refill |-> FALSE, asked |-> 1, answers |-> {}, view |-> {},
   opened |-> FALSE, reopened |-> FALSE, failed |-> FALSE]

Committed == {e \in Event : stream[e] # None}
Earlier(m, n) == m[1] < n[1] \/ (m[1] = n[1] /\ m[2] < n[2])
Mark(e) == <<stream[e], e>>

\* Mutant: rows of the watermark's own time are left out.
AfterTime(e, mark) == mark = None \/ mark[1] < stream[e]

After(e, mark) == mark = None \/ Earlier(mark, Mark(e))

\* list_events_since: the first rows after the watermark.
RowsAfter(mark) ==
  LET rows == {e \in Committed : After(e, mark)}
  IN {e \in rows : Cardinality({f \in rows : Earlier(Mark(f), Mark(e))}) < PageSize}

Listings(rows) ==
  {s \in [1..Cardinality(rows) -> rows] : \A e \in rows : \E i \in DOMAIN s : s[i] = e}

\* Mutant: the rows are published in the order of their ids.
InOrderById(rows) == {s \in Listings(rows) : \A i, j \in DOMAIN s : i < j => s[i] < s[j]}

\* The one listing in the order of time.
InOrder(rows) ==
  {s \in Listings(rows) : \A i, j \in DOMAIN s : i < j => Earlier(Mark(s[i]), Mark(s[j]))}

\* list_recent_events: the most important rows, newest first among equals.
Recent(rows) == {e \in rows : Cardinality({f \in rows : Rank[f] > Rank[e]}) < Backfill}

\* Mutants: a queue without a bound, a full queue refuses the new event.
EnqueuedUnbounded(q, e) == Append(q, e)
EnqueuedIfRoom(q, e) == IF Len(q) < QueueSize THEN Append(q, e) ELSE q

\* put_nowait, once the oldest item has made room for it.
Enqueued(q, e) == Append(IF Len(q) < QueueSize THEN q ELSE Tail(q), e)

Subscribed(b) == browser[b].link # "down"

\* EventBus.publish.
Published(s, e) ==
  IF e \in s.seen THEN s
  ELSE LET more == s.seen \cup {e}
           full(b) == Len(s.queue[b]) >= QueueSize
       IN [s EXCEPT
             !.seen   = IF Cardinality(more) > 2 * Capacity
                        THEN ToSet(s.recent) \cup {e} ELSE more,
             !.recent = Append(IF Len(@) < Capacity THEN @ ELSE Tail(@), e),
             !.queue  = [b \in Browser |-> IF Subscribed(b) THEN Enqueued(@[b], e) ELSE @[b]],
             !.fed    = [b \in Browser |-> IF Subscribed(b) THEN Append(@[b], e) ELSE @[b]],
             !.lost   = [b \in Browser |-> IF Subscribed(b) /\ full(b)
                                           THEN @[b] \cup {Head(s.queue[b])} ELSE @[b]]]

-----------------------------------------------------------------------------
(***************************************************************************)
(* A worker task: created_at is the time its transaction began, and the    *)
(* rows are there for others from the commit on.                           *)
(***************************************************************************)
TxnBegin(w) ==
  /\ ~txn[w].open
  /\ Overlap \/ \A v \in Writer : ~txn[v].open
  /\ clock < MaxTxns
  /\ clock' = clock + 1
  /\ txn' = [txn EXCEPT ![w] = [open |-> TRUE, at |-> clock, events |-> {}]]
  /\ UNCHANGED <<stream, poller, bus, browser, budget>>

\* publish_stream_event; the bus it also publishes on is the worker's own,
\* which has no subscriber.
TxnInsert(w, e) ==
  /\ txn[w].open
  /\ e \notin Committed /\ \A v \in Writer : e \notin txn[v].events
  /\ txn' = [txn EXCEPT ![w].events = @ \cup {e}]
  /\ UNCHANGED <<clock, stream, poller, bus, browser, budget>>

TxnCommit(w) ==
  /\ txn[w].open
  /\ stream' = [e \in Event |-> IF e \in txn[w].events THEN txn[w].at ELSE stream[e]]
  /\ txn' = [txn EXCEPT ![w] = NoTxn]
  /\ UNCHANGED <<clock, poller, bus, browser, budget>>

TxnAbort(w) ==
  /\ txn[w].open
  /\ txn' = [txn EXCEPT ![w] = NoTxn]
  /\ UNCHANGED <<clock, stream, poller, bus, browser, budget>>

(***************************************************************************)
(* fanout_new_events_once: the read awaits the database, the loop over the *)
(* rows then runs without a pause.  A read that fails changes nothing.     *)
(***************************************************************************)
FanOutRead ==
  /\ poller.page = {}
  /\ RowsAfter(poller.mark) # {}
  /\ poller' = [poller EXCEPT !.page = RowsAfter(poller.mark)]
  /\ UNCHANGED <<clock, txn, stream, bus, browser, budget>>

FanOutPublish ==
  /\ poller.page # {}
  /\ \E rows \in InOrder(poller.page) :
       /\ bus' = FoldLeft(Published, bus, rows)
       /\ poller' = [mark |-> Mark(Last(rows)), page |-> {},
                     published |-> poller.published \cup poller.page]
  /\ UNCHANGED <<clock, txn, stream, browser, budget>>

(***************************************************************************)
(* A dashboard.  It asks for the recent events when it is opened, and the  *)
(* stream is opened at the same time.                                      *)
(***************************************************************************)
\* stream_events subscribes before it sends anything.
Subscribe(b) ==
  /\ browser[b].link = "down"
  /\ browser' = [browser EXCEPT ![b].link = "subscribed"]
  /\ bus' = [bus EXCEPT !.queue[b] = <<>>, !.fed[b] = <<>>]
  /\ UNCHANGED <<clock, txn, stream, poller, budget>>

\* Mutant: the recent events are not asked for again.
OpenedOnly(d) ==
  [d EXCEPT !.link = "live", !.opened = TRUE, !.reopened = d.opened, !.failed = FALSE]

\* onopen: after an error the recent events are asked for again.
Opened(d) ==
  [d EXCEPT !.link = "live", !.refill = FALSE, !.asked = IF d.refill THEN @ + 1 ELSE @,
            !.opened = TRUE, !.reopened = d.opened, !.failed = FALSE]

Open(b) ==
  /\ browser[b].link = "subscribed"
  /\ browser' = [browser EXCEPT ![b] = Opened(@)]
  /\ UNCHANGED <<clock, txn, stream, poller, bus, budget>>

\* A frame of the stream, merged into what the dashboard shows.
Deliver(b) ==
  /\ browser[b].link = "live" /\ bus.queue[b] # <<>>
  /\ browser' = [browser EXCEPT ![b].view = @ \cup {Head(bus.queue[b])}]
  /\ bus' = [bus EXCEPT !.queue[b] = Tail(@)]
  /\ UNCHANGED <<clock, txn, stream, poller, budget>>

AnswerRead(b) ==
  /\ browser[b].asked > 0
  /\ browser' = [browser EXCEPT ![b].asked = @ - 1,
                                ![b].answers = @ \cup {Recent(Committed)}]
  /\ UNCHANGED <<clock, txn, stream, poller, bus, budget>>

AnswerMerge(b) ==
  /\ \E items \in browser[b].answers :
       browser' = [browser EXCEPT ![b].view = @ \cup items, ![b].answers = @ \ {items}]
  /\ UNCHANGED <<clock, txn, stream, poller, bus, budget>>

\* "Backfill best-effort": a request that fails is not repeated.
AnswerFail(b) ==
  /\ browser[b].asked > 0
  /\ browser' = [browser EXCEPT ![b].asked = @ - 1, ![b].failed = TRUE]
  /\ UNCHANGED <<clock, txn, stream, poller, bus, budget>>

\* onerror: the stream is closed and will be opened again.
Dropped(d) == [d EXCEPT !.link = "down", !.refill = TRUE]

Drop(b) ==
  /\ Subscribed(b)
  /\ budget.drops < MaxDrops
  /\ browser' = [browser EXCEPT ![b] = Dropped(@)]
  /\ bus' = [bus EXCEPT !.queue[b] = <<>>, !.fed[b] = <<>>]
  /\ budget' = [budget EXCEPT !.drops = @ + 1]
  /\ UNCHANGED <<clock, txn, stream, poller>>

\* The API process restarts with an empty bus and no watermark; every stream
\* and every request under way is lost.
ApiRestart ==
  /\ budget.restarts < MaxRestarts
  /\ bus' = [NewBus EXCEPT !.lost = bus.lost]
  /\ poller' = NewPoller
  /\ browser' = [b \in Browser |->
       [Dropped(browser[b]) EXCEPT !.asked = 0, !.failed = @ \/ browser[b].asked > 0]]
  /\ budget' = [budget EXCEPT !.restarts = @ + 1]
  /\ UNCHANGED <<clock, txn, stream>>

-----------------------------------------------------------------------------
Init ==
  /\ clock = 0
  /\ txn = [w \in Writer |-> NoTxn]
  /\ stream = [e \in Event |-> None]
  /\ poller = NewPoller
  /\ bus = NewBus
  /\ browser = [b \in Browser |-> NewBrowser]
  /\ budget = [restarts |-> 0, drops |-> 0]

WriterNext ==
  \E w \in Writer :
    \/ TxnBegin(w)
    \/ \E e \in Event : TxnInsert(w, e)
    \/ TxnCommit(w)
    \/ TxnAbort(w)

BrowserNext ==
  \E b \in Browser :
    \/ Subscribe(b) \/ Open(b) \/ Deliver(b) \/ Drop(b)
    \/ AnswerRead(b) \/ AnswerMerge(b) \/ AnswerFail(b)

Next ==
  \/ WriterNext
  \/ FanOutRead
  \/ FanOutPublish
  \/ BrowserNext
  \/ ApiRestart

\* The poll loop runs every second and survives every exception.
Fairness ==
  /\ WF_vars(FanOutRead)
  /\ WF_vars(FanOutPublish)

Spec == Init /\ [][Next]_vars /\ Fairness

-----------------------------------------------------------------------------
(***************************************************************************)
(* Properties.                                                             *)
(***************************************************************************)

\* Every variable has its type, and the bounded buffers keep their bounds.
LiveTypeOK ==
  /\ clock \in 0..MaxTxns
  /\ txn \in [Writer -> [open : BOOLEAN, at : Nat, events : SUBSET Event]]
  /\ stream \in [Event -> Nat \cup {None}]
  /\ poller.mark = None \/ poller.mark \in Nat \X Event
  /\ poller.page \subseteq Committed
  /\ poller.published \subseteq Committed
  /\ bus.recent \in Seq(Event) /\ Len(bus.recent) <= Capacity
  /\ bus.seen \subseteq Event /\ Cardinality(bus.seen) <= 2 * Capacity
  /\ \A b \in Browser : bus.queue[b] \in Seq(Event) /\ Len(bus.queue[b]) <= QueueSize
  /\ \A b \in Browser : browser[b].view \subseteq Committed

\* "Load new DB rows and publish unseen ones to the local bus": a committed
\* row is either still ahead of the watermark or was published, so that the
\* watermark never passes a row by, whatever the pages and the ties in time.
NoneSkipped ==
  \A e \in Committed : After(e, poller.mark) \/ e \in poller.published

\* A subscription is fed in order of time and never the same event twice,
\* across pages, trims of the seen set and restarts.
FedInOrder ==
  \A b \in Browser :
    \A i, j \in DOMAIN bus.fed[b] :
      i < j => Earlier(Mark(bus.fed[b][i]), Mark(bus.fed[b][j]))

\* A slow subscriber loses the oldest events: what waits for it is always the
\* latest part of what it was fed.
QueueKeepsNewest == \A b \in Browser : IsSuffix(bus.queue[b], bus.fed[b])

\* The gap left by a lost stream is closed: a dashboard whose stream was
\* reopened, which has no request pending or failed since and nothing left
\* in its queue, shows those of the most important events that the bus has
\* published, all but the ones a full queue dropped.
GapClosed ==
  \A b \in Browser :
    LET d == browser[b]
    IN /\ d.link = "live" /\ d.reopened /\ ~d.failed
       /\ d.asked = 0 /\ d.answers = {} /\ bus.queue[b] = <<>>
       => Recent(Committed) \cap poller.published \subseteq d.view \cup bus.lost[b]

\* Every committed event is fanned out in the end, by the last incarnation
\* of the API process as well.
EventuallyFannedOut ==
  \A e \in Event : stream[e] # None ~> [](e \in poller.published)
=============================================================================
