---------------------------- MODULE LiveEventsProofs ----------------------------
(***************************************************************************)
(* Proofs about LiveEvents, for every page, ring, queue and backfill size  *)
(* and any number of writers, rows and dashboards:                         *)
(*   - the watermark of the poller passes no row by, as long as the        *)
(*     transactions of two writers do not overlap (SkipInv);               *)
(*   - the buffers keep their bounds, every subscription is fed in the     *)
(*     order of time, and a full queue drops its oldest events only        *)
(*     (RowInv and BusInv);                                                *)
(*   - a stream that was lost and reopened leaves no gap (ViewInv).        *)
(* The last two hold whether or not transactions overlap.                  *)
(***************************************************************************)
EXTENDS LiveEvents, Induction

Time == Nat \X Event

Types ==
  /\ clock \in Nat
  /\ txn \in [Writer -> [open : BOOLEAN, at : Nat, events : SUBSET Event]]
  /\ stream \in [Event -> Nat \cup {None}]
  /\ poller \in [mark : {None} \cup Time, page : SUBSET Event, published : SUBSET Event]

\* Transactions come one after the other, and so do the times of their rows.
Sequential ==
  /\ \A w, v \in Writer : txn[w].open /\ txn[v].open => w = v
  /\ \A e \in Committed : stream[e] < clock
  /\ \A w \in Writer : txn[w].open =>
       /\ txn[w].at < clock /\ txn[w].events \cap Committed = {}
       /\ \A e \in Committed : stream[e] < txn[w].at

\* What lies after the watermark and is not on the page lies after the page.
PageFirst ==
  /\ poller.page \subseteq Committed
  /\ poller.page # {} =>
       \A e \in Committed : After(e, poller.mark) =>
         e \in poller.page \/ \A f \in poller.page : Earlier(Mark(f), Mark(e))

MarkRead == poller.mark # None => \E f \in Committed : poller.mark = Mark(f)

SkipInv == Types /\ Sequential /\ PageFirst /\ MarkRead /\ NoneSkipped

-----------------------------------------------------------------------------
LEMMA MarkType ==
  ASSUME Types, NEW e \in Committed
  PROVE  Mark(e) \in Time /\ Mark(e)[1] = stream[e] /\ Mark(e)[2] = e /\ stream[e] \in Nat
         /\ e \in Nat
BY LiveEventsAssumption DEF Types, Committed, Mark, Time

\* The order of marks is transitive and total.
LEMMA EarlierTrans ==
  ASSUME NEW a \in Time, NEW b \in Time, NEW c \in Time, Earlier(a, b), Earlier(b, c)
  PROVE  Earlier(a, c)
<1>1. \A t \in {a, b, c} : t[1] \in Nat /\ t[2] \in Nat
  BY LiveEventsAssumption DEF Time
<1>2. QED
  BY <1>1 DEF Earlier

LEMMA EarlierTotal ==
  ASSUME NEW a \in Time, NEW b \in Time
  PROVE  a = b \/ Earlier(a, b) \/ Earlier(b, a)
<1>1. a[1] \in Nat /\ a[2] \in Nat /\ b[1] \in Nat /\ b[2] \in Nat
  BY LiveEventsAssumption DEF Time
<1>2. a = <<a[1], a[2]>> /\ b = <<b[1], b[2]>>
  BY DEF Time
<1>3. QED
  BY <1>1, <1>2 DEF Earlier

LEMMA InitSkipInv == Init => SkipInv
<1> SUFFICES ASSUME Init PROVE SkipInv
  OBVIOUS
<1>1. Types
  BY DEF Init, Types, NoTxn, NewPoller
<1>2. Committed = {}
  BY DEF Init, Committed
<1>3. QED
  BY <1>1, <1>2 DEF Init, SkipInv, Sequential, PageFirst, MarkRead, NoneSkipped, NoTxn, NewPoller

-----------------------------------------------------------------------------
LEMMA BeginKeeps ==
  ASSUME ~Overlap, SkipInv, NEW w \in Writer, TxnBegin(w)
  PROVE  SkipInv'
<1> DEFINE yes == TRUE
           new == [open |-> yes, at |-> clock, events |-> {}]
<1>1. /\ \A v \in Writer : ~txn[v].open
      /\ clock' = clock + 1 /\ txn' = [txn EXCEPT ![w] = new]
      /\ UNCHANGED <<stream, poller>>
  BY DEF TxnBegin
<1>2. new \in [open : BOOLEAN, at : Nat, events : SUBSET Event] /\ new.at = clock /\ new.events = {}
  <2>1. yes \in BOOLEAN /\ clock \in Nat
    BY DEF SkipInv, Types
  <2> HIDE DEF yes
  <2>2. QED
    BY <2>1
<1> HIDE DEF new
<1>3. Types'
  BY <1>1, <1>2 DEF SkipInv, Types
<1>4. Committed' = Committed
  BY <1>1 DEF Committed
<1>5. \A e \in Committed : stream[e] \in Nat
  BY MarkType DEF SkipInv
<1>6. \A v \in Writer : txn'[v].open => v = w
  BY <1>1 DEF SkipInv, Types
<1>7. txn'[w] = new
  BY <1>1 DEF SkipInv, Types
<1>8. Sequential'
  BY <1>1, <1>2, <1>4, <1>5, <1>6, <1>7 DEF SkipInv, Types, Sequential
<1>9. QED
  BY <1>1, <1>3, <1>4, <1>8 DEF SkipInv, PageFirst, MarkRead, NoneSkipped, Mark, After

LEMMA InsertKeeps ==
  ASSUME SkipInv, NEW w \in Writer, NEW e \in Event, TxnInsert(w, e)
  PROVE  SkipInv'
<1> DEFINE t == txn[w]
           new == [t EXCEPT !.events = t.events \cup {e}]
<1>1. /\ txn' = [txn EXCEPT ![w] = new] /\ e \notin Committed
      /\ UNCHANGED <<clock, stream, poller>>
  BY DEF TxnInsert
<1>2. t \in [open : BOOLEAN, at : Nat, events : SUBSET Event]
  BY DEF SkipInv, Types
<1> HIDE DEF t
<1>3. /\ new \in [open : BOOLEAN, at : Nat, events : SUBSET Event]
      /\ new.open = t.open /\ new.at = t.at /\ new.events = t.events \cup {e}
  BY <1>2
<1> HIDE DEF new
<1>4. Types'
  BY <1>1, <1>3 DEF SkipInv, Types
<1>5. Committed' = Committed
  BY <1>1 DEF Committed
<1>6. txn'[w] = new /\ \A v \in Writer \ {w} : txn'[v] = txn[v]
  BY <1>1 DEF SkipInv, Types
<1>7. Sequential'
  BY <1>1, <1>3, <1>5, <1>6 DEF SkipInv, Sequential, t
<1>8. QED
  BY <1>1, <1>4, <1>5, <1>7 DEF SkipInv, PageFirst, MarkRead, NoneSkipped, Mark, After

\* The rows of a commit are later than all that were there.
LEMMA CommitKeeps ==
  ASSUME SkipInv, NEW w \in Writer, TxnCommit(w)
  PROVE  SkipInv'
<1> DEFINE new == txn[w].events  at == txn[w].at
<1>1. /\ txn[w].open /\ txn' = [txn EXCEPT ![w] = NoTxn]
      /\ stream' = [e \in Event |-> IF e \in new THEN at ELSE stream[e]]
      /\ UNCHANGED <<clock, poller>>
  BY DEF TxnCommit
<1>2. new \subseteq Event /\ at \in Nat /\ at < clock /\ new \cap Committed = {}
      /\ \A e \in Committed : stream[e] < at
  BY <1>1 DEF SkipInv, Types, Sequential
<1> HIDE DEF new, at
<1>3. NoTxn \in [open : BOOLEAN, at : Nat, events : SUBSET Event]
  <2> DEFINE no == FALSE
  <2>1. NoTxn = [open |-> no, at |-> 0, events |-> {}] /\ no \in BOOLEAN
    BY DEF NoTxn
  <2> HIDE DEF no
  <2>2. QED
    BY <2>1
<1>4. Types'
  BY <1>1, <1>2, <1>3 DEF SkipInv, Types
<1>5. /\ Committed' = Committed \cup new
      /\ \A e \in Committed : stream'[e] = stream[e] /\ Mark(e)' = Mark(e)
      /\ \A e \in new : stream'[e] = at /\ Mark(e)' = <<at, e>>
  BY <1>1, <1>2, LiveEventsAssumption DEF Committed, Mark
<1>6. \A v \in Writer : ~txn'[v].open
  BY <1>1 DEF NoTxn, SkipInv, Types, Sequential
<1>7. Sequential'
  BY <1>1, <1>2, <1>5, <1>6 DEF SkipInv, Sequential
<1>8. MarkRead'
  BY <1>1, <1>5 DEF SkipInv, MarkRead
<1>9. ASSUME NEW f \in Committed, NEW e \in new PROVE Earlier(Mark(f), Mark(e))'
  <2>1. Mark(f)'[1] = stream[f] /\ Mark(e)'[1] = at /\ stream[f] < at
    BY <1>2, <1>5, <1>9 DEF Mark
  <2>2. QED
    BY <2>1 DEF Earlier
<1>10. \A e \in Committed : After(e, poller.mark)' <=> After(e, poller.mark)
  BY <1>1, <1>5 DEF After, Earlier
<1>11. \A e \in new : After(e, poller.mark)'
  <2> TAKE e \in new
  <2>1. CASE poller.mark = None
    BY <1>1, <2>1 DEF After
  <2>2. CASE poller.mark # None
    <3>1. PICK f \in Committed : poller.mark = Mark(f)
      BY <2>2 DEF SkipInv, MarkRead
    <3>2. Earlier(Mark(f), Mark(e))' /\ Mark(f)' = poller.mark /\ poller' = poller
      BY <1>1, <1>5, <1>9, <3>1
    <3>3. QED
      BY <3>2 DEF After, Earlier
  <2>3. QED
    BY <2>1, <2>2
<1>12. NoneSkipped'
  BY <1>1, <1>5, <1>10, <1>11 DEF SkipInv, NoneSkipped
<1>13. PageFirst'
  <2>1. poller.page \subseteq Committed /\ poller' = poller
    BY <1>1 DEF SkipInv, PageFirst
  <2>2. ASSUME NEW e \in Committed, NEW f \in poller.page, Earlier(Mark(f), Mark(e))
        PROVE  Earlier(Mark(f), Mark(e))'
    BY <2>1, <2>2, <1>5 DEF Earlier
  <2>3. QED
    BY <2>1, <2>2, <1>5, <1>9, <1>10 DEF SkipInv, PageFirst
<1>14. QED
  BY <1>4, <1>7, <1>8, <1>12, <1>13 DEF SkipInv

LEMMA AbortKeeps ==
  ASSUME SkipInv, NEW w \in Writer, TxnAbort(w)
  PROVE  SkipInv'
<1>1. txn' = [txn EXCEPT ![w] = NoTxn] /\ UNCHANGED <<clock, stream, poller>>
  BY DEF TxnAbort
<1>2. NoTxn \in [open : BOOLEAN, at : Nat, events : SUBSET Event] /\ ~NoTxn.open
  <2> DEFINE no == FALSE
  <2>1. NoTxn = [open |-> no, at |-> 0, events |-> {}] /\ no \in BOOLEAN /\ ~no
    BY DEF NoTxn
  <2> HIDE DEF no
  <2>2. QED
    BY <2>1
<1>3. Types' /\ Committed' = Committed
  BY <1>1, <1>2 DEF SkipInv, Types, Committed
<1>4. \A v \in Writer : txn'[v].open => v # w /\ txn'[v] = txn[v]
  BY <1>1, <1>2 DEF SkipInv, Types
<1>5. Sequential'
  BY <1>1, <1>3, <1>4 DEF SkipInv, Sequential
<1>6. QED
  BY <1>1, <1>3, <1>5 DEF SkipInv, PageFirst, MarkRead, NoneSkipped, Mark, After

\* A row that the page leaves out has a full page before it.
LEMMA ReadKeeps ==
  ASSUME SkipInv, FanOutRead
  PROVE  SkipInv'
<1> DEFINE mark == poller.mark
           rows == {e \in Committed : After(e, mark)}
           before(e) == {f \in rows : Earlier(Mark(f), Mark(e))}
           page == RowsAfter(mark)
<1>1. poller' = [poller EXCEPT !.page = page] /\ UNCHANGED <<clock, txn, stream>>
  BY DEF FanOutRead
<1>2. page = {e \in rows : Cardinality(before(e)) < PageSize}
  BY DEF RowsAfter
<1>3. rows \subseteq Committed /\ Committed \subseteq Event /\ IsFiniteSet(rows)
  BY LiveEventsAssumption, FS_Subset DEF Committed
<1>4. ASSUME NEW e \in rows, e \notin page, NEW f \in page PROVE Earlier(Mark(f), Mark(e))
  <2>1. f \in rows /\ Cardinality(before(f)) < PageSize /\ ~(Cardinality(before(e)) < PageSize)
    BY <1>2, <1>4
  <2>2. Mark(e) \in Time /\ Mark(f) \in Time /\ \A g \in rows : Mark(g) \in Time
    BY <1>3, <1>4, <2>1, MarkType DEF SkipInv
  <2>3. SUFFICES ASSUME ~Earlier(Mark(f), Mark(e)) PROVE FALSE
    OBVIOUS
  <2>4. Mark(e) # Mark(f)
    <3>1. Mark(e)[2] = e /\ Mark(f)[2] = f /\ e # f
      BY <1>3, <1>4, <2>1, MarkType DEF SkipInv
    <3>2. QED
      BY <3>1
  <2>5. Earlier(Mark(e), Mark(f))
    BY <2>2, <2>3, <2>4, EarlierTotal
  <2>6. before(e) \subseteq before(f)
    BY <2>2, <2>5, EarlierTrans
  <2>7. IsFiniteSet(before(f)) /\ IsFiniteSet(before(e))
    BY <1>3, FS_Subset
  <2>8. Cardinality(before(e)) <= Cardinality(before(f))
    BY <2>6, <2>7, FS_Subset
  <2>9. Cardinality(before(e)) \in Nat /\ Cardinality(before(f)) \in Nat /\ PageSize \in Nat
    BY <2>7, FS_CardinalityType, LiveEventsAssumption
  <2>10. QED
    BY <2>1, <2>8, <2>9
<1>5. page \subseteq rows
  BY <1>2
<1> HIDE DEF page
<1>6. poller'.page = page /\ poller'.mark = mark /\ poller'.published = poller.published
  BY <1>1 DEF SkipInv, Types
<1>7. Types' /\ Committed' = Committed
  BY <1>1, <1>3, <1>5 DEF SkipInv, Types, Committed
<1>8. PageFirst'
  BY <1>1, <1>3, <1>4, <1>5, <1>6, <1>7 DEF PageFirst, After, Mark
<1>9. QED
  BY <1>1, <1>6, <1>7, <1>8 DEF SkipInv, Sequential, MarkRead, NoneSkipped, Mark, After

\* The watermark moves to the last row of the page.
LEMMA PublishKeeps ==
  ASSUME SkipInv, FanOutPublish
  PROVE  SkipInv'
<1> DEFINE page == poller.page
<1>1. PICK rows \in InOrder(page) :
        poller' = [mark |-> Mark(Last(rows)), page |-> {},
                   published |-> poller.published \cup page]
  BY DEF FanOutPublish
<1>2. page # {} /\ UNCHANGED <<clock, txn, stream>>
  BY DEF FanOutPublish
<1>3. page \subseteq Committed /\ Committed \subseteq Event /\ IsFiniteSet(page)
  BY LiveEventsAssumption, FS_Subset DEF SkipInv, PageFirst, Committed
<1> DEFINE n == Cardinality(page)
<1>4. n \in Nat
  BY <1>3, FS_CardinalityType
<1>5. /\ rows \in [1..n -> page] /\ \A e \in page : \E i \in 1..n : rows[i] = e
      /\ \A i, j \in 1..n : i < j => Earlier(Mark(rows[i]), Mark(rows[j]))
  BY DEF InOrder, Listings
<1> HIDE DEF n
<1>6. n >= 1 /\ rows \in Seq(page) /\ Len(rows) = n
  BY <1>2, <1>4, <1>5
<1> DEFINE last == rows[n]
<1>7. Last(rows) = last /\ last \in page
  BY <1>4, <1>5, <1>6 DEF Last
<1>8. \A f \in page : f = last \/ Earlier(Mark(f), Mark(last))
  <2> TAKE f \in page
  <2>1. PICK i \in 1..n : rows[i] = f
    BY <1>5
  <2>2. i = n \/ i < n
    BY <1>4
  <2>3. n \in 1..n
    BY <1>4, <1>6
  <2>4. QED
    BY <1>5, <2>1, <2>2, <2>3
<1> HIDE DEF last
<1>9. poller'.mark = Mark(last) /\ poller'.page = {} /\ poller'.published = poller.published \cup page
  BY <1>1, <1>7
<1>10. Committed' = Committed
  BY <1>2 DEF Committed
<1>11. Mark(last) \in Time
  BY <1>3, <1>7, MarkType DEF SkipInv
<1>12. Types'
  BY <1>1, <1>2, <1>3, <1>7, <1>11 DEF SkipInv, Types
<1>13. MarkRead'
  BY <1>2, <1>3, <1>7, <1>9, <1>10 DEF MarkRead, Mark
<1>14. NoneSkipped'
  <2> SUFFICES ASSUME NEW e \in Committed PROVE After(e, poller.mark)' \/ e \in poller'.published
    BY <1>10 DEF NoneSkipped
  <2>1. CASE e \in poller.published \/ e \in page
    BY <1>9, <2>1
  <2>2. CASE e \notin poller.published /\ e \notin page
    <3>1. After(e, poller.mark)
      BY <2>2 DEF SkipInv, NoneSkipped
    <3>2. Earlier(Mark(last), Mark(e))
      BY <1>2, <1>7, <2>2, <3>1 DEF SkipInv, PageFirst
    <3>3. QED
      BY <1>2, <1>9, <3>2 DEF After, Mark
  <2>3. QED
    BY <2>1, <2>2
<1>15. QED
  BY <1>2, <1>9, <1>10, <1>12, <1>13, <1>14 DEF SkipInv, Sequential, PageFirst

\* A restart of the API begins again from the first row.
LEMMA RestartKeeps ==
  ASSUME SkipInv, ApiRestart
  PROVE  SkipInv'
<1>1. poller'.mark = None /\ poller'.page = {} /\ UNCHANGED <<clock, txn, stream>>
      /\ poller' \in [mark : {None} \cup Time, page : SUBSET Event, published : SUBSET Event]
  BY DEF ApiRestart, NewPoller
<1>2. Committed' = Committed
  BY <1>1 DEF Committed
<1>3. QED
  BY <1>1, <1>2 DEF SkipInv, Types, Sequential, PageFirst, MarkRead, NoneSkipped, After

LEMMA NextKeepsSkipInv ==
  ASSUME ~Overlap PROVE SkipInv /\ [Next]_vars => SkipInv'
<1> SUFFICES ASSUME SkipInv, [Next]_vars PROVE SkipInv'
  OBVIOUS
<1>1. CASE WriterNext
  BY <1>1, BeginKeeps, InsertKeeps, CommitKeeps, AbortKeeps DEF WriterNext
<1>2. CASE UNCHANGED <<clock, txn, stream, poller>>
  BY <1>2 DEF SkipInv, Types, Sequential, PageFirst, MarkRead, NoneSkipped, Committed, Mark, After
<1>3. CASE BrowserNext
  BY <1>2, <1>3 DEF BrowserNext, Subscribe, Open, Deliver, Drop, AnswerRead, AnswerMerge, AnswerFail
<1>4. CASE UNCHANGED vars
  BY <1>2, <1>4 DEF vars
<1>5. QED
  BY <1>1, <1>3, <1>4, ReadKeeps, PublishKeeps, RestartKeeps DEF Next

\* As long as transactions do not overlap, the watermark passes no committed
\* row by, whatever the page size, the ties in time and the restarts.
THEOREM NoneSkippedWithoutOverlap == ASSUME ~Overlap PROVE Spec => []NoneSkipped
<1>1. SkipInv => NoneSkipped
  BY DEF SkipInv
<1>2. QED
  BY <1>1, InitSkipInv, NextKeepsSkipInv, PTL DEF Spec

-----------------------------------------------------------------------------
(***************************************************************************)
(* The loop over the rows of a page, as the states of the bus after each   *)
(* row. FoldLeft is defined by one function over sets of indices, which    *)
(* induction over the length of the page shows to exist.                   *)
(***************************************************************************)
\* An interval by its greatest element.
LEMMA MaxOfInterval ==
  ASSUME NEW m \in Nat, NEW r \in SUBSET (1..m), m \in r
  PROVE  Max(r) = m
<1>1. \A x \in r : x \in Nat /\ x <= m
  OBVIOUS
<1>2. \A x \in r : (\A y \in r : x >= y) => x = m
  BY <1>1
<1>3. \E x \in r : \A y \in r : x >= y
  BY <1>1
<1>4. QED
  BY <1>2, <1>3 DEF Max

\* The loop of fanout_new_events_once over the rows of a page.
PublishedAll(base, rows) == FoldLeft(Published, base, rows)

Unfolded(base, s, n, run) ==
  /\ run[0] = base
  /\ \A i \in 1..n : run[i] = Published(run[i-1], s[i])
  /\ PublishedAll(base, s) = run[n]

\* The loop over a page: FoldLeft by the states of the bus after each row.
LEMMA PublishingUnfolds ==
  ASSUME NEW base, NEW s, NEW n \in Nat, DOMAIN s = 1..n
  PROVE  \E run : Unfolded(base, s, n, run)
<1> DEFINE Step(f, r) == IF r = {} THEN base ELSE Published(f[r \ {Max(r)}], s[Max(r)])
           Solves(f, m) == f = [r \in SUBSET (1..m) |-> Step(f, r)]
           g == CHOOSE f : Solves(f, n)
<1>1. PublishedAll(base, s) = g[1..n]
  BY DEF PublishedAll, FoldLeft, MapThenFoldSet
<1> DEFINE Solvable(m) == \E f : Solves(f, m)
<1>2. Solvable(0)
  <2> DEFINE f == [r \in SUBSET (1..0) |-> base]
  <2>1. \A r \in SUBSET (1..0) : Step(f, r) = base
    OBVIOUS
  <2>2. Solves(f, 0)
    BY <2>1
  <2>3. QED
    BY <2>2
<1>3. ASSUME NEW m \in Nat, Solvable(m) PROVE Solvable(m + 1)
  <2>1. PICK f : Solves(f, m)
    BY <1>3
  <2> DEFINE h == [r \in SUBSET (1..m+1) |->
                     IF m + 1 \in r THEN Published(f[r \ {m + 1}], s[m + 1]) ELSE f[r]]
  <2>2. ASSUME NEW r \in SUBSET (1..m+1) PROVE h[r] = Step(h, r)
    <3>1. CASE m + 1 \in r
      <4>1. Max(r) = m + 1
        BY <3>1, MaxOfInterval
      <4>2. r \ {m + 1} \in SUBSET (1..m+1) /\ h[r \ {m + 1}] = f[r \ {m + 1}]
        OBVIOUS
      <4>3. h[r] = Published(f[r \ {m + 1}], s[m + 1])
        BY <3>1
      <4> HIDE DEF h
      <4>4. QED
        BY <3>1, <4>1, <4>2, <4>3
    <3>2. CASE m + 1 \notin r
      <4>1. r \in SUBSET (1..m) /\ h[r] = f[r]
        BY <3>2
      <4>2. f[r] = Step(f, r)
        BY <2>1, <4>1
      <4>3. r \ {Max(r)} \in SUBSET (1..m+1) /\ h[r \ {Max(r)}] = f[r \ {Max(r)}]
        BY <4>1, <3>2
      <4> HIDE DEF h
      <4>4. QED
        BY <4>1, <4>2, <4>3
    <3>3. QED
      BY <3>1, <3>2
  <2>3. h = [r \in SUBSET (1..m+1) |-> h[r]]
    OBVIOUS
  <2> HIDE DEF h, Step
  <2>4. Solves(h, m + 1)
    BY <2>2, <2>3
  <2>5. QED
    BY <2>4
<1>4. Solvable(n)
  <2> HIDE DEF Solvable
  <2> DEFINE Ok == {m \in Nat : Solvable(m)}
  <2>1. 0 \in Ok /\ \A m \in Nat : m \in Ok => m + 1 \in Ok
    BY <1>2, <1>3
  <2>2. Nat \subseteq Ok
    <3> HIDE DEF Ok
    <3>1. QED
      BY <2>1, NatSetInduction
  <2>3. QED
    BY <2>2
<1>5. Solves(g, n)
  <2> HIDE DEF Solves
  <2>1. QED
    BY <1>4 DEF Solvable
<1> HIDE DEF g
<1>6. g[1..0] = base
  BY <1>5
<1>7. ASSUME NEW i \in 1..n PROVE g[1..i] = Published(g[1..(i-1)], s[i])
  <2>1. Max(1..i) = i
    <3>1. i \in Nat /\ 1..i \in SUBSET (1..i) /\ i \in 1..i
      OBVIOUS
    <3>2. QED
      BY <3>1, MaxOfInterval
  <2>2. (1..i) \ {i} = 1..(i-1) /\ 1..i \in SUBSET (1..n) /\ 1..i # {}
    OBVIOUS
  <2>3. g[1..i] = Step(g, 1..i)
    BY <1>5, <2>2
  <2>4. QED
    BY <2>1, <2>2, <2>3
<1> DEFINE run == [i \in 0..n |-> g[1..i]]
<1>8. /\ \A i \in 1..n : i - 1 \in 0..n /\ i \in 0..n /\ 0 \in 0..n /\ n \in 0..n
      /\ run[0] = base /\ run[n] = g[1..n]
      /\ \A i \in 1..n : run[i] = g[1..i] /\ run[i-1] = g[1..(i-1)]
  BY <1>6
<1> HIDE DEF run
<1>9. \A i \in 1..n : run[i] = Published(run[i-1], s[i])
  BY <1>7, <1>8
<1>10. Unfolded(base, s, n, run)
  BY <1>1, <1>8, <1>9 DEF Unfolded
<1>11. QED
  BY <1>10

-----------------------------------------------------------------------------
(***************************************************************************)
(* A queue as the latest part of what was put into it, and one             *)
(* publication.                                                            *)
(***************************************************************************)
LEMMA SeqOfFunction ==
  ASSUME NEW S, NEW n \in Nat, NEW s \in [1..n -> S]
  PROVE  s \in Seq(S) /\ Len(s) = n
OBVIOUS

\* q is the latest part of f, place by place.
Latest(q, f) ==
  Len(q) <= Len(f) /\ \A i \in 1..Len(q) : q[i] = f[Len(f) - Len(q) + i]

LEMMA LatestIsSuffix ==
  ASSUME NEW q \in Seq(Event), NEW f \in Seq(Event), Latest(q, f)
  PROVE  IsSuffix(q, f)
<1> DEFINE rq == Reverse(q)  rf == Reverse(f)
<1>1. Len(q) \in Nat /\ Len(f) \in Nat /\ DOMAIN q = 1..Len(q) /\ DOMAIN f = 1..Len(f)
  OBVIOUS
<1>2. /\ rq \in [1..Len(q) -> Event] /\ \A i \in 1..Len(q) : rq[i] = q[Len(q) - i + 1]
      /\ rf \in [1..Len(f) -> Event] /\ \A i \in 1..Len(f) : rf[i] = f[Len(f) - i + 1]
  <2>1. \A i \in 1..Len(q) : Len(q) - i + 1 \in 1..Len(q)
    BY <1>1
  <2>2. \A i \in 1..Len(f) : Len(f) - i + 1 \in 1..Len(f)
    BY <1>1
  <2>3. QED
    BY <1>1, <2>1, <2>2 DEF Reverse
<1> HIDE DEF rq, rf
<1>3. rq \in Seq(Event) /\ rf \in Seq(Event) /\ Len(rq) = Len(q) /\ Len(rf) = Len(f)
  BY <1>1, <1>2, SeqOfFunction
<1>4. \A i \in 1..Len(q) : rq[i] = rf[i]
  <2> TAKE i \in 1..Len(q)
  <2>1. Len(q) - i + 1 \in 1..Len(q) /\ i \in 1..Len(f)
    BY <1>1 DEF Latest
  <2>2. q[Len(q) - i + 1] = f[Len(f) - Len(q) + (Len(q) - i + 1)]
    BY <2>1 DEF Latest
  <2>3. Len(f) - Len(q) + (Len(q) - i + 1) = Len(f) - i + 1
    BY <1>1, <2>1
  <2>4. QED
    BY <1>2, <2>1, <2>2, <2>3
<1>5. SubSeq(rq, 1, Len(rq)) = SubSeq(rf, 1, Len(rq))
  BY <1>1, <1>3, <1>4 DEF Latest
<1>6. QED
  BY <1>3, <1>5 DEF IsSuffix, IsPrefix, Latest, rq, rf

LEMMA LatestAppend ==
  ASSUME NEW q \in Seq(Event), NEW f \in Seq(Event), NEW e \in Event, Latest(q, f)
  PROVE  Latest(Append(q, e), Append(f, e))
<1>1. /\ Len(Append(q, e)) = Len(q) + 1 /\ Len(Append(f, e)) = Len(f) + 1
      /\ \A i \in 1..Len(q) : Append(q, e)[i] = q[i]
      /\ \A i \in 1..Len(f) : Append(f, e)[i] = f[i]
      /\ Append(q, e)[Len(q) + 1] = e /\ Append(f, e)[Len(f) + 1] = e
  OBVIOUS
<1>2. Len(q) \in Nat /\ Len(f) \in Nat /\ Len(q) <= Len(f)
  BY DEF Latest
<1>3. ASSUME NEW i \in 1..(Len(q) + 1)
      PROVE  Append(q, e)[i] = Append(f, e)[(Len(f) + 1) - (Len(q) + 1) + i]
  <2>1. CASE i = Len(q) + 1
    BY <1>1, <1>2, <2>1
  <2>2. CASE i \in 1..Len(q)
    <3>1. (Len(f) + 1) - (Len(q) + 1) + i = Len(f) - Len(q) + i /\ Len(f) - Len(q) + i \in 1..Len(f)
      BY <1>2, <2>2
    <3>2. QED
      BY <1>1, <2>2, <3>1 DEF Latest
  <2>3. QED
    BY <1>2, <2>1, <2>2
<1> DEFINE qe == Append(q, e)  fe == Append(f, e)
<1>4. Len(qe) = Len(q) + 1 /\ Len(fe) = Len(f) + 1
      /\ \A i \in 1..(Len(q) + 1) : qe[i] = fe[(Len(f) + 1) - (Len(q) + 1) + i]
  BY <1>1, <1>3
<1> HIDE DEF qe, fe
<1>5. Latest(qe, fe)
  BY <1>2, <1>4 DEF Latest
<1>6. QED
  BY <1>5 DEF qe, fe

LEMMA LatestTail ==
  ASSUME NEW q \in Seq(Event), NEW f \in Seq(Event), q # << >>, Latest(q, f)
  PROVE  Latest(Tail(q), f)
<1>1. /\ Tail(q) \in Seq(Event) /\ Len(Tail(q)) = Len(q) - 1
      /\ \A i \in 1..(Len(q) - 1) : Tail(q)[i] = q[i + 1]
  OBVIOUS
<1>2. Len(q) \in Nat /\ Len(f) \in Nat /\ Len(q) <= Len(f) /\ Len(q) # 0
  BY DEF Latest
<1>3. ASSUME NEW i \in 1..(Len(q) - 1)
      PROVE  Tail(q)[i] = f[Len(f) - (Len(q) - 1) + i]
  <2>1. i + 1 \in 1..Len(q) /\ Len(f) - (Len(q) - 1) + i = Len(f) - Len(q) + (i + 1)
    BY <1>2
  <2>2. QED
    BY <1>1, <2>1 DEF Latest
<1>4. QED
  BY <1>1, <1>2, <1>3 DEF Latest

-----------------------------------------------------------------------------
BusType ==
  [seen   : SUBSET Event,
   recent : Seq(Event),
   queue  : [Browser -> Seq(Event)],
   fed    : [Browser -> Seq(Event)],
   lost   : [Browser -> SUBSET Event]]

\* The buffers of a bus keep their bounds, and a queue is the latest part of
\* what was put into it.
BusOK(s) ==
  /\ s \in BusType
  /\ Len(s.recent) <= Capacity /\ ToSet(s.recent) \subseteq s.seen
  /\ Cardinality(s.seen) <= 2 * Capacity
  /\ \A b \in Browser : Len(s.queue[b]) <= QueueSize /\ Latest(s.queue[b], s.fed[b])

Waiting(s, b) == ToSet(s.queue[b])

\* put_nowait after get_nowait.
LEMMA EnqueuedFits ==
  ASSUME NEW q \in Seq(Event), Len(q) <= QueueSize, NEW e \in Event
  PROVE  /\ Enqueued(q, e) \in Seq(Event) /\ Len(Enqueued(q, e)) <= QueueSize
         /\ e \in ToSet(Enqueued(q, e))
         /\ Len(q) < QueueSize => ToSet(q) \subseteq ToSet(Enqueued(q, e))
         /\ Len(q) >= QueueSize => q # << >> /\ Head(q) \in Event
                                   /\ ToSet(q) \subseteq ToSet(Enqueued(q, e)) \cup {Head(q)}
<1>1. QueueSize \in Nat /\ QueueSize # 0 /\ Len(q) \in Nat
  BY LiveEventsAssumption
<1>2. CASE Len(q) < QueueSize
  <2>1. /\ Enqueued(q, e) = Append(q, e) /\ Append(q, e) \in Seq(Event)
        /\ Len(Append(q, e)) = Len(q) + 1
        /\ \A i \in 1..Len(q) : Append(q, e)[i] = q[i]
        /\ Append(q, e)[Len(q) + 1] = e
    BY <1>2 DEF Enqueued
  <2>2. DOMAIN q = 1..Len(q) /\ DOMAIN Append(q, e) = 1..(Len(q) + 1)
    BY <2>1
  <2>3. e \in ToSet(Append(q, e)) /\ ToSet(q) \subseteq ToSet(Append(q, e))
    BY <1>1, <2>1, <2>2 DEF ToSet
  <2>4. QED
    BY <1>1, <1>2, <2>1, <2>3
<1>3. CASE Len(q) >= QueueSize
  <2> DEFINE t == Tail(q)
  <2>1. q # << >> /\ Head(q) = q[1] /\ Len(q) = QueueSize /\ Head(q) \in Event
    BY <1>1, <1>3
  <2>2. t \in Seq(Event) /\ Len(t) = Len(q) - 1 /\ \A i \in 1..(Len(q) - 1) : t[i] = q[i + 1]
    BY <2>1
  <2>3. Enqueued(q, e) = Append(t, e)
    BY <1>1, <1>3 DEF Enqueued
  <2> HIDE DEF t
  <2>4. /\ Append(t, e) \in Seq(Event) /\ Len(Append(t, e)) = Len(t) + 1
        /\ \A i \in 1..Len(t) : Append(t, e)[i] = t[i]
        /\ Append(t, e)[Len(t) + 1] = e
        /\ DOMAIN q = 1..Len(q) /\ DOMAIN Append(t, e) = 1..(Len(t) + 1)
    BY <2>2
  <2>5. e \in ToSet(Append(t, e))
    BY <1>1, <2>2, <2>4 DEF ToSet
  <2>6. ASSUME NEW i \in 1..Len(q) PROVE q[i] \in ToSet(Append(t, e)) \cup {q[1]}
    <3>1. CASE i = 1
      BY <3>1
    <3>2. CASE i # 1
      <4>1. i - 1 \in 1..Len(t) /\ i - 1 \in 1..(Len(t) + 1) /\ (i - 1) + 1 = i
        BY <1>1, <2>2, <3>2
      <4>2. Append(t, e)[i - 1] = q[i]
        BY <2>2, <2>4, <4>1
      <4>3. QED
        BY <2>4, <4>1, <4>2 DEF ToSet
    <3>3. QED
      BY <3>1, <3>2
  <2>7. ToSet(q) \subseteq ToSet(Append(t, e)) \cup {Head(q)}
    BY <2>1, <2>4, <2>6 DEF ToSet
  <2>8. QED
    BY <1>1, <1>3, <2>1, <2>2, <2>3, <2>4, <2>5, <2>7
<1>4. QED
  BY <1>1, <1>2, <1>3

\* What publish does with an event it has not seen, field by field.
LEMMA PublishedFields ==
  ASSUME NEW s, BusOK(s), NEW e \in Event, e \notin s.seen
  PROVE  LET t == Published(s, e) IN
    /\ t.seen = IF Cardinality(s.seen \cup {e}) > 2 * Capacity
                THEN ToSet(s.recent) \cup {e} ELSE s.seen \cup {e}
    /\ t.recent = Append(IF Len(s.recent) < Capacity THEN s.recent ELSE Tail(s.recent), e)
    /\ t.queue = [b \in Browser |-> IF Subscribed(b) THEN Enqueued(s.queue[b], e) ELSE s.queue[b]]
    /\ t.fed = [b \in Browser |-> IF Subscribed(b) THEN Append(s.fed[b], e) ELSE s.fed[b]]
    /\ t.lost = [b \in Browser |-> IF Subscribed(b) /\ Len(s.queue[b]) >= QueueSize
                                   THEN s.lost[b] \cup {Head(s.queue[b])} ELSE s.lost[b]]
    /\ t = [seen |-> t.seen, recent |-> t.recent, queue |-> t.queue, fed |-> t.fed, lost |-> t.lost]
<1> DEFINE more == s.seen \cup {e}
           seen == IF Cardinality(more) > 2 * Capacity THEN ToSet(s.recent) \cup {e} ELSE more
           recent == Append(IF Len(s.recent) < Capacity THEN s.recent ELSE Tail(s.recent), e)
           queue == [b \in Browser |-> IF Subscribed(b) THEN Enqueued(s.queue[b], e) ELSE s.queue[b]]
           fed == [b \in Browser |-> IF Subscribed(b) THEN Append(s.fed[b], e) ELSE s.fed[b]]
           lost == [b \in Browser |-> IF Subscribed(b) /\ Len(s.queue[b]) >= QueueSize
                                      THEN s.lost[b] \cup {Head(s.queue[b])} ELSE s.lost[b]]
<1>1. s \in BusType
  BY DEF BusOK
<1>2. Published(s, e) = [s EXCEPT !.seen = seen, !.recent = recent, !.queue = queue,
                                  !.fed = fed, !.lost = lost]
  BY <1>1 DEF Published, BusType
<1> HIDE DEF seen, recent, queue, fed, lost
<1>3. Published(s, e) = [seen |-> seen, recent |-> recent, queue |-> queue, fed |-> fed, lost |-> lost]
  BY <1>1, <1>2 DEF BusType
<1>4. QED
  BY <1>3 DEF seen, recent, queue, fed, lost

LEMMA PublishedKeeps ==
  ASSUME NEW s, BusOK(s), NEW e \in Event
  PROVE  BusOK(Published(s, e))
<1>1. CASE e \in s.seen
  BY <1>1 DEF Published
<1>2. CASE e \notin s.seen
  <2> DEFINE t == Published(s, e)
  <2>1. /\ t.seen = IF Cardinality(s.seen \cup {e}) > 2 * Capacity
                    THEN ToSet(s.recent) \cup {e} ELSE s.seen \cup {e}
        /\ t.recent = Append(IF Len(s.recent) < Capacity THEN s.recent ELSE Tail(s.recent), e)
        /\ t.queue = [b \in Browser |-> IF Subscribed(b) THEN Enqueued(s.queue[b], e) ELSE s.queue[b]]
        /\ t.fed = [b \in Browser |-> IF Subscribed(b) THEN Append(s.fed[b], e) ELSE s.fed[b]]
        /\ t.lost = [b \in Browser |-> IF Subscribed(b) /\ Len(s.queue[b]) >= QueueSize
                                       THEN s.lost[b] \cup {Head(s.queue[b])} ELSE s.lost[b]]
        /\ t = [seen |-> t.seen, recent |-> t.recent, queue |-> t.queue, fed |-> t.fed,
                lost |-> t.lost]
    BY <1>2, PublishedFields
  <2> HIDE DEF t
  <2>2. /\ s.seen \subseteq Event /\ s.recent \in Seq(Event)
        /\ s.queue \in [Browser -> Seq(Event)] /\ s.fed \in [Browser -> Seq(Event)]
        /\ s.lost \in [Browser -> SUBSET Event]
        /\ Len(s.recent) <= Capacity /\ ToSet(s.recent) \subseteq s.seen
        /\ Cardinality(s.seen) <= 2 * Capacity
        /\ \A b \in Browser : Len(s.queue[b]) <= QueueSize /\ Latest(s.queue[b], s.fed[b])
    BY DEF BusOK, BusType
  <2>3. Capacity \in Nat /\ Capacity # 0 /\ QueueSize \in Nat /\ QueueSize # 0 /\ IsFiniteSet(Event)
    BY LiveEventsAssumption
  <2> DEFINE r == IF Len(s.recent) < Capacity THEN s.recent ELSE Tail(s.recent)
  <2>4. r \in Seq(Event) /\ Len(r) + 1 <= Capacity /\ ToSet(r) \subseteq ToSet(s.recent)
    <3>1. CASE Len(s.recent) < Capacity
      BY <2>2, <2>3, <3>1
    <3>2. CASE ~(Len(s.recent) < Capacity)
      <4>1. s.recent # << >> /\ Len(s.recent) = Capacity
        BY <2>2, <2>3, <3>2
      <4>2. r = Tail(s.recent) /\ r \in Seq(Event) /\ Len(r) = Len(s.recent) - 1
            /\ \A i \in 1..Len(r) : r[i] = s.recent[i + 1]
        BY <2>2, <3>2, <4>1
      <4>3. DOMAIN r = 1..Len(r) /\ DOMAIN s.recent = 1..Len(s.recent)
            /\ \A i \in 1..Len(r) : i + 1 \in 1..Len(s.recent)
        BY <2>2, <4>2
      <4> HIDE DEF r
      <4>4. QED
        BY <2>3, <4>1, <4>2, <4>3 DEF ToSet
    <3>3. QED
      BY <3>1, <3>2
  <2>5. t.recent = Append(r, e)
    BY <2>1
  <2> HIDE DEF r
  <2>6. /\ t.recent \in Seq(Event) /\ Len(t.recent) <= Capacity
        /\ ToSet(t.recent) \subseteq ToSet(s.recent) \cup {e}
    <3>1. /\ t.recent \in Seq(Event) /\ Len(t.recent) = Len(r) + 1
          /\ \A i \in 1..Len(r) : t.recent[i] = r[i]
          /\ t.recent[Len(r) + 1] = e
      BY <2>4, <2>5
    <3>2. DOMAIN t.recent = 1..(Len(r) + 1) /\ DOMAIN r = 1..Len(r) /\ Len(r) \in Nat
      BY <2>4, <3>1
    <3>3. ASSUME NEW i \in 1..(Len(r) + 1) PROVE t.recent[i] \in ToSet(r) \cup {e}
      <4>1. i = Len(r) + 1 \/ i \in 1..Len(r)
        BY <3>2
      <4>2. QED
        BY <3>1, <3>2, <4>1 DEF ToSet
    <3>4. QED
      BY <2>4, <3>1, <3>2, <3>3 DEF ToSet
  <2>7. t.seen \subseteq Event /\ ToSet(t.recent) \subseteq t.seen /\ Cardinality(t.seen) <= 2 * Capacity
    <3>1. IsFiniteSet(s.seen \cup {e}) /\ Cardinality(s.seen \cup {e}) \in Nat
      BY <2>2, <2>3, FS_Subset, FS_CardinalityType
    <3>2. IsFiniteSet(ToSet(s.recent)) /\ Cardinality(ToSet(s.recent)) <= Len(s.recent)
      <4>1. DOMAIN s.recent = 1..Len(s.recent) /\ Len(s.recent) \in Nat
        BY <2>2
      <4>2. QED
        BY <4>1, ElementsOfSequence DEF ToSet
    <3>3. Cardinality(ToSet(s.recent) \cup {e}) <= Cardinality(ToSet(s.recent)) + 1
          /\ Cardinality(ToSet(s.recent) \cup {e}) \in Nat /\ Cardinality(ToSet(s.recent)) \in Nat
      <4> DEFINE R == ToSet(s.recent)
      <4> HIDE DEF R
      <4>1. IsFiniteSet(R) /\ Cardinality(R) \in Nat
        BY <3>2, FS_CardinalityType DEF R
      <4>2. /\ IsFiniteSet(R \cup {e})
            /\ Cardinality(R \cup {e}) = IF e \in R THEN Cardinality(R) ELSE Cardinality(R) + 1
        BY <4>1, FS_AddElement
      <4>3. QED
        BY <4>1, <4>2 DEF R
    <3>4. Len(s.recent) \in Nat
      BY <2>2
    <3>5. Cardinality(ToSet(s.recent) \cup {e}) <= 2 * Capacity
      BY <2>2, <2>3, <3>2, <3>3, <3>4
    <3>6. ToSet(s.recent) \subseteq Event
      BY <2>2
    <3>7. QED
      BY <2>1, <2>2, <2>3, <2>6, <3>1, <3>5, <3>6
  <2>8. ASSUME NEW b \in Browser
        PROVE  /\ t.queue[b] \in Seq(Event) /\ t.fed[b] \in Seq(Event) /\ t.lost[b] \subseteq Event
               /\ Len(t.queue[b]) <= QueueSize /\ Latest(t.queue[b], t.fed[b])
    <3>1. CASE ~Subscribed(b)
      BY <2>1, <2>2, <3>1
    <3>2. CASE Subscribed(b)
      <4> DEFINE q == s.queue[b]  f == s.fed[b]
      <4>1. q \in Seq(Event) /\ f \in Seq(Event) /\ Len(q) <= QueueSize /\ Latest(q, f)
            /\ t.queue[b] = Enqueued(q, e) /\ t.fed[b] = Append(f, e)
            /\ s.lost[b] \subseteq Event
            /\ t.lost[b] = IF Len(q) >= QueueSize THEN s.lost[b] \cup {Head(q)} ELSE s.lost[b]
        BY <2>1, <2>2, <3>2
      <4> HIDE DEF q, f
      <4>2. Enqueued(q, e) \in Seq(Event) /\ Len(Enqueued(q, e)) <= QueueSize
            /\ (Len(q) >= QueueSize => q # << >> /\ Head(q) \in Event)
        BY <4>1, EnqueuedFits
      <4>3. Latest(Enqueued(q, e), Append(f, e))
        <5>1. CASE Len(q) < QueueSize
          BY <4>1, <5>1, LatestAppend DEF Enqueued
        <5>2. CASE ~(Len(q) < QueueSize)
          <6>1. q # << >>
            BY <4>1, <4>2, <5>2, <2>3
          <6>2. Tail(q) \in Seq(Event) /\ Latest(Tail(q), f)
            BY <4>1, <6>1, LatestTail
          <6>3. QED
            BY <4>1, <5>2, <6>2, LatestAppend DEF Enqueued
        <5>3. QED
          BY <5>1, <5>2
      <4>4. QED
        BY <4>1, <4>2, <4>3
    <3>3. QED
      BY <3>1, <3>2
  <2>9. /\ t.queue \in [Browser -> Seq(Event)] /\ t.fed \in [Browser -> Seq(Event)]
        /\ t.lost \in [Browser -> SUBSET Event]
    <3>1. \E q, f, l : t.queue = [b \in Browser |-> q[b]] /\ t.fed = [b \in Browser |-> f[b]]
                       /\ t.lost = [b \in Browser |-> l[b]]
      <4>1. t.queue = [b \in Browser |-> t.queue[b]]
        BY <2>1
      <4>2. t.fed = [b \in Browser |-> t.fed[b]]
        BY <2>1
      <4>3. t.lost = [b \in Browser |-> t.lost[b]]
        BY <2>1
      <4>4. QED
        BY <4>1, <4>2, <4>3
    <3>2. QED
      BY <3>1, <2>8
  <2>10. t \in BusType
    BY <2>1, <2>6, <2>7, <2>9 DEF BusType
  <2>11. BusOK(t)
    BY <2>6, <2>7, <2>8, <2>10 DEF BusOK
  <2>12. QED
    BY <2>11 DEF t
<1>3. QED
  BY <1>1, <1>2

\* A new event waits for every subscriber afterwards, and what waited before
\* waits still or is noted as lost.
LEMMA PublishedReaches ==
  ASSUME NEW s, BusOK(s), NEW e \in Event, NEW b \in Browser, Subscribed(b)
  PROVE  /\ Waiting(s, b) \cup s.lost[b] \cup ({e} \ s.seen)
              \subseteq Waiting(Published(s, e), b) \cup Published(s, e).lost[b]
         /\ Published(s, e).seen \subseteq s.seen \cup {e}
<1>1. CASE e \in s.seen
  BY <1>1 DEF Published
<1>2. CASE e \notin s.seen
  <2> DEFINE t == Published(s, e)  q == s.queue[b]
  <2>0. /\ t.seen = IF Cardinality(s.seen \cup {e}) > 2 * Capacity
                    THEN ToSet(s.recent) \cup {e} ELSE s.seen \cup {e}
        /\ t.queue = [c \in Browser |-> IF Subscribed(c) THEN Enqueued(s.queue[c], e) ELSE s.queue[c]]
        /\ t.lost = [c \in Browser |-> IF Subscribed(c) /\ Len(s.queue[c]) >= QueueSize
                                       THEN s.lost[c] \cup {Head(s.queue[c])} ELSE s.lost[c]]
    BY <1>2, PublishedFields
  <2> HIDE DEF t
  <2>1. /\ t.seen = IF Cardinality(s.seen \cup {e}) > 2 * Capacity
                    THEN ToSet(s.recent) \cup {e} ELSE s.seen \cup {e}
        /\ t.queue[b] = Enqueued(q, e)
        /\ t.lost[b] = IF Len(q) >= QueueSize THEN s.lost[b] \cup {Head(q)} ELSE s.lost[b]
    BY <2>0
  <2>2. q \in Seq(Event) /\ Len(q) <= QueueSize /\ ToSet(s.recent) \subseteq s.seen
    BY DEF BusOK, BusType
  <2> HIDE DEF q
  <2>3. Len(q) \in Nat /\ QueueSize \in Nat
    BY <2>2, LiveEventsAssumption
  <2>4. e \in ToSet(Enqueued(q, e))
        /\ ToSet(q) \subseteq ToSet(Enqueued(q, e)) \cup t.lost[b] /\ s.lost[b] \subseteq t.lost[b]
    <3>1. /\ e \in ToSet(Enqueued(q, e))
          /\ Len(q) < QueueSize => ToSet(q) \subseteq ToSet(Enqueued(q, e))
          /\ Len(q) >= QueueSize => ToSet(q) \subseteq ToSet(Enqueued(q, e)) \cup {Head(q)}
      BY <2>2, EnqueuedFits
    <3>2. CASE Len(q) < QueueSize
      BY <2>1, <2>3, <3>1, <3>2
    <3>3. CASE Len(q) >= QueueSize
      BY <2>1, <3>1, <3>3
    <3>4. QED
      BY <2>3, <3>2, <3>3
  <2>5. QED
    BY <2>1, <2>2, <2>4 DEF Waiting, t, q
<1>3. QED
  BY <1>1, <1>2

-----------------------------------------------------------------------------
(***************************************************************************)
(* The rows, in whatever order transactions commit.                        *)
(***************************************************************************)
\* Rows that are not committed belong to one transaction at most, and the
\* poller holds committed rows, a page of them after its watermark.
RowInv ==
  /\ Types /\ clock <= MaxTxns
  /\ \A w \in Writer : txn[w].events \cap Committed = {}
  /\ \A v, w \in Writer : v # w => txn[v].events \cap txn[w].events = {}
  /\ poller.page \subseteq Committed /\ poller.published \subseteq Committed
  /\ \A e \in poller.page : After(e, poller.mark)

\* Committed rows stay, at their time.
RowsKept == Committed \subseteq Committed' /\ \A e \in Committed : stream'[e] = stream[e]

LEMMA NoTxnType ==
  NoTxn \in [open : BOOLEAN, at : Nat, events : SUBSET Event] /\ NoTxn.events = {}
<1> DEFINE no == FALSE
<1>1. NoTxn = [open |-> no, at |-> 0, events |-> {}] /\ no \in BOOLEAN
  BY DEF NoTxn
<1> HIDE DEF no
<1>2. QED
  BY <1>1

LEMMA InitRows == Init => RowInv
<1> SUFFICES ASSUME Init PROVE RowInv
  OBVIOUS
<1>1. Types /\ clock <= MaxTxns
  BY LiveEventsAssumption DEF Init, Types, NoTxn, NewPoller
<1>2. Committed = {}
  BY DEF Init, Committed
<1>3. QED
  BY <1>1, <1>2 DEF Init, RowInv, NoTxn, NewPoller

LEMMA WriterRows ==
  ASSUME RowInv, WriterNext
  PROVE  RowInv' /\ RowsKept /\ UNCHANGED <<poller, bus, browser>>
<1>1. PICK w \in Writer : TxnBegin(w) \/ (\E e \in Event : TxnInsert(w, e)) \/ TxnCommit(w) \/ TxnAbort(w)
  BY DEF WriterNext
<1>2. /\ UNCHANGED <<poller, bus, browser>>
      /\ txn[w] \in [open : BOOLEAN, at : Nat, events : SUBSET Event]
      /\ clock \in Nat /\ MaxTxns \in Nat
  BY <1>1, LiveEventsAssumption DEF TxnBegin, TxnInsert, TxnCommit, TxnAbort, RowInv, Types
<1>3. ASSUME UNCHANGED stream PROVE RowsKept /\ Committed' = Committed
             /\ \A e \in Event : After(e, poller.mark)' <=> After(e, poller.mark)
  BY <1>2, <1>3 DEF RowsKept, Committed, After, Mark, Earlier
<1>4. ASSUME UNCHANGED stream, clock' \in Nat, clock' <= MaxTxns,
             NEW t \in [open : BOOLEAN, at : Nat, events : SUBSET Event],
             txn' = [txn EXCEPT ![w] = t],
             t.events \cap Committed = {},
             \A v \in Writer : v # w => txn[v].events \cap t.events = {}
      PROVE  RowInv'
  <2>1. txn' \in [Writer -> [open : BOOLEAN, at : Nat, events : SUBSET Event]]
    BY <1>4 DEF RowInv, Types
  <2>2. txn'[w] = t /\ \A v \in Writer : v # w => txn'[v] = txn[v]
    BY <1>4 DEF RowInv, Types
  <2>3. Types'
    BY <1>2, <1>4, <2>1 DEF RowInv, Types
  <2>4. Committed \subseteq Event
    BY DEF Committed
  <2>5. QED
    BY <1>2, <1>3, <1>4, <2>2, <2>3, <2>4 DEF RowInv
<1>5. CASE TxnBegin(w)
  <2> DEFINE yes == TRUE
             t == [open |-> yes, at |-> clock, events |-> {}]
  <2>1. /\ txn' = [txn EXCEPT ![w] = t] /\ clock' = clock + 1 /\ clock < MaxTxns
        /\ UNCHANGED stream
    BY <1>5 DEF TxnBegin
  <2>2. yes \in BOOLEAN
    OBVIOUS
  <2> HIDE DEF yes
  <2>3. t \in [open : BOOLEAN, at : Nat, events : SUBSET Event] /\ t.events = {}
    BY <1>2, <2>2
  <2> HIDE DEF t
  <2>4. RowInv'
    <3>1. clock' \in Nat /\ clock' <= MaxTxns
      BY <1>2, <2>1
    <3>2. t.events \cap Committed = {} /\ \A v \in Writer : v # w => txn[v].events \cap t.events = {}
      BY <2>3
    <3>3. QED
      BY <1>4, <2>1, <2>3, <3>1, <3>2
  <2>5. QED
    BY <1>2, <1>3, <2>1, <2>4
<1>6. ASSUME NEW e \in Event, TxnInsert(w, e) PROVE RowInv' /\ RowsKept
  <2> DEFINE t == [txn[w] EXCEPT !.events = txn[w].events \cup {e}]
  <2>1. /\ txn' = [txn EXCEPT ![w] = t] /\ UNCHANGED <<clock, stream>>
        /\ e \notin Committed /\ \A v \in Writer : e \notin txn[v].events
    BY <1>6 DEF TxnInsert
  <2>2. t \in [open : BOOLEAN, at : Nat, events : SUBSET Event] /\ t.events = txn[w].events \cup {e}
    BY <1>2
  <2> HIDE DEF t
  <2>3. t.events \cap Committed = {} /\ \A v \in Writer : v # w => txn[v].events \cap t.events = {}
    BY <2>1, <2>2 DEF RowInv
  <2>4. clock' \in Nat /\ clock' <= MaxTxns
    BY <1>2, <2>1 DEF RowInv
  <2>5. RowInv'
    BY <1>4, <2>1, <2>2, <2>3, <2>4
  <2>6. QED
    BY <1>3, <2>1, <2>5
<1>7. CASE TxnAbort(w)
  <2>1. txn' = [txn EXCEPT ![w] = NoTxn] /\ UNCHANGED <<clock, stream>>
    BY <1>7 DEF TxnAbort
  <2>2. RowInv'
    <3>1. clock' \in Nat /\ clock' <= MaxTxns
      BY <1>2, <2>1 DEF RowInv
    <3>2. NoTxn.events \cap Committed = {}
          /\ \A v \in Writer : v # w => txn[v].events \cap NoTxn.events = {}
      BY NoTxnType
    <3>3. QED
      BY <1>4, <2>1, <3>1, <3>2, NoTxnType
  <2>3. QED
    BY <1>2, <1>3, <2>1, <2>2
<1>8. CASE TxnCommit(w)
  <2> DEFINE new == txn[w].events  at == txn[w].at
  <2>1. /\ stream' = [e \in Event |-> IF e \in new THEN at ELSE stream[e]]
        /\ txn' = [txn EXCEPT ![w] = NoTxn] /\ UNCHANGED clock
    BY <1>8 DEF TxnCommit
  <2>2. new \subseteq Event /\ at \in Nat /\ new \cap Committed = {}
    BY <1>2 DEF RowInv
  <2> HIDE DEF new, at
  <2>3. stream' \in [Event -> Nat \cup {None}] /\ Committed' = Committed \cup new /\ RowsKept
    BY <2>1, <2>2, LiveEventsAssumption DEF RowInv, Types, Committed, RowsKept
  <2>4. txn' \in [Writer -> [open : BOOLEAN, at : Nat, events : SUBSET Event]]
        /\ txn'[w] = NoTxn /\ \A v \in Writer : v # w => txn'[v] = txn[v]
    BY <2>1, NoTxnType DEF RowInv, Types
  <2>5. Types' /\ clock' <= MaxTxns
    BY <1>2, <2>1, <2>3, <2>4 DEF RowInv, Types
  <2>6. \A v \in Writer : txn'[v].events \cap Committed' = {}
    BY <2>3, <2>4, NoTxnType DEF RowInv, new
  <2>7. \A u, v \in Writer : u # v => txn'[u].events \cap txn'[v].events = {}
    BY <2>4, NoTxnType DEF RowInv
  <2>8. \A e \in Committed : After(e, poller.mark)' <=> After(e, poller.mark)
    BY <1>2, <2>3 DEF RowsKept, After, Mark, Earlier
  <2>9. RowInv'
    BY <1>2, <2>3, <2>5, <2>6, <2>7, <2>8 DEF RowInv
  <2>10. QED
    BY <1>2, <2>3, <2>9
<1>9. QED
  BY <1>1, <1>2, <1>5, <1>6, <1>7, <1>8

\* The page is read in order and published as a whole.
LEMMA ReadRows ==
  ASSUME RowInv, FanOutRead
  PROVE  RowInv' /\ RowsKept /\ UNCHANGED <<bus, browser>>
         /\ poller'.mark = poller.mark /\ poller'.published = poller.published
<1> DEFINE page == RowsAfter(poller.mark)
<1>1. poller' = [poller EXCEPT !.page = page] /\ UNCHANGED <<clock, txn, stream, bus, browser>>
  BY DEF FanOutRead
<1>2. page \subseteq Committed /\ \A e \in page : After(e, poller.mark)
  BY DEF RowsAfter
<1> HIDE DEF page
<1>3. Committed \subseteq Event
  BY DEF Committed
<1>4. /\ poller' \in [mark : {None} \cup Time, page : SUBSET Event, published : SUBSET Event]
      /\ poller'.page = page /\ poller'.mark = poller.mark /\ poller'.published = poller.published
  BY <1>1, <1>2, <1>3 DEF RowInv, Types
<1>5. Committed' = Committed /\ RowsKept /\ \A e \in Event : After(e, poller.mark)' <=> After(e, poller.mark)
  BY <1>1, <1>4 DEF Committed, RowsKept, After, Mark, Earlier
<1>6. Types' /\ clock' <= MaxTxns
  BY <1>1, <1>4 DEF RowInv, Types
<1>7. QED
  BY <1>1, <1>2, <1>3, <1>4, <1>5, <1>6 DEF RowInv

\* The rows of a page one after the other, the watermark at the last of them.
LEMMA PageListed ==
  ASSUME RowInv, poller.page # {}, NEW rows \in InOrder(poller.page)
  PROVE  /\ \E n \in Nat : n >= 1 /\ rows \in [1..n -> poller.page] /\ Last(rows) = rows[n]
         /\ \A e \in poller.page : \E i \in DOMAIN rows : rows[i] = e
         /\ \A i, j \in DOMAIN rows : i < j => Earlier(Mark(rows[i]), Mark(rows[j]))
<1> DEFINE page == poller.page  n == Cardinality(page)
<1>1. page \subseteq Committed /\ Committed \subseteq Event /\ IsFiniteSet(page)
  BY LiveEventsAssumption, FS_Subset DEF RowInv, Committed
<1>2. n \in Nat
  BY <1>1, FS_CardinalityType
<1>3. /\ rows \in [1..n -> page] /\ \A e \in page : \E i \in DOMAIN rows : rows[i] = e
      /\ \A i, j \in DOMAIN rows : i < j => Earlier(Mark(rows[i]), Mark(rows[j]))
  BY DEF InOrder, Listings
<1> HIDE DEF n
<1>4. n >= 1
  BY <1>2, <1>3
<1>5. Last(rows) = rows[n]
  BY <1>2, <1>3, SeqOfFunction DEF Last
<1>6. QED
  BY <1>2, <1>3, <1>4, <1>5

LEMMA PublishRows ==
  ASSUME RowInv, FanOutPublish
  PROVE  RowInv' /\ RowsKept /\ UNCHANGED browser
<1>1. PICK rows \in InOrder(poller.page) :
        poller' = [mark |-> Mark(Last(rows)), page |-> {},
                   published |-> poller.published \cup poller.page]
  BY DEF FanOutPublish
<1>2. poller.page # {} /\ UNCHANGED <<clock, txn, stream, browser>>
  BY DEF FanOutPublish
<1>3. PICK n \in Nat : n >= 1 /\ rows \in [1..n -> poller.page] /\ Last(rows) = rows[n]
  BY <1>2, PageListed
<1>4. Last(rows) \in Committed
  BY <1>3 DEF RowInv
<1>5. Mark(Last(rows)) \in Time
  BY <1>4, MarkType DEF RowInv
<1>6. Types' /\ clock' <= MaxTxns
  BY <1>1, <1>2, <1>5 DEF RowInv, Types
<1>7. Committed' = Committed /\ RowsKept
  BY <1>2 DEF Committed, RowsKept
<1>8. QED
  BY <1>1, <1>2, <1>6, <1>7 DEF RowInv

LEMMA RestartRows ==
  ASSUME RowInv, ApiRestart
  PROVE  RowInv' /\ RowsKept
<1>1. /\ poller'.mark = None /\ poller'.page = {} /\ poller'.published = {}
      /\ UNCHANGED <<clock, txn, stream>>
      /\ poller' \in [mark : {None} \cup Time, page : SUBSET Event, published : SUBSET Event]
  BY DEF ApiRestart, NewPoller
<1>2. Committed' = Committed /\ RowsKept
  BY <1>1 DEF Committed, RowsKept
<1>3. QED
  BY <1>1, <1>2 DEF RowInv, Types

LEMMA OtherRows ==
  ASSUME RowInv, UNCHANGED <<clock, txn, stream, poller>>
  PROVE  RowInv' /\ RowsKept
BY DEF RowInv, Types, Committed, RowsKept, After, Mark, Earlier

LEMMA BrowserRows ==
  ASSUME RowInv, BrowserNext
  PROVE  RowInv' /\ RowsKept /\ UNCHANGED <<stream, poller>>
<1>1. UNCHANGED <<clock, txn, stream, poller>>
  BY DEF BrowserNext, Subscribe, Open, Deliver, Drop, AnswerRead, AnswerMerge, AnswerFail
<1>2. QED
  BY <1>1, OtherRows

LEMMA NextKeepsRows == RowInv /\ [Next]_vars => RowInv'
<1> SUFFICES ASSUME RowInv, [Next]_vars PROVE RowInv'
  OBVIOUS
<1>1. CASE UNCHANGED vars
  BY <1>1, OtherRows DEF vars
<1>2. QED
  BY <1>1, WriterRows, ReadRows, PublishRows, BrowserRows, RestartRows DEF Next

-----------------------------------------------------------------------------
(***************************************************************************)
(* The bus: what a subscription was fed is committed, in order, and not    *)
(* after the watermark.                                                    *)
(***************************************************************************)
Reached(e, mark) == mark # None /\ (Mark(e) = mark \/ Earlier(Mark(e), mark))

\* All that a subscription was fed is committed and not after the watermark.
BusInv ==
  /\ BusOK(bus) /\ bus.seen \subseteq poller.published
  /\ \A b \in Browser : \A k \in DOMAIN bus.fed[b] :
       bus.fed[b][k] \in Committed /\ Reached(bus.fed[b][k], poller.mark)
  /\ FedInOrder

\* run lists the states of the bus in the loop over the rows of a page.
Looped(rows, n, run) ==
  /\ n \in Nat /\ n >= 1 /\ rows \in [1..n -> poller.page]
  /\ \A e \in poller.page : \E i \in 1..n : rows[i] = e
  /\ \A i, j \in 1..n : i < j => Earlier(Mark(rows[i]), Mark(rows[j]))
  /\ run[0] = bus
  /\ \A i \in 1..n : run[i] = Published(run[i-1], rows[i])
  /\ \A i \in 0..n : BusOK(run[i])

LEMMA PublishRun ==
  ASSUME RowInv, BusOK(bus), FanOutPublish
  PROVE  \E rows, n, run :
           /\ Looped(rows, n, run) /\ bus' = run[n]
           /\ poller' = [mark |-> Mark(rows[n]), page |-> {},
                         published |-> poller.published \cup poller.page]
<1>1. PICK rows \in InOrder(poller.page) :
        /\ bus' = PublishedAll(bus, rows)
        /\ poller' = [mark |-> Mark(Last(rows)), page |-> {},
                      published |-> poller.published \cup poller.page]
  BY DEF FanOutPublish, PublishedAll
<1>2. PICK n \in Nat : n >= 1 /\ rows \in [1..n -> poller.page] /\ Last(rows) = rows[n]
  BY PageListed DEF FanOutPublish
<1>3. /\ DOMAIN rows = 1..n
      /\ \A e \in poller.page : \E i \in 1..n : rows[i] = e
      /\ \A i, j \in 1..n : i < j => Earlier(Mark(rows[i]), Mark(rows[j]))
  <2>1. DOMAIN rows = 1..n
    BY <1>2
  <2>2. /\ \A e \in poller.page : \E i \in DOMAIN rows : rows[i] = e
        /\ \A i, j \in DOMAIN rows : i < j => Earlier(Mark(rows[i]), Mark(rows[j]))
    BY PageListed DEF FanOutPublish
  <2>3. QED
    BY <2>1, <2>2
<1>4. PICK run : Unfolded(bus, rows, n, run)
  BY <1>3, PublishingUnfolds
<1>5. /\ run[0] = bus /\ PublishedAll(bus, rows) = run[n]
      /\ \A i \in 1..n : run[i] = Published(run[i-1], rows[i])
  BY <1>4 DEF Unfolded
<1> DEFINE Ok == {i \in Nat : i <= n => BusOK(run[i])}
<1>6. 0 \in Ok
  BY <1>5
<1>7. ASSUME NEW i \in Nat, i \in Ok PROVE i + 1 \in Ok
  <2> SUFFICES ASSUME i + 1 <= n PROVE BusOK(run[i + 1])
    OBVIOUS
  <2>1. BusOK(run[i]) /\ i + 1 \in 1..n /\ (i + 1) - 1 = i
    BY <1>2, <1>7
  <2>2. rows[i + 1] \in Event
    BY <1>2, <2>1 DEF RowInv, Committed
  <2>3. run[i + 1] = Published(run[i], rows[i + 1])
    BY <1>5, <2>1
  <2>4. QED
    BY <2>1, <2>2, <2>3, PublishedKeeps
<1>8. Nat \subseteq Ok
  <2> HIDE DEF Ok
  <2>1. QED
    BY <1>6, <1>7, NatSetInduction
<1>9. \A i \in 0..n : BusOK(run[i])
  BY <1>8
<1>10. Looped(rows, n, run)
  BY <1>2, <1>3, <1>5, <1>9 DEF Looped
<1>11. QED
  BY <1>1, <1>2, <1>5, <1>10

LEMMA PublishedSeen ==
  ASSUME NEW s, BusOK(s), NEW e \in Event
  PROVE  Published(s, e).seen \subseteq s.seen \cup {e}
<1>1. CASE e \in s.seen
  BY <1>1 DEF Published
<1>2. CASE e \notin s.seen
  <2> DEFINE t == Published(s, e)
  <2>1. t.seen = IF Cardinality(s.seen \cup {e}) > 2 * Capacity
                 THEN ToSet(s.recent) \cup {e} ELSE s.seen \cup {e}
    BY <1>2, PublishedFields
  <2> HIDE DEF t
  <2>2. ToSet(s.recent) \subseteq s.seen
    BY DEF BusOK
  <2>3. t.seen \subseteq s.seen \cup {e}
    BY <2>1, <2>2
  <2>4. QED
    BY <2>3 DEF t
<1>3. QED
  BY <1>1, <1>2

LEMMA PublishedFeeds ==
  ASSUME NEW s, BusOK(s), NEW e \in Event, NEW b \in Browser
  PROVE  /\ Published(s, e).fed[b] \in {s.fed[b], Append(s.fed[b], e)}
         /\ s.fed[b] \in Seq(Event)
<1>1. s.fed[b] \in Seq(Event)
  BY DEF BusOK, BusType
<1>2. CASE e \in s.seen
  BY <1>1, <1>2 DEF Published
<1>3. CASE e \notin s.seen
  <2> DEFINE t == Published(s, e)
  <2>1. t.fed = [c \in Browser |-> IF Subscribed(c) THEN Append(s.fed[c], e) ELSE s.fed[c]]
    BY <1>3, PublishedFields
  <2> HIDE DEF t
  <2>2. t.fed[b] \in {s.fed[b], Append(s.fed[b], e)}
    BY <1>1, <2>1
  <2>3. QED
    BY <1>1, <2>2 DEF t
<1>4. QED
  BY <1>2, <1>3

\* A subscription to which a row is put that lies after all of it stays in order.
LEMMA OrderAppend ==
  ASSUME NEW f \in Seq(Event), NEW e \in Event,
         \A i, j \in DOMAIN f : i < j => Earlier(Mark(f[i]), Mark(f[j])),
         \A i \in DOMAIN f : Earlier(Mark(f[i]), Mark(e))
  PROVE  /\ \A i, j \in DOMAIN Append(f, e) :
              i < j => Earlier(Mark(Append(f, e)[i]), Mark(Append(f, e)[j]))
         /\ \A i \in DOMAIN Append(f, e) :
              Append(f, e)[i] = e \/ \E j \in DOMAIN f : Append(f, e)[i] = f[j]
<1> DEFINE g == Append(f, e)
<1>1. /\ DOMAIN f = 1..Len(f) /\ Len(f) \in Nat /\ DOMAIN g = 1..(Len(f) + 1)
      /\ \A i \in 1..Len(f) : g[i] = f[i]
      /\ g[Len(f) + 1] = e
  OBVIOUS
<1> HIDE DEF g
<1>2. \A i \in DOMAIN g : i = Len(f) + 1 \/ i \in 1..Len(f)
  BY <1>1
<1>3. ASSUME NEW i \in DOMAIN g, NEW j \in DOMAIN g, i < j PROVE Earlier(Mark(g[i]), Mark(g[j]))
  <2>1. i \in 1..Len(f)
    BY <1>1, <1>3
  <2>2. CASE j = Len(f) + 1
    BY <1>1, <2>1, <2>2
  <2>3. CASE j \in 1..Len(f)
    BY <1>1, <1>3, <2>1, <2>3
  <2>4. QED
    BY <1>2, <2>2, <2>3
<1>4. QED
  BY <1>1, <1>2, <1>3 DEF g

LEMMA PublishBus ==
  ASSUME RowInv, BusInv, FanOutPublish
  PROVE  BusInv'
<1>1. PICK rows, n, run :
        /\ Looped(rows, n, run) /\ bus' = run[n]
        /\ poller' = [mark |-> Mark(rows[n]), page |-> {},
                      published |-> poller.published \cup poller.page]
  BY PublishRun DEF BusInv
<1>2. /\ n \in Nat /\ n >= 1 /\ rows \in [1..n -> poller.page]
      /\ \A i, j \in 1..n : i < j => Earlier(Mark(rows[i]), Mark(rows[j]))
      /\ run[0] = bus
      /\ \A i \in 1..n : run[i] = Published(run[i-1], rows[i])
      /\ \A i \in 0..n : BusOK(run[i])
  BY <1>1 DEF Looped
<1>3. UNCHANGED stream /\ Committed' = Committed
  BY DEF FanOutPublish, Committed
<1>4. \A i \in 1..n : rows[i] \in Committed /\ rows[i] \in Event /\ After(rows[i], poller.mark)
  BY <1>2 DEF RowInv, Committed
<1> DEFINE Far(s, b, k, i) == \A j \in 1..n : i < j => Earlier(Mark(s.fed[b][k]), Mark(rows[j]))
           Near(s, b, k, i) == i >= 1 => \/ s.fed[b][k] = rows[i]
                                         \/ Earlier(Mark(s.fed[b][k]), Mark(rows[i]))
           Fed(s, b, i) ==
             /\ \A k \in DOMAIN s.fed[b] : s.fed[b][k] \in Committed /\ Far(s, b, k, i) /\ Near(s, b, k, i)
             /\ \A k, l \in DOMAIN s.fed[b] :
                  k < l => Earlier(Mark(s.fed[b][k]), Mark(s.fed[b][l]))
           Good(i) == /\ run[i].seen \subseteq poller.published \cup poller.page
                      /\ \A b \in Browser : Fed(run[i], b, i)
<1>5. Good(0)
  <2>1. ASSUME NEW b \in Browser, NEW k \in DOMAIN bus.fed[b], NEW j \in 1..n
        PROVE  Earlier(Mark(bus.fed[b][k]), Mark(rows[j]))
    <3> DEFINE x == bus.fed[b][k]
    <3>1. x \in Committed /\ Reached(x, poller.mark)
      BY DEF BusInv
    <3>2. Mark(x) \in Time /\ Mark(rows[j]) \in Time
      BY <1>4, <3>1, MarkType DEF RowInv
    <3>3. poller.mark # None /\ poller.mark \in Time /\ Earlier(poller.mark, Mark(rows[j]))
      BY <1>4, <3>1 DEF Reached, After, RowInv, Types
    <3> HIDE DEF x
    <3>4. Earlier(Mark(x), Mark(rows[j]))
      BY <3>1, <3>2, <3>3, EarlierTrans DEF Reached
    <3>5. QED
      BY <3>4 DEF x
  <2>2. QED
    BY <1>2, <2>1 DEF BusInv, FedInOrder
<1>6. ASSUME NEW i \in Nat, i + 1 <= n, Good(i) PROVE Good(i + 1)
  <2> DEFINE e == rows[i + 1]  s == run[i]  t == run[i + 1]
  <2>1. i + 1 \in 1..n /\ (i + 1) - 1 = i /\ i \in 0..n /\ i + 1 \in 0..n
    BY <1>2, <1>6
  <2>2. BusOK(s) /\ t = Published(s, e) /\ e \in Event /\ e \in Committed /\ e \in poller.page
    BY <1>2, <1>4, <2>1
  <2>3. t.seen \subseteq s.seen \cup {e}
    BY <2>2, PublishedSeen
  <2>4. t.seen \subseteq poller.published \cup poller.page
    BY <1>6, <2>2, <2>3
  <2>5. ASSUME NEW b \in Browser PROVE Fed(t, b, i + 1)
    <3>1. Fed(s, b, i)
      BY <1>6
    <3>2. t.fed[b] \in {s.fed[b], Append(s.fed[b], e)} /\ s.fed[b] \in Seq(Event)
      BY <2>2, PublishedFeeds
    <3> DEFINE f == s.fed[b]  g == t.fed[b]
    <3>3. \A k \in DOMAIN f : f[k] \in Committed /\ Earlier(Mark(f[k]), Mark(e))
                              /\ \A j \in 1..n : i < j => Earlier(Mark(f[k]), Mark(rows[j]))
      BY <2>1, <3>1
    <3>4. \A k, l \in DOMAIN f : k < l => Earlier(Mark(f[k]), Mark(f[l]))
      BY <3>1
    <3> HIDE DEF f, g, e
    <3>0. f \in Seq(Event) /\ e \in Event /\ e \in Committed /\ g \in {f, Append(f, e)}
      BY <2>2, <3>2 DEF f, g
    <3>5. \A k \in DOMAIN g : g[k] = e \/ \E j \in DOMAIN f : g[k] = f[j]
      <4>1. CASE g = f
        BY <4>1
      <4>2. CASE g = Append(f, e)
        BY <3>0, <3>3, <3>4, <4>2, OrderAppend
      <4>3. QED
        BY <3>0, <4>1, <4>2
    <3>6. \A k, l \in DOMAIN g : k < l => Earlier(Mark(g[k]), Mark(g[l]))
      <4>1. CASE g = f
        BY <3>4, <4>1
      <4>2. CASE g = Append(f, e)
        BY <3>0, <3>3, <3>4, <4>2, OrderAppend
      <4>3. QED
        BY <3>0, <4>1, <4>2
    <3>7. \A k \in DOMAIN g : g[k] \in Committed
      BY <3>0, <3>3, <3>5
    <3>8. \A k \in DOMAIN g : g[k] = e \/ Earlier(Mark(g[k]), Mark(e))
      BY <3>3, <3>5
    <3>9. ASSUME NEW k \in DOMAIN g, NEW j \in 1..n, i + 1 < j
          PROVE  Earlier(Mark(g[k]), Mark(rows[j]))
      <4>1. i < j /\ Earlier(Mark(e), Mark(rows[j]))
        BY <1>2, <2>1, <3>9 DEF e
      <4>2. QED
        BY <3>3, <3>5, <4>1
    <3>10. QED
      BY <3>6, <3>7, <3>8, <3>9 DEF e, g
  <2>6. QED
    BY <2>4, <2>5
<1>7. Good(n)
  <2> HIDE DEF Good
  <2> DEFINE Ok == {i \in Nat : i <= n => Good(i)}
  <2>1. 0 \in Ok
    BY <1>5
  <2>2. ASSUME NEW i \in Nat, i \in Ok PROVE i + 1 \in Ok
    <3>1. i + 1 <= n => i <= n
      BY <1>2
    <3>2. QED
      BY <1>6, <2>2, <3>1
  <2>3. Nat \subseteq Ok
    <3> HIDE DEF Ok
    <3>1. QED
      BY <2>1, <2>2, NatSetInduction
  <2>4. QED
    BY <1>2, <2>3
<1>8. bus'.seen \subseteq poller'.published
  BY <1>1, <1>7
<1>9. BusOK(bus)'
  <2>1. BusOK(run[n])
    BY <1>2
  <2>2. QED
    BY <1>1, <2>1 DEF BusOK
<1>10. FedInOrder'
  BY <1>1, <1>3, <1>7 DEF FedInOrder, Mark
<1>11. ASSUME NEW b \in Browser, NEW k \in DOMAIN bus'.fed[b]
       PROVE  bus'.fed[b][k] \in Committed /\ Reached(bus.fed[b][k], poller.mark)'
  <2>1. PICK x \in Committed : x = bus'.fed[b][k] /\ (x = rows[n] \/ Earlier(Mark(x), Mark(rows[n])))
    BY <1>1, <1>2, <1>7
  <2>2. poller'.mark = Mark(rows[n]) /\ Mark(x)' = Mark(x)
    BY <1>1, <1>3 DEF Mark
  <2>3. n \in 1..n
    BY <1>2
  <2>4. Mark(rows[n]) # None
    <3>1. Mark(rows[n]) \in Time
      BY <1>4, <2>3, MarkType DEF RowInv
    <3>2. QED
      BY <3>1, LiveEventsAssumption DEF Time
  <2>5. poller'.mark # None /\ (Mark(x)' = poller'.mark \/ Earlier(Mark(x)', poller'.mark))
    BY <2>1, <2>2, <2>4
  <2>6. Reached(bus.fed[b][k], poller.mark)'
    BY <2>1, <2>5 DEF Reached, Mark, Earlier
  <2>7. QED
    BY <2>1, <2>6
<1>12. QED
  BY <1>3, <1>8, <1>9, <1>10, <1>11 DEF BusInv

LEMMA InitBus == ASSUME Init PROVE BusInv
<1>1. bus = [seen |-> {}, recent |-> << >>, queue |-> [b \in Browser |-> << >>],
             fed |-> [b \in Browser |-> << >>], lost |-> [b \in Browser |-> {}]]
  BY DEF Init, NewBus
<1>2. << >> \in Seq(Event) /\ Len(<< >>) = 0 /\ DOMAIN << >> = 1..0 /\ Cardinality({}) = 0
  BY FS_EmptySet
<1>3. bus \in BusType
  BY <1>1, <1>2 DEF BusType
<1>4. BusOK(bus)
  BY <1>1, <1>2, <1>3, LiveEventsAssumption DEF BusOK, ToSet, Latest
<1>5. \A b \in Browser : DOMAIN bus.fed[b] = {}
  BY <1>1
<1>6. QED
  BY <1>1, <1>4, <1>5 DEF BusInv, FedInOrder

\* Rows that are added, and pages that are read, are behind what was fed.
LEMMA BusUntouched ==
  ASSUME RowInv, BusInv, RowsKept, UNCHANGED bus,
         poller'.mark = poller.mark, poller'.published = poller.published
  PROVE  BusInv'
<1>1. \A e \in Committed : e \in Committed' /\ Mark(e)' = Mark(e)
  BY DEF RowsKept, Mark
<1>2. BusOK(bus)'
  <2>1. BusOK(bus)
    BY DEF BusInv
  <2>2. QED
    BY <2>1 DEF BusOK
<1>3. ASSUME NEW b \in Browser, NEW k \in DOMAIN bus.fed[b]
      PROVE  /\ bus.fed[b][k] \in Committed' /\ Reached(bus.fed[b][k], poller.mark)'
             /\ Mark(bus.fed[b][k])' = Mark(bus.fed[b][k])
  <2>1. PICK x \in Committed : x = bus.fed[b][k] /\ Reached(x, poller.mark)
    BY DEF BusInv
  <2>2. x \in Committed' /\ Mark(x)' = Mark(x)
    BY <1>1
  <2>3. QED
    BY <2>1, <2>2 DEF Reached, Mark, Earlier
<1>4. FedInOrder'
  <2> SUFFICES ASSUME NEW b \in Browser, NEW i \in DOMAIN bus.fed[b], NEW j \in DOMAIN bus.fed[b], i < j
               PROVE  Earlier(Mark(bus.fed[b][i]), Mark(bus.fed[b][j]))'
    BY DEF FedInOrder
  <2>1. Earlier(Mark(bus.fed[b][i]), Mark(bus.fed[b][j]))
    BY DEF BusInv, FedInOrder
  <2>2. Mark(bus.fed[b][i])' = Mark(bus.fed[b][i]) /\ Mark(bus.fed[b][j])' = Mark(bus.fed[b][j])
    BY <1>3
  <2>3. QED
    BY <2>1, <2>2 DEF Earlier
<1>5. QED
  BY <1>2, <1>3, <1>4 DEF BusInv

\* A subscription that goes on, or begins anew.
LEMMA BusCut ==
  ASSUME RowInv, BusInv, BusOK(bus'), bus'.seen = bus.seen, UNCHANGED <<stream, poller>>,
         \A b \in Browser : bus'.fed[b] \in {bus.fed[b], << >>}
  PROVE  BusInv'
<1>1. BusOK(bus)'
  BY DEF BusOK
<1>2. Committed' = Committed /\ \A e : Mark(e)' = Mark(e)
  BY DEF Committed, Mark
<1>3. ASSUME NEW b \in Browser, DOMAIN bus'.fed[b] # {} PROVE bus'.fed[b] = bus.fed[b]
  BY <1>3
<1>4. FedInOrder'
  <2> SUFFICES ASSUME NEW b \in Browser, NEW i \in DOMAIN bus'.fed[b], NEW j \in DOMAIN bus'.fed[b], i < j
               PROVE  Earlier(Mark(bus.fed[b][i]), Mark(bus.fed[b][j]))'
    BY DEF FedInOrder
  <2>1. bus'.fed[b] = bus.fed[b]
    BY <1>3
  <2>2. Earlier(Mark(bus.fed[b][i]), Mark(bus.fed[b][j]))
    BY <2>1 DEF BusInv, FedInOrder
  <2>3. QED
    BY <1>2, <2>1, <2>2 DEF Earlier, Mark
<1>5. ASSUME NEW b \in Browser, NEW k \in DOMAIN bus'.fed[b]
      PROVE  bus'.fed[b][k] \in Committed' /\ Reached(bus.fed[b][k], poller.mark)'
  <2>1. bus'.fed[b] = bus.fed[b]
    BY <1>3
  <2>2. bus.fed[b][k] \in Committed /\ Reached(bus.fed[b][k], poller.mark)
    BY <2>1 DEF BusInv
  <2>3. QED
    BY <1>2, <2>1, <2>2 DEF Reached, Earlier, Mark
<1>6. QED
  BY <1>1, <1>4, <1>5 DEF BusInv

LEMMA BrowserBus ==
  ASSUME RowInv, BusInv, BrowserNext
  PROVE  BusInv'
<1>1. PICK b \in Browser :
        \/ Subscribe(b) \/ Open(b) \/ Deliver(b) \/ Drop(b)
        \/ AnswerRead(b) \/ AnswerMerge(b) \/ AnswerFail(b)
  BY DEF BrowserNext
<1>2. UNCHANGED <<stream, poller>> /\ RowsKept
  BY BrowserRows
<1>3. BusOK(bus) /\ bus \in BusType
  BY DEF BusInv, BusOK
<1>4. << >> \in Seq(Event) /\ Len(<< >>) = 0 /\ QueueSize \in Nat
  BY LiveEventsAssumption
<1>5. CASE bus' = [bus EXCEPT !.queue[b] = << >>, !.fed[b] = << >>]
  <2>1. /\ bus' \in BusType /\ bus'.seen = bus.seen /\ bus'.recent = bus.recent
        /\ \A c \in Browser : IF c = b THEN bus'.queue[c] = << >> /\ bus'.fed[c] = << >>
                              ELSE bus'.queue[c] = bus.queue[c] /\ bus'.fed[c] = bus.fed[c]
    BY <1>3, <1>4, <1>5 DEF BusType
  <2>2. Latest(<< >>, << >>)
    BY <1>4 DEF Latest
  <2>3. BusOK(bus')
    BY <1>3, <1>4, <2>1, <2>2 DEF BusOK
  <2>4. QED
    BY <1>2, <2>1, <2>3, BusCut
<1>6. CASE bus.queue[b] # << >> /\ bus' = [bus EXCEPT !.queue[b] = Tail(bus.queue[b])]
  <2> DEFINE q == bus.queue[b]
  <2>1. q \in Seq(Event) /\ q # << >> /\ Len(q) <= QueueSize /\ Latest(q, bus.fed[b])
        /\ bus.fed[b] \in Seq(Event)
    BY <1>3, <1>6 DEF BusOK, BusType
  <2> HIDE DEF q
  <2>2. Tail(q) \in Seq(Event) /\ Len(Tail(q)) = Len(q) - 1 /\ Len(q) \in Nat
    BY <2>1
  <2>3. Latest(Tail(q), bus.fed[b]) /\ Len(Tail(q)) <= QueueSize
    BY <1>4, <2>1, <2>2, LatestTail
  <2>4. bus' = [bus EXCEPT !.queue[b] = Tail(q)]
    BY <1>6 DEF q
  <2>5. /\ bus' \in BusType /\ bus'.seen = bus.seen /\ bus'.recent = bus.recent
        /\ bus'.fed = bus.fed /\ bus'.queue[b] = Tail(q)
        /\ \A c \in Browser : c # b => bus'.queue[c] = bus.queue[c]
    BY <1>3, <2>2, <2>4 DEF BusType
  <2>6. BusOK(bus')
    BY <1>3, <2>3, <2>5 DEF BusOK
  <2>7. QED
    BY <1>2, <2>5, <2>6, BusCut
<1>7. CASE UNCHANGED bus
  BY <1>2, <1>7, BusUntouched
<1>8. QED
  BY <1>1, <1>5, <1>6, <1>7
     DEF Subscribe, Open, Deliver, Drop, AnswerRead, AnswerMerge, AnswerFail

LEMMA RestartBus ==
  ASSUME RowInv, BusInv, ApiRestart
  PROVE  BusInv'
<1>1. bus' = [seen |-> {}, recent |-> << >>, queue |-> [b \in Browser |-> << >>],
              fed |-> [b \in Browser |-> << >>], lost |-> bus.lost]
  BY DEF ApiRestart, NewBus
<1>2. << >> \in Seq(Event) /\ Len(<< >>) = 0 /\ DOMAIN << >> = 1..0 /\ Cardinality({}) = 0
  BY FS_EmptySet
<1>3. bus' \in BusType
  BY <1>1, <1>2 DEF BusType, BusInv, BusOK
<1>4. BusOK(bus)'
  BY <1>1, <1>2, <1>3, LiveEventsAssumption DEF BusOK, ToSet, Latest, BusType
<1>5. \A b \in Browser : DOMAIN bus'.fed[b] = {}
  BY <1>1
<1>6. QED
  BY <1>1, <1>4, <1>5 DEF BusInv, FedInOrder

LEMMA NextKeepsBus == RowInv /\ BusInv /\ [Next]_vars => BusInv'
<1> SUFFICES ASSUME RowInv, BusInv, [Next]_vars PROVE BusInv'
  OBVIOUS
<1>1. CASE WriterNext
  BY <1>1, WriterRows, BusUntouched
<1>2. CASE FanOutRead
  BY <1>2, ReadRows, BusUntouched
<1>3. CASE UNCHANGED vars
  BY <1>3, OtherRows, BusUntouched DEF vars
<1>4. QED
  BY <1>1, <1>2, <1>3, PublishBus, BrowserBus, RestartBus DEF Next

\* However pages are cut, trimmed and begun again after a restart, and however
\* transactions overlap, a subscription is fed in the order of time.
THEOREM FedInOrderAlways == Spec => []FedInOrder
<1>1. Init => RowInv /\ BusInv
  BY InitRows, InitBus
<1>2. RowInv /\ BusInv /\ [Next]_vars => (RowInv /\ BusInv)'
  BY NextKeepsRows, NextKeepsBus
<1>3. RowInv /\ BusInv => FedInOrder
  BY DEF BusInv
<1>4. QED
  BY <1>1, <1>2, <1>3, PTL DEF Spec

\* For every size of the queue, what waits for a subscriber is the latest part
\* of what it was fed: a full queue drops the oldest event and no other.
THEOREM QueueKeepsNewestAlways == Spec => []QueueKeepsNewest
<1>1. Init => RowInv /\ BusInv
  BY InitRows, InitBus
<1>2. RowInv /\ BusInv /\ [Next]_vars => (RowInv /\ BusInv)'
  BY NextKeepsRows, NextKeepsBus
<1>3. ASSUME BusInv PROVE QueueKeepsNewest
  <2> SUFFICES ASSUME NEW b \in Browser PROVE IsSuffix(bus.queue[b], bus.fed[b])
    BY DEF QueueKeepsNewest
  <2>1. bus.queue[b] \in Seq(Event) /\ bus.fed[b] \in Seq(Event) /\ Latest(bus.queue[b], bus.fed[b])
    BY <1>3 DEF BusInv, BusOK, BusType
  <2>2. QED
    BY <2>1, LatestIsSuffix
<1>4. QED
  BY <1>1, <1>2, <1>3, PTL DEF Spec

-----------------------------------------------------------------------------
(***************************************************************************)
(* The dashboards: what one shows or is still to be sent.                  *)
(***************************************************************************)
BrowserType ==
  [link : {"down", "subscribed", "live"}, refill : BOOLEAN, asked : Nat,
   answers : SUBSET SUBSET Event, view : SUBSET Event,
   opened : BOOLEAN, reopened : BOOLEAN, failed : BOOLEAN]

\* What a dashboard shows once the answers under way have come.
Shown(d) == d.view \cup UNION d.answers

\* What the bus still holds for a subscriber or has dropped.
Held(s, b) == Waiting(s, b) \cup s.lost[b]

\* A dashboard whose requests since its stream was reopened are all read
\* shows, or is still to be sent, every important event that was published.
Refilled(b) ==
  LET d == browser[b]
  IN d.link = "live" /\ d.reopened /\ ~d.failed /\ d.asked = 0
     => Recent(Committed) \cap poller.published \subseteq Shown(d) \cup Held(bus, b)

\* A stream that was open once and is not now will be refilled.
RefillKept(d) == d.opened /\ d.link # "live" => d.refill

ViewInv ==
  /\ browser \in [Browser -> BrowserType]
  /\ \A b \in Browser : Shown(browser[b]) \subseteq Committed
  /\ \A b \in Browser : RefillKept(browser[b])
  /\ \A b \in Browser : Refilled(b)

LEMMA InitViews == ASSUME Init PROVE ViewInv
<1> DEFINE no == FALSE
<1>1. NewBrowser = [link |-> "down", refill |-> no, asked |-> 1, answers |-> {}, view |-> {},
                    opened |-> no, reopened |-> no, failed |-> no]
      /\ no \in BOOLEAN /\ ~no
  BY DEF NewBrowser
<1> HIDE DEF no
<1>2. NewBrowser \in BrowserType /\ NewBrowser.link = "down" /\ ~NewBrowser.opened
      /\ Shown(NewBrowser) = {}
  BY <1>1 DEF BrowserType, Shown
<1>3. browser = [b \in Browser |-> NewBrowser]
  BY DEF Init
<1>4. QED
  BY <1>2, <1>3 DEF ViewInv, RefillKept, Refilled

\* Rows that are added push older ones out of the recent events, and put
\* none of them in.
LEMMA RecentShrinks ==
  ASSUME RowInv, RowsKept, NEW e \in Committed, e \in Recent(Committed')
  PROVE  e \in Recent(Committed)
<1> DEFINE old == {f \in Committed : Rank[f] > Rank[e]}
           new == {f \in Committed' : Rank[f] > Rank[e]}
<1>1. old \subseteq new /\ new \subseteq Event
  BY DEF RowsKept, Committed
<1>2. IsFiniteSet(new) /\ IsFiniteSet(old) /\ Cardinality(old) <= Cardinality(new)
  BY <1>1, FS_Subset, LiveEventsAssumption
<1>3. Cardinality(new) < Backfill
  BY DEF Recent
<1>4. Cardinality(old) \in Nat /\ Cardinality(new) \in Nat /\ Backfill \in Nat
  BY <1>2, FS_CardinalityType, LiveEventsAssumption
<1> HIDE DEF new
<1>5. Cardinality(old) < Backfill
  BY <1>2, <1>3, <1>4
<1>6. QED
  BY <1>5 DEF Recent

LEMMA ViewsUntouched ==
  ASSUME RowInv, ViewInv, RowsKept, UNCHANGED <<bus, browser>>,
         poller'.published = poller.published
  PROVE  ViewInv'
<1>1. \A b \in Browser : Shown(browser[b]) \subseteq Committed'
  BY DEF ViewInv, RowsKept
<1>2. poller.published \subseteq Committed
  BY DEF RowInv
<1>3. Recent(Committed') \cap poller.published \subseteq Recent(Committed)
  BY <1>2, RecentShrinks
<1>4. \A b \in Browser : Refilled(b)'
  BY <1>3 DEF ViewInv, Refilled, Held, Waiting, Shown, Recent
<1>5. QED
  BY <1>1, <1>4 DEF ViewInv, RefillKept, Shown

\* The rows of a page that the bus had not seen wait for every subscriber
\* after the loop, and what it held for a subscriber before it still holds.
LEMMA PublishHolds ==
  ASSUME RowInv, NEW rows, NEW n, NEW run, Looped(rows, n, run),
         NEW b \in Browser, Subscribed(b)
  PROVE  Held(bus, b) \cup (poller.page \ bus.seen) \subseteq Held(run[n], b)
<1>1. /\ n \in Nat /\ rows \in [1..n -> poller.page]
      /\ \A e \in poller.page : \E i \in 1..n : rows[i] = e
      /\ run[0] = bus
      /\ \A i \in 1..n : run[i] = Published(run[i-1], rows[i])
      /\ \A i \in 0..n : BusOK(run[i])
  BY DEF Looped
<1> DEFINE Done(i) == {rows[j] : j \in 1..i}
           Good(i) == /\ run[i].seen \subseteq bus.seen \cup Done(i)
                      /\ Held(bus, b) \subseteq Held(run[i], b)
                      /\ Done(i) \subseteq bus.seen \cup Held(run[i], b)
<1>2. Good(0)
  BY <1>1
<1>3. ASSUME NEW i \in Nat, i + 1 <= n, Good(i) PROVE Good(i + 1)
  <2> DEFINE e == rows[i + 1]  s == run[i]  t == run[i + 1]
  <2>1. i + 1 \in 1..n /\ (i + 1) - 1 = i /\ i \in 0..n /\ i + 1 \in 0..n
    BY <1>1, <1>3
  <2>2. BusOK(s) /\ t = Published(s, e) /\ e \in Event
    BY <1>1, <2>1 DEF RowInv, Committed
  <2>3. /\ Held(s, b) \cup ({e} \ s.seen) \subseteq Held(t, b)
        /\ t.seen \subseteq s.seen \cup {e}
    BY <2>2, PublishedReaches DEF Held
  <2>4. Done(i + 1) = Done(i) \cup {e}
    BY <1>3
  <2>5. Good(i)
    BY <1>3
  <2> HIDE DEF Done, e, s, t
  <2>6. /\ t.seen \subseteq bus.seen \cup Done(i + 1)
        /\ Held(bus, b) \subseteq Held(t, b)
        /\ Done(i + 1) \subseteq bus.seen \cup Held(t, b)
    BY <2>3, <2>4, <2>5 DEF s
  <2>7. QED
    BY <2>6 DEF t
<1>4. Good(n)
  <2> HIDE DEF Good
  <2> DEFINE Ok == {i \in Nat : i <= n => Good(i)}
  <2>1. 0 \in Ok
    BY <1>2
  <2>2. ASSUME NEW i \in Nat, i \in Ok PROVE i + 1 \in Ok
    <3>1. i + 1 <= n => i <= n
      BY <1>1
    <3>2. QED
      BY <1>3, <2>2, <3>1
  <2>3. Nat \subseteq Ok
    <3> HIDE DEF Ok
    <3>1. QED
      BY <2>1, <2>2, NatSetInduction
  <2>4. QED
    BY <1>1, <2>3
<1>5. poller.page \subseteq Done(n)
  BY <1>1
<1> HIDE DEF Done
<1>6. QED
  BY <1>4, <1>5

LEMMA PublishViews ==
  ASSUME RowInv, BusInv, ViewInv, FanOutPublish
  PROVE  ViewInv'
<1>1. PICK rows, n, run :
        /\ Looped(rows, n, run) /\ bus' = run[n]
        /\ poller' = [mark |-> Mark(rows[n]), page |-> {},
                      published |-> poller.published \cup poller.page]
  BY PublishRun DEF BusInv
<1>2. UNCHANGED <<stream, browser>> /\ Committed' = Committed
      /\ poller'.published = poller.published \cup poller.page
  BY <1>1 DEF FanOutPublish, Committed
<1>3. ASSUME NEW b \in Browser PROVE Refilled(b)'
  <2> DEFINE d == browser[b]
  <2>1. SUFFICES ASSUME d.link = "live", d.reopened, ~d.failed, d.asked = 0
                 PROVE  Recent(Committed) \cap poller'.published \subseteq Shown(d) \cup Held(bus', b)
    BY <1>2 DEF Refilled, Shown, Held, Waiting
  <2>2. Recent(Committed) \cap poller.published \subseteq Shown(d) \cup Held(bus, b)
    BY <2>1 DEF ViewInv, Refilled
  <2>3. Subscribed(b)
    BY <2>1 DEF Subscribed
  <2>4. Held(bus, b) \cup (poller.page \ bus.seen) \subseteq Held(bus', b)
    BY <1>1, <2>3, PublishHolds
  <2>5. bus.seen \subseteq poller.published
    BY DEF BusInv
  <2> HIDE DEF d
  <2>6. QED
    BY <1>2, <2>2, <2>4, <2>5
<1>4. QED
  BY <1>2, <1>3 DEF ViewInv, RefillKept, Shown

\* A step of one dashboard that leaves the rows and what the bus holds for
\* the others alone.
LEMMA OneBrowser ==
  ASSUME RowInv, ViewInv, UNCHANGED <<stream, poller>>, NEW b \in Browser,
         NEW d \in BrowserType, browser' = [browser EXCEPT ![b] = d],
         Shown(d) \subseteq Committed, RefillKept(d), Refilled(b)',
         \A c \in Browser \ {b} : bus'.queue[c] = bus.queue[c] /\ bus'.lost[c] = bus.lost[c]
  PROVE  ViewInv'
<1>1. /\ browser' \in [Browser -> BrowserType] /\ browser'[b] = d
      /\ \A c \in Browser \ {b} : browser'[c] = browser[c]
  BY DEF ViewInv
<1>2. Committed' = Committed
  BY DEF Committed
<1>3. \A c \in Browser : Shown(browser'[c]) \subseteq Committed
  BY <1>1 DEF ViewInv
<1>4. \A c \in Browser : RefillKept(browser'[c])
  BY <1>1 DEF ViewInv
<1>5. \A c \in Browser \ {b} : Refilled(c)'
  <2> TAKE c \in Browser \ {b}
  <2>1. Refilled(c) /\ browser'[c] = browser[c] /\ Held(bus', c) = Held(bus, c)
    BY <1>1 DEF ViewInv, Held, Waiting
  <2>2. QED
    BY <1>2, <2>1 DEF Refilled, Held, Waiting, Shown, Recent
<1>6. QED
  BY <1>1, <1>2, <1>3, <1>4, <1>5 DEF ViewInv, RefillKept, Shown

LEMMA BrowserViews ==
  ASSUME RowInv, BusInv, ViewInv, BrowserNext
  PROVE  ViewInv'
<1>1. PICK b \in Browser :
        \/ Subscribe(b) \/ Open(b) \/ Deliver(b) \/ Drop(b)
        \/ AnswerRead(b) \/ AnswerMerge(b) \/ AnswerFail(b)
  BY DEF BrowserNext
<1> DEFINE d == browser[b]
<1>2. /\ d \in BrowserType /\ Shown(d) \subseteq Committed /\ RefillKept(d) /\ Refilled(b)
      /\ browser \in [Browser -> BrowserType]
  BY DEF ViewInv
<1>3. UNCHANGED <<stream, poller>> /\ Committed' = Committed
  BY BrowserRows DEF Committed
<1>4. bus \in BusType
  BY DEF BusInv, BusOK
<1>5. ASSUME NEW x \in BrowserType, browser' = [browser EXCEPT ![b] = x], x.link # "live"
      PROVE  Refilled(b)'
  <2>1. browser'[b] = x
    BY <1>2, <1>5
  <2>2. QED
    BY <1>5, <2>1 DEF Refilled
<1> DEFINE yes == TRUE  no == FALSE
<1>6. yes \in BOOLEAN /\ no \in BOOLEAN /\ yes /\ ~no
  OBVIOUS
<1>7. CASE Subscribe(b)
  <2> DEFINE x == [d EXCEPT !.link = "subscribed"]
  <2>1. browser' = [browser EXCEPT ![b] = x] /\ bus' = [bus EXCEPT !.queue[b] = << >>, !.fed[b] = << >>]
        /\ d.link = "down"
    BY <1>7 DEF Subscribe
  <2>2. /\ x \in BrowserType /\ Shown(x) = Shown(d) /\ x.link # "live"
        /\ x.opened = d.opened /\ x.refill = d.refill
    BY <1>2 DEF BrowserType, Shown
  <2> HIDE DEF x
  <2>3. RefillKept(x)
    BY <1>2, <2>1, <2>2 DEF RefillKept
  <2>4. \A c \in Browser \ {b} : bus'.queue[c] = bus.queue[c] /\ bus'.lost[c] = bus.lost[c]
    BY <1>4, <2>1 DEF BusType
  <2>5. QED
    BY <1>2, <1>3, <1>5, <2>1, <2>2, <2>3, <2>4, OneBrowser
<1>8. CASE Drop(b)
  <2> DEFINE x == [d EXCEPT !.link = "down", !.refill = yes]
  <2>1. browser' = [browser EXCEPT ![b] = x] /\ bus' = [bus EXCEPT !.queue[b] = << >>, !.fed[b] = << >>]
    BY <1>8 DEF Drop, Dropped
  <2> HIDE DEF yes
  <2>2. x \in BrowserType /\ Shown(x) = Shown(d) /\ x.link # "live" /\ x.refill
    BY <1>2, <1>6 DEF BrowserType, Shown
  <2> HIDE DEF x
  <2>3. RefillKept(x)
    BY <2>2 DEF RefillKept
  <2>4. \A c \in Browser \ {b} : bus'.queue[c] = bus.queue[c] /\ bus'.lost[c] = bus.lost[c]
    BY <1>4, <2>1 DEF BusType
  <2>5. QED
    BY <1>2, <1>3, <1>5, <2>1, <2>2, <2>3, <2>4, OneBrowser
<1>9. CASE Open(b)
  <2> DEFINE asked == IF d.refill THEN d.asked + 1 ELSE d.asked
             x == [d EXCEPT !.link = "live", !.refill = no, !.asked = asked,
                            !.opened = yes, !.reopened = d.opened, !.failed = no]
  <2>1. browser' = [browser EXCEPT ![b] = x] /\ UNCHANGED bus /\ d.link = "subscribed"
    BY <1>9 DEF Open, Opened
  <2> HIDE DEF yes, no
  <2>2. d.asked \in Nat /\ d.refill \in BOOLEAN /\ asked \in Nat /\ (d.refill => asked # 0)
    BY <1>2 DEF BrowserType
  <2> HIDE DEF asked
  <2>3. x \in BrowserType /\ Shown(x) = Shown(d) /\ x.link = "live" /\ x.reopened = d.opened
        /\ x.asked = asked
    BY <1>2, <1>6, <2>2 DEF BrowserType, Shown
  <2> HIDE DEF x
  <2>4. RefillKept(x)
    BY <2>3 DEF RefillKept
  <2>5. Refilled(b)'
    <3>1. browser'[b] = x
      BY <1>2, <2>1
    <3>2. ~d.opened \/ asked # 0
      BY <1>2, <2>1, <2>2 DEF RefillKept
    <3>3. QED
      BY <2>3, <3>1, <3>2 DEF Refilled
  <2>6. QED
    BY <1>2, <1>3, <2>1, <2>3, <2>4, <2>5, OneBrowser
<1>10. CASE Deliver(b)
  <2> DEFINE q == bus.queue[b]  h == Head(q)
             x == [d EXCEPT !.view = d.view \cup {h}]
  <2>1. /\ q # << >> /\ d.link = "live"
        /\ browser' = [browser EXCEPT ![b] = x] /\ bus' = [bus EXCEPT !.queue[b] = Tail(q)]
    BY <1>10 DEF Deliver
  <2>2. q \in Seq(Event) /\ Latest(q, bus.fed[b]) /\ bus.fed[b] \in Seq(Event)
    BY DEF BusInv, BusOK, BusType
  <2>3. /\ bus'.queue[b] = Tail(q) /\ bus'.lost = bus.lost
        /\ \A c \in Browser \ {b} : bus'.queue[c] = bus.queue[c]
    BY <1>4, <2>1 DEF BusType
  <2>4. h \in Committed
    <3> DEFINE f == bus.fed[b]  k == Len(f) - Len(q) + 1
    <3>1. Len(q) \in Nat /\ Len(f) \in Nat /\ Len(q) # 0 /\ Len(q) <= Len(f) /\ DOMAIN f = 1..Len(f)
      BY <2>1, <2>2 DEF Latest
    <3> DEFINE m == Len(q)  l == Len(f)
    <3>2. m \in Nat /\ l \in Nat /\ m # 0 /\ m <= l
          /\ 1 \in 1..m /\ l - m + 1 \in 1..l
      <4>1. m \in Nat /\ l \in Nat /\ m # 0 /\ m <= l
        BY <3>1
      <4> HIDE DEF m, l
      <4>2. QED
        BY <4>1
    <3>3. h = q[1] /\ q[1] = f[k]
      <4>1. q[1] = f[l - m + 1]
        BY <2>2, <3>2 DEF Latest
      <4>2. h = q[1]
        <5>1. q # << >> /\ q \in Seq(Event)
          BY <2>1, <2>2
        <5> HIDE DEF q
        <5>2. QED
          BY <5>1
      <4>3. QED
        BY <4>1, <4>2
    <3>4. f[k] \in Committed
      BY <3>1, <3>2 DEF BusInv
    <3>5. QED
      BY <3>3, <3>4
  <2>5. ToSet(q) \subseteq {h} \cup ToSet(Tail(q))
    <3> DEFINE t == Tail(q)
    <3>1. /\ t \in Seq(Event) /\ Len(t) = Len(q) - 1 /\ \A i \in 1..(Len(q) - 1) : t[i] = q[i + 1]
          /\ h = q[1] /\ DOMAIN q = 1..Len(q) /\ Len(q) \in Nat
      BY <2>1, <2>2
    <3>2. DOMAIN t = 1..(Len(q) - 1)
      BY <3>1
    <3> HIDE DEF t, h
    <3>3. ASSUME NEW i \in 1..Len(q), i # 1 PROVE q[i] \in ToSet(t)
      <4>1. i - 1 \in 1..(Len(q) - 1) /\ (i - 1) + 1 = i
        BY <3>1, <3>3
      <4>2. t[i - 1] = q[i]
        BY <3>1, <4>1
      <4>3. QED
        BY <3>2, <4>1, <4>2 DEF ToSet
    <3>4. QED
      BY <3>1, <3>3 DEF ToSet, t
  <2> HIDE DEF h
  <2>6. /\ x \in BrowserType /\ Shown(x) = Shown(d) \cup {h}
        /\ x.link = d.link /\ x.reopened = d.reopened /\ x.failed = d.failed /\ x.asked = d.asked
    <3>1. h \in Event
      BY <2>4 DEF Committed
    <3>2. QED
      BY <1>2, <3>1 DEF BrowserType, Shown
  <2> HIDE DEF x, q
  <2>7. Held(bus, b) \subseteq {h} \cup Held(bus', b)
    BY <2>3, <2>5 DEF Held, Waiting, q
  <2>8. RefillKept(x)
    BY <2>1, <2>6 DEF RefillKept
  <2>9. Refilled(b)'
    <3>1. browser'[b] = x
      BY <1>2, <2>1
    <3>2. QED
      BY <1>2, <1>3, <2>6, <2>7, <3>1 DEF Refilled, Held, Waiting, Shown, Recent
  <2>10. QED
    BY <1>2, <1>3, <2>1, <2>3, <2>4, <2>6, <2>8, <2>9, OneBrowser
<1>11. CASE AnswerRead(b)
  <2> DEFINE x == [d EXCEPT !.asked = d.asked - 1, !.answers = d.answers \cup {Recent(Committed)}]
  <2>1. browser' = [browser EXCEPT ![b] = x] /\ UNCHANGED bus /\ d.asked > 0
    BY <1>11 DEF AnswerRead
  <2>2. Recent(Committed) \subseteq Committed /\ Committed \subseteq Event
    BY DEF Recent, Committed
  <2>3. d.asked - 1 \in Nat
    BY <1>2, <2>1 DEF BrowserType
  <2>4. /\ x \in BrowserType /\ Shown(x) = Shown(d) \cup Recent(Committed)
        /\ x.link = d.link /\ x.opened = d.opened /\ x.refill = d.refill
    <3> DEFINE new == Recent(Committed)
    <3>1. new \in SUBSET Event
      BY <2>2
    <3> HIDE DEF new
    <3>2. /\ x \in BrowserType /\ x.view = d.view /\ x.answers = d.answers \cup {new}
          /\ x.link = d.link /\ x.opened = d.opened /\ x.refill = d.refill
      BY <1>2, <2>3, <3>1 DEF BrowserType, new
    <3> HIDE DEF x
    <3>3. Shown(x) = Shown(d) \cup new
      BY <3>2 DEF Shown
    <3>4. QED
      BY <3>2, <3>3 DEF new
  <2> HIDE DEF x
  <2>5. RefillKept(x)
    BY <1>2, <2>4 DEF RefillKept
  <2>6. Refilled(b)'
    <3>1. browser'[b] = x
      BY <1>2, <2>1
    <3>2. QED
      BY <1>3, <2>4, <3>1 DEF Refilled, Held, Waiting, Shown, Recent
  <2>7. QED
    BY <1>2, <1>3, <2>1, <2>2, <2>4, <2>5, <2>6, OneBrowser
<1>12. CASE AnswerMerge(b)
  <2>1. PICK items \in d.answers :
          browser' = [browser EXCEPT ![b] = [d EXCEPT !.view = d.view \cup items,
                                                      !.answers = d.answers \ {items}]]
    BY <1>12, <1>2 DEF AnswerMerge
  <2> DEFINE x == [d EXCEPT !.view = d.view \cup items, !.answers = d.answers \ {items}]
  <2>2. UNCHANGED bus
    BY <1>12 DEF AnswerMerge
  <2>3. /\ x \in BrowserType /\ x.view = d.view \cup items /\ x.answers = d.answers \ {items}
        /\ x.link = d.link /\ x.opened = d.opened /\ x.refill = d.refill
        /\ x.reopened = d.reopened /\ x.failed = d.failed /\ x.asked = d.asked
    BY <1>2, <2>1 DEF BrowserType
  <2> HIDE DEF x
  <2>4. Shown(x) = Shown(d)
    BY <2>1, <2>3 DEF Shown
  <2>5. RefillKept(x)
    BY <1>2, <2>3 DEF RefillKept
  <2>6. browser' = [browser EXCEPT ![b] = x]
    BY <2>1 DEF x
  <2>7. Refilled(b)'
    <3>1. browser'[b] = x
      BY <1>2, <2>6
    <3>2. QED
      BY <1>2, <1>3, <2>2, <2>3, <2>4, <3>1 DEF Refilled, Held, Waiting, Recent, Shown
  <2>8. QED
    BY <1>2, <1>3, <2>2, <2>3, <2>4, <2>5, <2>6, <2>7, OneBrowser
<1>13. CASE AnswerFail(b)
  <2> DEFINE x == [d EXCEPT !.asked = d.asked - 1, !.failed = yes]
  <2>1. browser' = [browser EXCEPT ![b] = x] /\ UNCHANGED bus /\ d.asked > 0
    BY <1>13 DEF AnswerFail
  <2> HIDE DEF yes
  <2>2. d.asked - 1 \in Nat
    BY <1>2, <2>1 DEF BrowserType
  <2>3. /\ x \in BrowserType /\ Shown(x) = Shown(d) /\ x.failed
        /\ x.link = d.link /\ x.opened = d.opened /\ x.refill = d.refill
    BY <1>2, <1>6, <2>2 DEF BrowserType, Shown
  <2> HIDE DEF x
  <2>4. RefillKept(x)
    BY <1>2, <2>3 DEF RefillKept
  <2>5. Refilled(b)'
    <3>1. browser'[b] = x
      BY <1>2, <2>1
    <3>2. QED
      BY <2>3, <3>1 DEF Refilled
  <2>6. QED
    BY <1>2, <1>3, <2>1, <2>3, <2>4, <2>5, OneBrowser
<1>14. QED
  BY <1>1, <1>7, <1>8, <1>9, <1>10, <1>11, <1>12, <1>13

LEMMA RestartViews ==
  ASSUME RowInv, ViewInv, ApiRestart
  PROVE  ViewInv'
<1>1. Committed' = Committed
  BY DEF ApiRestart, Committed
<1>2. ASSUME NEW b \in Browser
      PROVE  /\ browser'[b] \in BrowserType /\ browser'[b].link = "down" /\ browser'[b].refill
             /\ Shown(browser'[b]) = Shown(browser[b])
  <2> DEFINE d == browser[b]  yes == TRUE  failed == d.failed \/ d.asked > 0
             x == [[d EXCEPT !.link = "down", !.refill = yes] EXCEPT !.asked = 0, !.failed = failed]
  <2>1. browser'[b] = x
    BY DEF ApiRestart, Dropped
  <2>2. d \in BrowserType
    BY DEF ViewInv
  <2>3. yes \in BOOLEAN /\ yes /\ failed \in BOOLEAN
    OBVIOUS
  <2> HIDE DEF yes, failed, d
  <2>4. x \in BrowserType /\ x.link = "down" /\ x.refill /\ Shown(x) = Shown(d)
    BY <2>2, <2>3 DEF BrowserType, Shown
  <2>5. QED
    BY <2>1, <2>4 DEF d
<1>3. browser' \in [Browser -> BrowserType]
  <2>1. \E f : browser' = [b \in Browser |-> f[b]]
    <3>1. browser' = [b \in Browser |-> browser'[b]]
      BY DEF ApiRestart
    <3>2. QED
      BY <3>1
  <2>2. QED
    BY <1>2, <2>1
<1>4. QED
  BY <1>1, <1>2, <1>3 DEF ViewInv, RefillKept, Refilled, Shown

LEMMA NextKeepsViews == RowInv /\ BusInv /\ ViewInv /\ [Next]_vars => ViewInv'
<1> SUFFICES ASSUME RowInv, BusInv, ViewInv, [Next]_vars PROVE ViewInv'
  OBVIOUS
<1>1. CASE WriterNext
  BY <1>1, WriterRows, ViewsUntouched
<1>2. CASE FanOutRead
  BY <1>2, ReadRows, ViewsUntouched
<1>3. CASE UNCHANGED vars
  BY <1>3, OtherRows, ViewsUntouched DEF vars
<1>4. QED
  BY <1>1, <1>2, <1>3, PublishViews, BrowserViews, RestartViews DEF Next

\* Every variable has its type, and the buffers of the bus keep their bounds.
THEOREM LiveTypeOKAlways == Spec => []LiveTypeOK
<1>1. Init => RowInv /\ BusInv /\ ViewInv
  BY InitRows, InitBus, InitViews
<1>2. RowInv /\ BusInv /\ ViewInv /\ [Next]_vars => (RowInv /\ BusInv /\ ViewInv)'
  BY NextKeepsRows, NextKeepsBus, NextKeepsViews
<1>3. ASSUME RowInv, BusInv, ViewInv PROVE LiveTypeOK
  <2>1. /\ clock \in 0..MaxTxns
        /\ poller.mark = None \/ poller.mark \in Nat \X Event
    BY <1>3, LiveEventsAssumption DEF RowInv, Types, Time
  <2>2. bus \in BusType /\ BusOK(bus)
    BY <1>3 DEF BusInv, BusOK
  <2>3. \A b \in Browser : browser[b].view \subseteq Committed
    BY <1>3 DEF ViewInv, Shown
  <2>4. QED
    BY <1>3, <2>1, <2>2, <2>3 DEF LiveTypeOK, RowInv, Types, BusOK, BusType
<1>4. QED
  BY <1>1, <1>2, <1>3, PTL DEF Spec

\* However streams are lost, requests answered late and pages published in
\* between, a dashboard that asked again after its stream was reopened shows
\* every important event that was published, but for what a full queue dropped.
THEOREM GapClosedAlways == Spec => []GapClosed
<1>1. Init => RowInv /\ BusInv /\ ViewInv
  BY InitRows, InitBus, InitViews
<1>2. RowInv /\ BusInv /\ ViewInv /\ [Next]_vars => (RowInv /\ BusInv /\ ViewInv)'
  BY NextKeepsRows, NextKeepsBus, NextKeepsViews
<1>3. ASSUME ViewInv PROVE GapClosed
  <2> SUFFICES ASSUME NEW b \in Browser, browser[b].link = "live", browser[b].reopened,
                      ~browser[b].failed, browser[b].asked = 0, browser[b].answers = {},
                      bus.queue[b] = << >>
               PROVE  Recent(Committed) \cap poller.published \subseteq browser[b].view \cup bus.lost[b]
    BY DEF GapClosed
  <2>1. Recent(Committed) \cap poller.published \subseteq Shown(browser[b]) \cup Held(bus, b)
    BY <1>3 DEF ViewInv, Refilled
  <2>2. Shown(browser[b]) = browser[b].view
    BY DEF Shown
  <2>3. ToSet(bus.queue[b]) = {}
    BY DEF ToSet
  <2>4. QED
    BY <2>1, <2>2, <2>3 DEF Held, Waiting
<1>4. QED
  BY <1>1, <1>2, <1>3, PTL DEF Spec
=============================================================================
