------------------------------ MODULE WorkerProofs ------------------------------
(***************************************************************************)
(* Proofs about Worker: what the poll loop and the listener lose, and what *)
(* they store twice, whatever fails and however often the process ends.    *)
(***************************************************************************)
EXTENDS Worker, SequenceTheorems, TLAPS

(***************************************************************************)
(* The inductive invariant of the poll loop.  `since` separates what has   *)
(* been dealt with from what will be asked for: no query behind it is in a *)
(* page, and one in front of it has been stored by this process only if it *)
(* is in `again`.  A clock that is ahead takes times into the gap that no  *)
(* query has yet, so what is lost is known for times to come as well.      *)
(***************************************************************************)
PollTypes ==
  /\ log \in Seq(Payloads) /\ Len(log) <= MaxQueries
  /\ since = Missing \/ since \in Int
  /\ poll \in [stage : {"due", "fetched", "asleep", "down"},
               page : SUBSET DOMAIN log, seen : 0..Len(log), over : SUBSET DOMAIN log]
  /\ rows \subseteq DOMAIN log /\ cut \subseteq DOMAIN log /\ again \subseteq DOMAIN log
  /\ gap \subseteq 1..MaxQueries
  /\ running \in BOOLEAN /\ (poll.stage = "down" <=> ~running)
  /\ restarts \in Nat

PageComplete ==
  /\ \A n \in poll.page : Asked(n)
  /\ poll.stage = "fetched" =>
       \A n \in 1..poll.seen : Asked(n) => n \in poll.page \cup poll.over

StoredBefore ==
  \A n \in rows :
    \/ n \in again
    \/ since = Missing /\ restarts > 0
    \/ since # Missing /\ n <= since

GoneOnlyInGap == \A n \in 1..MaxQueries : ~Asked(n) => n \in rows \cup gap \cup cut

PollInv == PollTypes /\ PageComplete /\ StoredBefore /\ GoneOnlyInGap

-----------------------------------------------------------------------------
LEMMA LoopType ==
  ASSUME NEW stage \in {"due", "fetched", "asleep", "down"}, NEW S, NEW length \in Nat
  PROVE  /\ Loop(stage) \in [stage : {"due", "fetched", "asleep", "down"},
                             page : SUBSET S, seen : 0..length, over : SUBSET S]
         /\ Loop(stage).stage = stage /\ Loop(stage).page = {}
BY DEF Loop

LEMMA LogDomain ==
  ASSUME PollTypes
  PROVE  /\ Len(log) \in Nat /\ DOMAIN log = 1..Len(log)
         /\ DOMAIN log \subseteq 1..MaxQueries /\ MaxQueries \in Nat
BY LenProperties, PiholeAssumption DEF PollTypes

LEMMA InitPollInv == Init => PollInv
<1> SUFFICES ASSUME Init PROVE PollInv
  OBVIOUS
<1>1. log = << >> /\ since = Missing /\ poll = Loop("due") /\ gap = {} /\ cut = {}
      /\ rows = {} /\ again = {} /\ running = TRUE /\ restarts = 0
  BY DEF Init, PollInit
<1>2. log \in Seq(Payloads) /\ Len(log) = 0 /\ DOMAIN log = {}
  BY <1>1
<1>3. /\ poll \in [stage : {"due", "fetched", "asleep", "down"},
                   page : SUBSET DOMAIN log, seen : 0..Len(log), over : SUBSET DOMAIN log]
      /\ poll.stage = "due" /\ poll.page = {}
  BY <1>1, <1>2 DEF Loop
<1>4. PollTypes
  BY <1>1, <1>2, <1>3, PiholeAssumption DEF PollTypes
<1>5. PageComplete
  BY <1>3 DEF PageComplete
<1>6. StoredBefore /\ GoneOnlyInGap
  BY <1>1 DEF StoredBefore, GoneOnlyInGap, Asked
<1>7. QED
  BY <1>4, <1>5, <1>6 DEF PollInv

LEMMA QueryKeeps ==
  ASSUME PollInv, NEW payload \in Payloads, Query(payload), UNCHANGED <<running, restarts>>
  PROVE  PollInv'
<1> DEFINE n == Len(log) + 1
<1>1. Len(log) \in Nat /\ DOMAIN log = 1..Len(log) /\ MaxQueries \in Nat
  BY LogDomain DEF PollInv
<1>2. log' \in Seq(Payloads) /\ Len(log') = n /\ DOMAIN log' = 1..n
  <2>1. log' = Append(log, payload)
    BY DEF Query
  <2>2. log' \in Seq(Payloads) /\ Len(log') = n
    BY <2>1, AppendProperties DEF PollInv, PollTypes
  <2>3. QED
    BY <2>2, LenProperties
<1>3. n <= MaxQueries /\ UNCHANGED <<since, poll, rows, gap, cut, again>>
  BY <1>1 DEF Query
<1>4. 1..Len(log) \subseteq 1..n /\ 0..Len(log) \subseteq 0..n
  BY <1>1
<1>5. PollTypes'
  <2>1. poll' \in [stage : {"due", "fetched", "asleep", "down"},
                   page : SUBSET 1..n, seen : 0..n, over : SUBSET 1..n]
    BY <1>1, <1>3, <1>4 DEF PollInv, PollTypes
  <2>2. QED
    BY <1>1, <1>2, <1>3, <1>4, <2>1 DEF PollInv, PollTypes
<1>6. PageComplete' /\ StoredBefore' /\ GoneOnlyInGap'
  BY <1>3 DEF PollInv, PageComplete, StoredBefore, GoneOnlyInGap, Asked
<1>7. QED
  BY <1>5, <1>6 DEF PollInv

LEMMA FetchKeeps ==
  ASSUME PollInv, Fetch, UNCHANGED <<running, restarts>>
  PROVE  PollInv'
<1> DEFINE asked == {n \in DOMAIN log : Asked(n)}
<1>1. /\ poll' = [stage |-> "fetched", page |-> Page(asked), seen |-> Len(log),
                  over |-> asked \ Page(asked)]
      /\ UNCHANGED <<log, since, rows, gap, cut, again>> /\ poll.stage = "due"
  BY DEF Fetch
<1>2. Page(asked) \subseteq asked /\ asked \subseteq DOMAIN log
  BY DEF Page
<1>3. Len(log) \in Nat /\ DOMAIN log = 1..Len(log)
  BY LogDomain DEF PollInv
<1> HIDE DEF asked
<1>4. PollTypes'
  BY <1>1, <1>2, <1>3 DEF PollInv, PollTypes
<1>5. PageComplete'
  BY <1>1, <1>2, <1>3 DEF PageComplete, Asked, asked
<1>6. StoredBefore' /\ GoneOnlyInGap'
  BY <1>1 DEF PollInv, StoredBefore, GoneOnlyInGap, Asked
<1>7. QED
  BY <1>4, <1>5, <1>6 DEF PollInv

\* What a batch stores is its whole page.
LEMMA StorePageEffect ==
  ASSUME PollInv, StorePage
  PROVE  rows' = rows \cup poll.page /\ poll' = Loop("asleep") /\ poll.stage = "fetched"
BY DEF StorePage, Storable

LEMMA PersistKeeps ==
  ASSUME PollInv, Persist, UNCHANGED <<running, restarts>>
  PROVE  PollInv'
<1>1. Len(log) \in Nat /\ DOMAIN log = 1..Len(log) /\ DOMAIN log \subseteq 1..MaxQueries
      /\ MaxQueries \in Nat /\ Missing \notin Int /\ Skew \subseteq Int
  BY LogDomain, PiholeAssumption DEF PollInv
<1>2. PICK skew \in Skew :
        /\ since' = Len(log) + skew
        /\ gap' = gap \cup {n \in 1..MaxQueries : poll.seen < n /\ n <= Len(log) + skew}
        /\ again' = {n \in rows' : n > Len(log) + skew}
  BY DEF Persist, NextSince
<1>3. /\ rows' = rows \cup poll.page /\ poll' = Loop("asleep") /\ poll.stage = "fetched"
      /\ cut' = cut \cup poll.over /\ UNCHANGED log
  BY StorePageEffect DEF Persist
<1>4. since' \in Int /\ since' # Missing
  BY <1>1, <1>2
<1>5. PollTypes'
  <2>1. rows' \subseteq DOMAIN log /\ cut' \subseteq DOMAIN log
        /\ again' \subseteq DOMAIN log /\ gap' \subseteq 1..MaxQueries
    BY <1>2, <1>3 DEF PollInv, PollTypes
  <2>2. QED
    BY <1>1, <1>3, <1>4, <2>1, LoopType DEF PollInv, PollTypes
<1>6. PageComplete'
  BY <1>1, <1>3, LoopType DEF PageComplete
<1>7. StoredBefore'
  <2>1. rows' \subseteq 1..MaxQueries
    BY <1>1, <1>3 DEF PollInv, PollTypes
  <2>2. QED
    BY <1>1, <1>2, <1>4, <2>1 DEF StoredBefore
<1>8. GoneOnlyInGap'
  <2> SUFFICES ASSUME NEW n \in 1..MaxQueries, n <= since'
               PROVE  n \in rows' \cup gap' \cup cut'
    BY <1>1, <1>4 DEF GoneOnlyInGap, Asked
  <2>1. poll.seen \in 0..Len(log)
    BY DEF PollInv, PollTypes
  <2>2. CASE poll.seen < n
    BY <1>2, <2>2
  <2>3. CASE ~(poll.seen < n) /\ Asked(n)
    <3>1. n \in 1..poll.seen
      BY <1>1, <2>1, <2>3
    <3>2. QED
      BY <1>3, <2>3, <3>1 DEF PollInv, PageComplete
  <2>4. CASE ~Asked(n)
    BY <1>2, <1>3, <2>4 DEF PollInv, GoneOnlyInGap
  <2>5. QED
    BY <2>2, <2>3, <2>4
<1>9. QED
  BY <1>5, <1>6, <1>7, <1>8 DEF PollInv

LEMMA PersistUnheardKeeps ==
  ASSUME PollInv, PersistUnheard, running, UNCHANGED <<running, restarts>>
  PROVE  PollInv'
<1>1. /\ rows' = rows \cup poll.page /\ poll' = Loop("asleep") /\ again' = again \cup poll.page
      /\ UNCHANGED <<log, since, gap, cut>>
  BY StorePageEffect DEF PersistUnheard
<1>2. Len(log) \in Nat
  BY LogDomain DEF PollInv
<1>3. poll' \in [stage : {"due", "fetched", "asleep", "down"},
                 page : SUBSET DOMAIN log, seen : 0..Len(log), over : SUBSET DOMAIN log]
      /\ poll'.stage = "asleep" /\ poll'.page = {}
  BY <1>1, <1>2, LoopType
<1>4. PollTypes'
  BY <1>1, <1>3 DEF PollInv, PollTypes
<1>5. PageComplete' /\ StoredBefore' /\ GoneOnlyInGap'
  BY <1>1, <1>3 DEF PollInv, PageComplete, StoredBefore, GoneOnlyInGap, Asked
<1>6. QED
  BY <1>4, <1>5 DEF PollInv

\* Everything that fails leaves `since` and the rows as they are.
LEMMA LoopKeeps ==
  ASSUME PollInv, NEW stage \in {"due", "asleep"}, poll' = Loop(stage), running' = TRUE, restarts' = restarts,
         UNCHANGED <<log, since, rows, gap, cut, again>>
  PROVE  PollInv'
<1>1. Len(log) \in Nat
  BY LogDomain DEF PollInv
<1>2. /\ poll' \in [stage : {"due", "fetched", "asleep", "down"},
                    page : SUBSET DOMAIN log, seen : 0..Len(log), over : SUBSET DOMAIN log]
      /\ poll'.stage \in {"due", "asleep"} /\ poll'.page = {}
  BY <1>1, LoopType
<1>3. PollTypes'
  <2>1. running' \in BOOLEAN /\ (poll'.stage = "down" <=> ~running')
    BY <1>2
  <2>2. QED
    BY <1>2, <2>1 DEF PollInv, PollTypes
<1>4. PageComplete'
  BY <1>2 DEF PageComplete
<1>5. StoredBefore' /\ GoneOnlyInGap'
  BY DEF PollInv, StoredBefore, GoneOnlyInGap, Asked
<1>6. QED
  BY <1>3, <1>4, <1>5 DEF PollInv

LEMMA PollLostKeeps ==
  ASSUME PollInv, PollLost, running' = FALSE, restarts' = restarts + 1
  PROVE  PollInv'
<1>1. Len(log) \in Nat
  BY LogDomain DEF PollInv
<1>2. /\ poll' \in [stage : {"due", "fetched", "asleep", "down"},
                    page : SUBSET DOMAIN log, seen : 0..Len(log), over : SUBSET DOMAIN log]
      /\ poll'.stage = "down" /\ poll'.page = {}
  BY <1>1, LoopType DEF PollLost
<1>3. since' = Missing /\ again' = {} /\ UNCHANGED <<log, rows, gap, cut>>
  BY DEF PollLost
<1>4. restarts' \in Nat /\ restarts' > 0
  BY DEF PollInv, PollTypes
<1>5. PollTypes'
  <2>1. running' \in BOOLEAN /\ (poll'.stage = "down" <=> ~running')
    BY <1>2
  <2>2. QED
    BY <1>2, <1>3, <1>4, <2>1 DEF PollInv, PollTypes
<1>6. PageComplete'
  BY <1>2 DEF PageComplete
<1>7. StoredBefore' /\ GoneOnlyInGap'
  BY <1>3, <1>4 DEF StoredBefore, GoneOnlyInGap, Asked
<1>8. QED
  BY <1>5, <1>6, <1>7 DEF PollInv

LEMMA NextKeepsPollInv == PollInv /\ [Next]_vars => PollInv'
<1> SUFFICES ASSUME PollInv, [Next]_vars PROVE PollInv'
  OBVIOUS
<1>1. ASSUME UNCHANGED <<piholeVars, running, restarts>>
      PROVE  PollInv'
  BY <1>1 DEF piholeVars, PollInv, PollTypes, PageComplete, StoredBefore, GoneOnlyInGap, Asked
<1>2. CASE Queried
  BY <1>2, QueryKeeps DEF Queried, workerVars
<1>3. CASE Received
  BY <1>1, <1>3 DEF Received, workerVars
<1>4. CASE Polled
  BY <1>4, FetchKeeps, PersistKeeps, LoopKeeps DEF Polled, PollStep, PersistFails, workerVars
<1>5. CASE Slept
  BY <1>5, LoopKeeps DEF Slept, PollAgain, workerVars
<1>6. CASE (\E c \in Client : ReadLine(c)) \/ Consume
  BY <1>1, <1>6 DEF ReadLine, Consume, workerVars
<1>7. CASE Fault
  <2>1. running' = running /\ restarts' = restarts /\ running
    BY <1>7 DEF Fault
  <2>2. CASE FetchFails \/ PersistAborts
    BY <2>1, <2>2, LoopKeeps DEF FetchFails, PersistAborts
  <2>3. CASE PersistUnheard
    BY <2>1, <2>3, PersistUnheardKeeps
  <2>4. CASE UNCHANGED piholeVars
    BY <1>1, <2>1, <2>4
  <2>5. QED
    BY <1>7, <2>2, <2>3, <2>4 DEF Fault
<1>8. CASE End
  BY <1>8, PollLostKeeps DEF End
<1>9. CASE Start
  BY <1>9, LoopKeeps DEF Start, PollStart
<1>10. CASE UNCHANGED vars
  BY <1>1, <1>10 DEF vars, workerVars
<1>11. QED
  BY <1>2, <1>3, <1>4, <1>5, <1>6, <1>7, <1>8, <1>9, <1>10 DEF Next

\* Failed requests, failed batches, unanswered commits, unreadable payloads,
\* restarts and a clock that is set back lose no query that pihole_poll_loop has
\* not lost to a full page or to the time between a fetch and its started_at,
\* however far the worker's clock is from Pi-hole's.
THEOREM LostOnlyInGapAlways == Spec => []LostOnlyInGap
<1>1. PollInv => LostOnlyInGap
  BY LogDomain DEF PollInv, GoneOnlyInGap, LostOnlyInGap
<1>2. QED
  BY <1>1, InitPollInv, NextKeepsPollInv, PTL DEF Spec

\* A query is stored again only after a restart, after a poll by a clock that
\* was behind, or after a commit that was not answered.
THEOREM RepeatOnlyIfForgottenAlways == Spec => []RepeatOnlyIfForgotten
<1>1. PollInv => RepeatOnlyIfForgotten
  <2> SUFFICES ASSUME PollInv, NEW n \in poll.page \cap rows
               PROVE  (since = Missing /\ restarts > 0) \/ n \in again
    BY DEF RepeatOnlyIfForgotten
  <2>1. n \in Int /\ (since # Missing => since \in Int)
    BY LogDomain DEF PollInv, PollTypes
  <2>2. since # Missing => ~(n <= since)
    BY <2>1 DEF PollInv, PageComplete, Asked
  <2>3. QED
    BY <2>2 DEF PollInv, StoredBefore
<1>2. QED
  BY <1>1, InitPollInv, NextKeepsPollInv, PTL DEF Spec

-----------------------------------------------------------------------------
(***************************************************************************)
(* The inductive invariant of the listener: the queue holds the last lines *)
(* that were taken, without a hole, and the consumer has the one before.   *)
(***************************************************************************)
LineTypes ==
  /\ taken \in Seq(Line) /\ queue \in Seq(Nat) /\ stored \in Seq(Nat)
  /\ pending \in [Client -> Seq(Line)]
  /\ hand \in Nat /\ Len(queue) <= QueueSize
  /\ Range(stored) \subseteq 1..Len(taken) /\ spoiled \subseteq 1..Len(taken)

\* The place behind which nothing is stored any more.
Handled == Len(taken) - Len(queue) - (IF hand = 0 THEN 0 ELSE 1)

Contiguous ==
  /\ Handled \in Nat
  /\ hand # 0 => hand = Handled + 1
  /\ \A i \in 1..Len(queue) : queue[i] = Len(taken) - Len(queue) + i

LineInv == LineTypes /\ Contiguous

LEMMA InitLineInv == Init => LineInv
<1> SUFFICES ASSUME Init PROVE LineInv
  OBVIOUS
<1>1. taken = << >> /\ queue = << >> /\ stored = << >> /\ hand = 0 /\ spoiled = {}
      /\ pending = [c \in Client |-> << >>]
  BY DEF Init, ListenerInit
<1>2. Range(stored) = {}
  BY <1>1 DEF Range
<1>3. LineTypes
  BY <1>1, <1>2, SyslogAssumption DEF LineTypes
<1>4. Contiguous
  BY <1>1 DEF Contiguous, Handled
<1>5. QED
  BY <1>3, <1>4 DEF LineInv

\* Lines enter the queue and what was taken together.
LEMMA TakeKeeps ==
  ASSUME LineInv, NEW lines \in Seq(Line), NEW k \in 0..Len(lines), Len(queue) + k <= QueueSize,
         taken' = taken \o SubSeq(lines, 1, k),
         queue' = queue \o SubSeq([i \in 1..Len(lines) |-> Len(taken) + i], 1, k),
         pending' \in [Client -> Seq(Line)], UNCHANGED <<hand, stored, spoiled>>
  PROVE  /\ LineInv'
         /\ Len(taken') = Len(taken) + k /\ SubSeq(taken', 1, Len(taken)) = taken
         /\ Handled' = Handled
<1> DEFINE places == [i \in 1..Len(lines) |-> Len(taken) + i]
           more == SubSeq(lines, 1, k)
           new == SubSeq(places, 1, k)
<1>1. Len(lines) \in Nat /\ Len(taken) \in Nat /\ Len(queue) \in Nat /\ k \in Nat
  BY DEF LineInv, LineTypes
<1>2. \A i \in 1..k : lines[i] \in Line /\ places[i] \in Nat /\ places[i] = Len(taken) + i
  BY <1>1
<1>3. more \in Seq(Line) /\ Len(more) = k
  <2>1. Len(more) = IF 1 <= k THEN k - 1 + 1 ELSE 0
    BY <1>1, <1>2, SubSeqProperties
  <2>2. QED
    BY <1>1, <1>2, <2>1, SubSeqProperties
<1>4. new \in Seq(Nat) /\ Len(new) = k /\ \A i \in 1..k : new[i] = Len(taken) + i
  <2> HIDE DEF places
  <2>1. /\ new \in Seq(Nat) /\ Len(new) = IF 1 <= k THEN k - 1 + 1 ELSE 0
        /\ \A i \in 1..(k - 1 + 1) : new[i] = places[1 + i - 1]
    BY <1>1, <1>2, SubSeqProperties
  <2>2. QED
    BY <1>1, <1>2, <2>1
<1> HIDE DEF places, more, new
<1>5. taken' = taken \o more /\ queue' = queue \o new
  BY DEF places, more, new
<1>6. taken' \in Seq(Line) /\ Len(taken') = Len(taken) + k
  BY <1>3, <1>5, ConcatProperties DEF LineInv, LineTypes
<1>7. /\ queue' \in Seq(Nat) /\ Len(queue') = Len(queue) + k
      /\ \A i \in 1..Len(queue) + k :
           queue'[i] = IF i <= Len(queue) THEN queue[i] ELSE new[i - Len(queue)]
  BY <1>4, <1>5, ConcatProperties DEF LineInv, LineTypes
<1>8. SubSeq(taken', 1, Len(taken)) = taken
  <2>1. \A i \in 1..Len(taken) : taken'[i] = taken[i] /\ taken[i] \in Line
    BY <1>3, <1>5, ConcatProperties DEF LineInv, LineTypes
  <2>2. /\ SubSeq(taken', 1, Len(taken)) \in Seq(Line)
        /\ Len(SubSeq(taken', 1, Len(taken))) = Len(taken)
        /\ \A i \in 1..Len(taken) : SubSeq(taken', 1, Len(taken))[i] = taken[i]
    BY <1>1, <2>1, SubSeqProperties
  <2>3. QED
    BY <2>2, SeqEqual DEF LineInv, LineTypes
<1>9. LineTypes'
  BY <1>1, <1>6, <1>7 DEF LineInv, LineTypes
<1>10. Handled' = Handled
  BY <1>1, <1>6, <1>7 DEF Handled
<1>11. Contiguous'
  <2> SUFFICES ASSUME NEW i \in 1..Len(queue')
               PROVE  queue'[i] = Len(taken') - Len(queue') + i
    BY <1>10 DEF LineInv, Contiguous
  <2>1. CASE i <= Len(queue)
    BY <1>1, <1>6, <1>7, <2>1 DEF LineInv, Contiguous
  <2>2. CASE i > Len(queue)
    BY <1>1, <1>4, <1>6, <1>7, <2>2
  <2>3. QED
    BY <1>1, <2>1, <2>2
<1>12. QED
  BY <1>6, <1>8, <1>9, <1>10, <1>11 DEF LineInv

LEMMA DatagramTakes ==
  ASSUME LineInv, NEW lines \in Seq(Line), Datagram(lines), spoiled' = spoiled
  PROVE  /\ LineInv' /\ Handled' = Handled /\ UNCHANGED stored
         /\ SubSeq(taken', 1, Len(taken)) = taken
         /\ Len(taken') > Len(taken) \/ taken' = taken
<1> DEFINE places == [i \in 1..Len(lines) |-> Len(taken) + i]
           k == IF Len(lines) <= QueueSize - Len(queue) THEN Len(lines) ELSE QueueSize - Len(queue)
<1>1. /\ Len(lines) \in Nat /\ Len(queue) \in Nat /\ QueueSize \in Nat /\ Len(taken) \in Nat
      /\ Len(queue) <= QueueSize /\ DOMAIN lines = 1..Len(lines)
  BY LenProperties, SyslogAssumption DEF LineInv, LineTypes
<1>2. places \in Seq(Nat) /\ Len(places) = Len(lines)
  BY <1>1
<1>3. k \in 0..Len(lines) /\ Len(queue) + k <= QueueSize
  BY <1>1
<1>4. Put(queue, places) = queue \o SubSeq(places, 1, k)
  BY <1>2 DEF Put
<1>5. Len(Put(queue, places)) - Len(queue) = k
  <2>1. SubSeq(places, 1, k) \in Seq(Nat) /\ Len(SubSeq(places, 1, k)) = k
    <3> HIDE DEF k
    <3>1. \A i \in 1..k : places[i] \in Nat
      BY <1>1, <1>3
    <3> HIDE DEF places
    <3>2. SubSeq(places, 1, k) \in Seq(Nat)
          /\ Len(SubSeq(places, 1, k)) = IF 1 <= k THEN k - 1 + 1 ELSE 0
      BY <1>3, <3>1, SubSeqProperties
    <3>3. QED
      BY <1>3, <3>2
  <2> HIDE DEF k, places
  <2>2. Len(queue \o SubSeq(places, 1, k)) = Len(queue) + k
    BY <2>1, ConcatProperties DEF LineInv, LineTypes
  <2>3. QED
    BY <1>1, <1>3, <1>4, <2>2
<1>6. /\ queue' = queue \o SubSeq(places, 1, k) /\ taken' = taken \o SubSeq(lines, 1, k)
      /\ UNCHANGED <<hand, stored, pending>>
  BY <1>1, <1>4, <1>5 DEF Datagram
<1>7. pending' \in [Client -> Seq(Line)]
  BY <1>6 DEF LineInv, LineTypes
<1> HIDE DEF k
<1>8. /\ LineInv' /\ Handled' = Handled /\ Len(taken') = Len(taken) + k
      /\ SubSeq(taken', 1, Len(taken)) = taken
  BY <1>3, <1>6, <1>7, TakeKeeps
<1>9. k = 0 => taken' = taken
  <2> SUFFICES ASSUME k = 0 PROVE taken' = taken
    OBVIOUS
  <2>1. SubSeq(lines, 1, k) = << >>
    BY SubSeqEmpty
  <2>2. QED
    BY <1>6, <2>1, ConcatEmptySeq DEF LineInv, LineTypes
<1>10. k # 0 => Len(taken') > Len(taken)
  BY <1>1, <1>3, <1>8
<1>11. QED
  BY <1>6, <1>8, <1>9, <1>10

\* A connection that is closed loses lines that were never taken.
LEMMA ReadFailsKeeps ==
  ASSUME LineInv, NEW c \in Client, ReadFails(c), spoiled' = spoiled
  PROVE  LineInv' /\ Handled' = Handled /\ UNCHANGED <<taken, stored>>
<1>1. pending' = [pending EXCEPT ![c] = << >>] /\ UNCHANGED <<taken, queue, hand, stored, spoiled>>
  BY DEF ReadFails
<1>2. pending' \in [Client -> Seq(Line)]
  BY <1>1 DEF LineInv, LineTypes
<1>3. QED
  BY <1>1, <1>2 DEF LineInv, LineTypes, Contiguous, Handled

LEMMA ReadTakes ==
  ASSUME LineInv, NEW c \in Client, Read(c), spoiled' = spoiled
  PROVE  /\ LineInv' /\ Handled' = Handled /\ UNCHANGED stored
         /\ SubSeq(taken', 1, Len(taken)) = taken
         /\ Len(taken') > Len(taken) \/ taken' = taken
<1> DEFINE line == Head(pending[c])
<1>1. /\ Len(taken) \in Nat /\ Len(queue) \in Nat /\ QueueSize \in Nat
      /\ taken \in Seq(Line) /\ queue \in Seq(Nat) /\ pending[c] \in Seq(Line) /\ pending[c] # << >>
  BY SyslogAssumption DEF LineInv, LineTypes, Read
<1>2. line \in Line /\ Tail(pending[c]) \in Seq(Line)
  BY <1>1, HeadTailProperties
<1>3. pending' \in [Client -> Seq(Line)]
  BY <1>2 DEF LineInv, LineTypes, Read
<1>4. SubSeq(taken, 1, Len(taken)) = taken
  BY <1>1, SubSeqFull
<1>5. CASE line = Blank
  <2>1. UNCHANGED <<taken, queue, hand, stored, spoiled>>
    BY <1>5 DEF Read
  <2>2. QED
    BY <1>3, <1>4, <2>1 DEF LineInv, LineTypes, Contiguous, Handled
<1>6. CASE line # Blank
  <2>1. /\ taken' = Append(taken, line) /\ queue' = Append(queue, Len(taken) + 1)
        /\ Len(queue) < QueueSize /\ UNCHANGED <<hand, stored, spoiled>>
    BY <1>6 DEF Read
  <2> HIDE DEF line
  <2>2. /\ taken' \in Seq(Line) /\ Len(taken') = Len(taken) + 1
        /\ \A i \in 1..Len(taken) : taken'[i] = taken[i]
    BY <1>1, <1>2, <2>1, AppendProperties
  <2>3. Len(taken) + 1 \in Nat
    BY <1>1
  <2>4. /\ queue' \in Seq(Nat) /\ Len(queue') = Len(queue) + 1
        /\ \A i \in 1..Len(queue) : queue'[i] = queue[i]
        /\ queue'[Len(queue) + 1] = Len(taken) + 1
    BY <1>1, <2>1, <2>3, AppendProperties
  <2>5. SubSeq(taken', 1, Len(taken)) = taken
    <3>1. \A i \in 1..Len(taken) : taken'[i] \in Line
      BY <1>1, <2>2
    <3>2. /\ SubSeq(taken', 1, Len(taken)) \in Seq(Line)
          /\ Len(SubSeq(taken', 1, Len(taken))) = Len(taken)
          /\ \A i \in 1..Len(taken) : SubSeq(taken', 1, Len(taken))[i] = taken[i]
      BY <1>1, <2>2, <3>1, SubSeqProperties
    <3>3. QED
      BY <1>1, <3>2, SeqEqual
  <2>6. Handled' = Handled
    BY <1>1, <2>1, <2>2, <2>4 DEF Handled
  <2>7. LineTypes'
    BY <1>1, <1>3, <2>1, <2>2, <2>4 DEF LineInv, LineTypes
  <2>8. Contiguous'
    <3>1. ASSUME NEW i \in 1..Len(queue')
          PROVE  queue'[i] = Len(taken') - Len(queue') + i
      <4>1. CASE i = Len(queue) + 1
        BY <1>1, <2>2, <2>4, <4>1
      <4>2. CASE i \in 1..Len(queue)
        <5>1. queue[i] = Len(taken) - Len(queue) + i
          BY <4>2 DEF LineInv, Contiguous
        <5>2. QED
          BY <1>1, <2>2, <2>4, <4>2, <5>1
      <4>3. QED
        BY <1>1, <2>4, <4>1, <4>2
    <3>2. QED
      BY <2>1, <2>6, <3>1 DEF LineInv, Contiguous
  <2>9. QED
    BY <1>1, <2>2, <2>5, <2>6, <2>7, <2>8 DEF LineInv, Read
<1>7. QED
  BY <1>5, <1>6

LEMMA GetKeeps ==
  ASSUME LineInv, Get, spoiled' = spoiled
  PROVE  LineInv' /\ Handled' = Handled /\ UNCHANGED <<taken, stored>>
<1>1. /\ hand = 0 /\ queue # << >> /\ hand' = Head(queue) /\ queue' = Tail(queue)
      /\ UNCHANGED <<taken, stored, pending>>
  BY DEF Get
<1>2. /\ queue' \in Seq(Nat) /\ Len(queue') = Len(queue) - 1 /\ Len(queue) \in Nat \ {0}
      /\ \A i \in 1..Len(queue') : queue'[i] = queue[i + 1]
      /\ Head(queue) = queue[1]
  BY <1>1, HeadTailProperties, EmptySeq DEF LineInv, LineTypes
<1>3. Len(taken) \in Nat /\ QueueSize \in Nat
  BY SyslogAssumption DEF LineInv, LineTypes
<1>4. Handled = Len(taken) - Len(queue) /\ Handled \in Nat
  BY <1>1, <1>2, <1>3 DEF LineInv, Contiguous, Handled
<1>5. hand' = Len(taken) - Len(queue) + 1 /\ hand' # 0 /\ hand' \in Nat
  BY <1>1, <1>2, <1>3, <1>4 DEF LineInv, Contiguous
<1>6. Handled' = Handled
  BY <1>1, <1>2, <1>3, <1>4, <1>5 DEF Handled
<1>7. LineTypes'
  BY <1>1, <1>2, <1>3, <1>5 DEF LineInv, LineTypes
<1>8. ASSUME NEW i \in 1..Len(queue')
      PROVE  queue'[i] = Len(taken') - Len(queue') + i
  <2>1. i + 1 \in 1..Len(queue)
    BY <1>2
  <2>2. queue[i + 1] = Len(taken) - Len(queue) + (i + 1)
    BY <2>1 DEF LineInv, Contiguous
  <2>3. QED
    BY <1>1, <1>2, <1>3, <2>2
<1>9. Contiguous'
  BY <1>4, <1>5, <1>6, <1>8 DEF Contiguous
<1>10. QED
  BY <1>1, <1>6, <1>7, <1>9 DEF LineInv

\* The line in hand is stored, or it is not: it has been dealt with.
LEMMA HandKeeps ==
  ASSUME LineInv, hand # 0, hand' = 0, stored' \in {stored, Append(stored, hand)},
         spoiled' \in {spoiled, spoiled \cup {hand}}, UNCHANGED <<taken, queue, pending>>
  PROVE  LineInv' /\ hand = Handled + 1 /\ Handled' = hand /\ hand \in (Handled + 1)..Len(taken)
<1>1. Len(taken) \in Nat /\ Len(queue) \in Nat /\ hand \in Nat
  BY DEF LineInv, LineTypes
<1>2. /\ Handled = Len(taken) - Len(queue) - 1 /\ Handled \in Nat
      /\ hand = Handled + 1 /\ Handled' = hand
  BY <1>1 DEF LineInv, Contiguous, Handled
<1>3. hand \in 1..Len(taken)
  BY <1>1, <1>2
<1>4. stored' \in Seq(Nat) /\ Range(stored') \subseteq 1..Len(taken)
  <2>1. CASE stored' = stored
    BY <2>1 DEF LineInv, LineTypes
  <2>2. CASE stored' = Append(stored, hand)
    <3>1. stored \in Seq(Nat) /\ Len(stored) \in Nat
      BY DEF LineInv, LineTypes
    <3>2. /\ stored' \in Seq(Nat) /\ Len(stored') = Len(stored) + 1
          /\ \A i \in 1..Len(stored) : stored'[i] = stored[i]
          /\ stored'[Len(stored) + 1] = hand
      BY <1>1, <2>2, <3>1, AppendProperties
    <3>3. ASSUME NEW i \in 1..Len(stored') PROVE stored'[i] \in 1..Len(taken)
      <4>1. CASE i \in 1..Len(stored)
        <5>1. stored[i] \in Range(stored)
          BY <3>1, <4>1, RangeEquality
        <5>2. QED
          BY <3>2, <4>1, <5>1 DEF LineInv, LineTypes
      <4>2. CASE i = Len(stored) + 1
        BY <1>3, <3>2, <4>2
      <4>3. QED
        BY <3>1, <3>2, <4>1, <4>2
    <3>4. QED
      BY <3>2, <3>3, RangeEquality
  <2>3. QED
    BY <2>1, <2>2
<1>5. LineTypes'
  BY <1>1, <1>3, <1>4 DEF LineInv, LineTypes
<1>6. Contiguous'
  BY <1>1, <1>2 DEF LineInv, Contiguous
<1>7. QED
  BY <1>1, <1>2, <1>3, <1>5, <1>6 DEF LineInv

\* The listener ends: nothing that was taken is stored any more.
LEMMA ListenerLostKeeps ==
  ASSUME LineInv, ListenerLost, spoiled' = spoiled \cup Range(queue) \cup ({hand} \ {0})
  PROVE  /\ LineInv' /\ UNCHANGED <<taken, stored>>
         /\ Handled' = Len(taken) /\ (Handled' = Handled \/ Handled' \in (Handled + 1)..Len(taken))
<1>1. Len(taken) \in Nat /\ Len(queue) \in Nat /\ hand \in Nat /\ QueueSize \in Nat
  BY SyslogAssumption DEF LineInv, LineTypes
<1>2. /\ queue' = << >> /\ hand' = 0 /\ pending' = [c \in Client |-> << >>]
      /\ UNCHANGED <<taken, stored>>
  BY DEF ListenerLost
<1>3. queue' \in Seq(Nat) /\ Len(queue') = 0
  BY <1>2
<1>4. Handled' = Len(taken) /\ Handled \in Nat /\ Handled <= Len(taken)
  BY <1>1, <1>2, <1>3 DEF LineInv, Contiguous, Handled
<1>5. Range(queue) \subseteq 1..Len(taken)
  <2>1. ASSUME NEW i \in 1..Len(queue) PROVE queue[i] \in 1..Len(taken)
    BY <1>1 DEF LineInv, Contiguous, Handled
  <2>2. QED
    BY <2>1, RangeEquality DEF LineInv, LineTypes
<1>6. hand # 0 => hand \in 1..Len(taken)
  BY <1>1 DEF LineInv, Contiguous, Handled
<1>7. LineTypes'
  <2>1. pending' \in [Client -> Seq(Line)]
    BY <1>2
  <2>2. spoiled' \subseteq 1..Len(taken)
    BY <1>5, <1>6 DEF LineInv, LineTypes
  <2>3. QED
    BY <1>1, <1>2, <1>3, <2>1, <2>2 DEF LineInv, LineTypes
<1>8. Contiguous'
  BY <1>1, <1>2, <1>3, <1>4 DEF Contiguous
<1>9. QED
  BY <1>1, <1>2, <1>4, <1>7, <1>8 DEF LineInv

\* The steps of LineFeed, with Handled for its handled.
Takes ==
  /\ UNCHANGED stored /\ Handled' = Handled
  /\ \/ Len(taken') > Len(taken) /\ SubSeq(taken', 1, Len(taken)) = taken
     \/ taken' = taken

Handles ==
  /\ UNCHANGED taken
  /\ Handled' \in (Handled + 1)..Len(taken) /\ stored' \in {stored, Append(stored, Handled')}

LEMMA NextKeepsLineInv ==
  ASSUME LineInv, [Next]_vars
  PROVE  LineInv' /\ (Takes \/ Handles)
<1>1. ASSUME UNCHANGED <<syslogVars, spoiled>>
      PROVE  LineInv' /\ Takes
  BY <1>1 DEF syslogVars, LineInv, LineTypes, Contiguous, Handled, Takes
<1>2. CASE Queried \/ Polled \/ Slept \/ Start
  BY <1>1, <1>2 DEF Queried, Polled, Slept, Start, workerVars
<1>3. CASE Received
  <2>1. spoiled' = spoiled
    BY <1>3 DEF Received, workerVars
  <2>2. ASSUME NEW a \in Line, NEW b \in Line, Datagram(<<a>>) \/ Datagram(<<a, b>>)
        PROVE  LineInv' /\ Takes
    <3>1. <<a>> \in Seq(Line) /\ <<a, b>> \in Seq(Line)
      OBVIOUS
    <3>2. QED
      BY <2>1, <2>2, <3>1, DatagramTakes DEF Takes
  <2>3. ASSUME NEW c \in Client, NEW line \in Line, Send(c, line)
        PROVE  LineInv' /\ Takes
    <3>1. /\ pending' = [pending EXCEPT ![c] = Append(@, line)]
          /\ UNCHANGED <<taken, queue, hand, stored, spoiled>>
      BY <2>1, <2>3 DEF Send
    <3>2. pending' \in [Client -> Seq(Line)]
      BY <3>1, AppendProperties DEF LineInv, LineTypes
    <3>3. QED
      BY <3>1, <3>2 DEF LineInv, LineTypes, Contiguous, Handled, Takes
  <2>4. QED
    BY <1>3, <2>2, <2>3 DEF Received, Receive
<1>4. CASE \E c \in Client : ReadLine(c)
  BY <1>4, ReadTakes, ReadFailsKeeps DEF ReadLine, workerVars, Takes
<1>5. CASE Consume
  <2>1. spoiled' = spoiled
    BY <1>5 DEF Consume, workerVars
  <2>2. CASE Get
    BY <2>1, <2>2, GetKeeps DEF Takes
  <2>3. CASE Store
    BY <2>1, <2>3, HandKeeps DEF Store, Handles
  <2>4. QED
    BY <1>5, <2>2, <2>3 DEF Consume
<1>6. CASE Fault
  <2>1. CASE (FetchFails \/ PersistAborts \/ PersistUnheard) /\ UNCHANGED <<syslogVars, spoiled>>
    BY <1>1, <2>1
  <2>2. CASE StoreFails /\ spoiled' = spoiled \cup {hand}
    BY <2>2, HandKeeps DEF StoreFails, Rest, Handles
  <2>3. QED
    BY <1>6, <2>1, <2>2 DEF Fault
<1>7. CASE End
  <2>1. ListenerLost /\ spoiled' = spoiled \cup Range(queue) \cup ({hand} \ {0})
    BY <1>7 DEF End
  <2>2. QED
    BY <2>1, ListenerLostKeeps DEF Takes, Handles
<1>8. CASE UNCHANGED vars
  BY <1>1, <1>8 DEF vars, workerVars
<1>9. QED
  BY <1>2, <1>3, <1>4, <1>5, <1>6, <1>7, <1>8 DEF Next

\* Lines are stored at most once and in order of arrival, for every size of
\* the queue and whatever overflows, fails or ends: the listener is a LineFeed.
THEOREM ListenerImplementsFeed == Spec => FeedSpec
<1>1. Init => Feed!Init
  BY DEF Init, ListenerInit, Feed!Init
<1>2. LineInv /\ [Next]_vars => [Feed!Next]_<<taken, stored, Handled>>
  <2> SUFFICES ASSUME LineInv, [Next]_vars PROVE [Feed!Next]_<<taken, stored, Handled>>
    OBVIOUS
  <2>1. CASE Takes
    BY <2>1 DEF Takes, Feed!Next, Feed!Take, Handled
  <2>2. CASE Handles
    BY <2>2 DEF Handles, Feed!Next, Feed!Handle, Handled
  <2>3. QED
    BY <2>1, <2>2, NextKeepsLineInv
<1>3. LineInv /\ [Next]_vars => LineInv'
  BY NextKeepsLineInv
<1>4. Feed!Spec <=> Feed!Init /\ [][Feed!Next]_<<taken, stored, Handled>>
  BY DEF Feed!Spec, Handled
<1>5. QED
  BY <1>1, <1>2, <1>3, <1>4, InitLineInv, PTL DEF Spec, FeedSpec

\* Every variable of the worker has its type: pages, rows and what is given up
\* are queries that came, lines have a place, and the queue keeps its bound.
THEOREM WorkerTypeCorrect == Spec => []WorkerTypeOK
<1>1. PollInv /\ LineInv => WorkerTypeOK
  <2> SUFFICES ASSUME PollInv, LineInv PROVE WorkerTypeOK
    OBVIOUS
  <2>1. /\ since = Missing \/ since \in Int
        /\ poll.stage \in {"due", "fetched", "asleep", "down"}
        /\ poll.page \cup poll.over \cup rows \cup cut \cup again \subseteq DOMAIN log
        /\ poll.seen \in 0..Len(log) /\ gap \subseteq 1..MaxQueries
    BY DEF PollInv, PollTypes
  <2>2. (poll.stage = "down") = ~running
    BY Zenon DEF PollInv, PollTypes
  <2>4. hand \in 0..Len(taken) /\ Len(queue) <= QueueSize
    BY DEF LineInv, LineTypes, Contiguous, Handled
  <2>5. Range(queue) \subseteq 1..Len(taken)
    <3>1. Len(taken) \in Nat /\ Len(queue) \in Nat
      BY DEF LineInv, LineTypes
    <3>2. ASSUME NEW i \in 1..Len(queue) PROVE queue[i] \in 1..Len(taken)
      BY <3>1 DEF LineInv, Contiguous, Handled
    <3>3. QED
      BY <3>2, RangeEquality DEF LineInv, LineTypes
  <2>6. QED
    BY <2>1, <2>2, <2>4, <2>5 DEF WorkerTypeOK, LineInv, LineTypes
<1>2. LineInv /\ [Next]_vars => LineInv'
  BY NextKeepsLineInv
<1>3. QED
  BY <1>1, <1>2, InitPollInv, NextKeepsPollInv, InitLineInv, PTL DEF Spec
=============================================================================
