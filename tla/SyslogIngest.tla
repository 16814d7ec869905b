------------------------------ MODULE SyslogIngest ------------------------------
(***************************************************************************)
(* The syslog listener of backend/app/ingest/unifi_syslog.py: datagrams    *)
(* and connections put lines into one bounded queue, one consumer stores   *)
(* them, a transaction per line.  A line is a member of Line; the places   *)
(* of the queue hold the number of a line in the order of arrival.         *)
(***************************************************************************)
EXTENDS Integers, Sequences, SequencesExt

CONSTANTS
  Line,       \* what lines say
  Blank,      \* lines that are not kept
  Long,       \* lines of a connection beyond the limit of its reader
  Client,     \* TCP connections
  QueueSize,  \* maxsize of the queue
  MaxLines    \* bound on the lines taken in or dropped

ASSUME SyslogAssumption ==
  /\ QueueSize \in Nat \ {0} /\ MaxLines \in Nat
  /\ {Blank, Long} \subseteq Line

VARIABLES
  taken,     \* the lines put into the queue, in order
  queue,     \* their places that wait
  hand,      \* the place the consumer is storing, or 0
  stored,    \* raw_unifi_syslog: places in the order of the commits
  dropped,   \* how many lines found the queue full or their connection closed
  pending    \* lines of a connection that are not read yet

syslogVars == <<taken, queue, hand, stored, dropped, pending>>

Lines == Len(taken) + dropped + FoldFunction(LAMBDA s, n : Len(s) + n, 0, pending)

\* Mutant: a full queue makes room for the newest line.
PutOldestOut(places, new) ==
  LET all == places \o new
  IN IF Len(all) <= QueueSize THEN all ELSE SubSeq(all, Len(all) - QueueSize + 1, Len(all))

\* put_nowait for one line after the other: QueueFull ends the datagram.
Put(places, new) ==
  places \o SubSeq(new, 1, IF Len(new) <= QueueSize - Len(places)
                           THEN Len(new) ELSE QueueSize - Len(places))

\* datagram_received, with the lines of the datagram that are not blank.
Datagram(lines) ==
  LET places == [i \in DOMAIN lines |-> Len(taken) + i]
      room   == Len(Put(queue, places)) - Len(queue)
  IN /\ Lines + Len(lines) <= MaxLines
     /\ queue' = Put(queue, places)
     /\ taken' = taken \o SubSeq(lines, 1, room)
     /\ dropped' = dropped + Len(lines) - room
     /\ UNCHANGED <<hand, stored, pending>>

\* The controller writes a line to a connection.
Send(c, line) ==
  /\ Lines < MaxLines
  /\ pending' = [pending EXCEPT ![c] = Append(@, line)]
  /\ UNCHANGED <<taken, queue, hand, stored, dropped>>

\* _handle_tcp_client: readline and put, which waits for room.
Read(c) ==
  /\ pending[c] # << >> /\ Head(pending[c]) # Long
  /\ Head(pending[c]) = Blank \/ Len(queue) < QueueSize
  /\ pending' = [pending EXCEPT ![c] = Tail(@)]
  /\ IF Head(pending[c]) = Blank THEN UNCHANGED <<taken, queue>>
     ELSE /\ taken' = Append(taken, Head(pending[c]))
          /\ queue' = Append(queue, Len(taken) + 1)
  /\ UNCHANGED <<hand, stored, dropped>>

\* readline raises on a line that is too long: the handler closes the
\* connection, with whatever has been written to it after that line.
ReadFails(c) ==
  /\ pending[c] # << >> /\ Head(pending[c]) = Long
  /\ pending' = [pending EXCEPT ![c] = << >>]
  /\ dropped' = dropped + Len(SelectSeq(pending[c], LAMBDA line : line # Blank))
  /\ UNCHANGED <<taken, queue, hand, stored>>

\* _line_consumer takes a line.
Get ==
  /\ hand = 0 /\ queue # << >>
  /\ hand' = Head(queue)
  /\ queue' = Tail(queue)
  /\ UNCHANGED <<taken, stored, dropped, pending>>

\* ingest_line commits.
Store ==
  /\ hand # 0
  /\ stored' = Append(stored, hand)
  /\ hand' = 0
  /\ UNCHANGED <<taken, queue, dropped, pending>>

\* Mutant: a line that failed is put back.
RestPutBack(places, failed) == IF Len(places) < QueueSize THEN Append(places, failed) ELSE places

\* The queue has no retry.
Rest(places, failed) == places

\* ingest_line raises: the session is rolled back, the line is logged.
StoreFails ==
  /\ hand # 0
  /\ hand' = 0
  /\ queue' = Rest(queue, hand)
  /\ UNCHANGED <<taken, stored, dropped, pending>>

\* The listener stops or the process ends, with lines in the queue.
ListenerLost ==
  /\ queue' = << >> /\ hand' = 0
  /\ pending' = [c \in Client |-> << >>]
  /\ UNCHANGED <<taken, stored, dropped>>

ListenerInit ==
  /\ taken = << >> /\ queue = << >> /\ hand = 0 /\ stored = << >> /\ dropped = 0
  /\ pending = [c \in Client |-> << >>]

\* One line or two in a datagram, which is shorter than the limit of a reader.
Receive == \E a, b \in Line \ {Blank, Long} : Datagram(<<a>>) \/ Datagram(<<a, b>>)

-----------------------------------------------------------------------------
(* Properties. *)

\* Lines are stored at most once and in order of arrival, whatever is dropped,
\* fails or is lost with the process (one consumer, one queue, no retry).
Feed == INSTANCE LineFeed
          WITH handled <- Len(taken) - Len(queue) - (IF hand = 0 THEN 0 ELSE 1)
FeedSpec == Feed!Spec

\* "appends every received line to PostgreSQL": when the listener has nothing
\* left to do, every line that came in is stored.
EveryLineAppended ==
  queue = << >> /\ hand = 0 => Len(stored) = Len(taken) + dropped
=============================================================================
