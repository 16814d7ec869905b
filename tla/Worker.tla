--------------------------------- MODULE Worker ---------------------------------
(***************************************************************************)
(* The worker process of backend/worker.py as far as it takes data in from *)
(* sources that do not repeat themselves: the Pi-hole poll loop and the    *)
(* syslog listener run in one asyncio.gather.  A loop that raises ends the *)
(* process, and the container is started again.                            *)
(***************************************************************************)
EXTENDS PiholeIngest, SyslogIngest

CONSTANTS
  MaxFaults,   \* bound on failed requests, transactions and stores
  MaxRestarts  \* bound on the ends of the process

ASSUME WorkerAssumption == MaxFaults \in Nat /\ MaxRestarts \in Nat

VARIABLES
  running,   \* the process
  faults,    \* how many there have been
  restarts,  \* how often the process has ended
  spoiled    \* places of lines whose store failed or that ended with the process

workerVars == <<running, faults, restarts, spoiled>>
vars == <<piholeVars, syslogVars, workerVars>>

Init ==
  /\ PollInit /\ ListenerInit
  /\ running = TRUE /\ faults = 0 /\ restarts = 0 /\ spoiled = {}

-----------------------------------------------------------------------------
\* What comes from outside.
Queried == (\E payload \in Payloads : Query(payload)) /\ UNCHANGED <<syslogVars, workerVars>>

Received == /\ running
            /\ Receive \/ \E c \in Client, line \in Line : Send(c, line)
            /\ UNCHANGED <<piholeVars, workerVars>>

\* The steps of pihole_poll_loop, of the listener and of its consumer.
Polled == running /\ PollStep /\ UNCHANGED <<syslogVars, workerVars>>

Slept == running /\ PollAgain /\ UNCHANGED <<syslogVars, workerVars>>

ReadLine(c) == running /\ (Read(c) \/ ReadFails(c)) /\ UNCHANGED <<piholeVars, workerVars>>

Consume == running /\ (Get \/ Store) /\ UNCHANGED <<piholeVars, workerVars>>

\* What the loops survive.
Fault ==
  /\ running /\ faults < MaxFaults
  /\ faults' = faults + 1
  /\ \/ (FetchFails \/ PersistAborts \/ PersistUnheard) /\ UNCHANGED <<syslogVars, spoiled>>
     \/ StoreFails /\ spoiled' = spoiled \cup {hand} /\ UNCHANGED piholeVars
  /\ UNCHANGED <<running, restarts>>

\* The process ends, at any time: with its container, or because a loop raises.
\* _poll_intervals is outside the try of its loop, so one database error there
\* leaves it, gather raises, and asyncio.run cancels every other loop.
End ==
  /\ running /\ restarts < MaxRestarts
  /\ running' = FALSE
  /\ restarts' = restarts + 1
  /\ spoiled' = spoiled \cup Range(queue) \cup ({hand} \ {0})
  /\ PollLost /\ ListenerLost
  /\ UNCHANGED faults

\* restart: unless-stopped of docker-compose.yml.
Start ==
  /\ ~running
  /\ running' = TRUE
  /\ PollStart
  /\ UNCHANGED <<syslogVars, faults, restarts, spoiled>>

Next ==
  \/ Queried \/ Received
  \/ Polled \/ Slept \/ (\E c \in Client : ReadLine(c)) \/ Consume
  \/ Fault \/ End \/ Start

\* The event loop runs what is ready, requests and transactions end, sleeps
\* are over after their interval, and the container comes back.
Fairness ==
  /\ WF_vars(Polled) /\ WF_vars(Slept) /\ WF_vars(Consume) /\ WF_vars(Start)
  /\ \A c \in Client : WF_vars(ReadLine(c))

Spec == Init /\ [][Next]_vars /\ Fairness

-----------------------------------------------------------------------------
(* Properties. *)

WorkerTypeOK ==
  /\ since = Missing \/ since \in Int
  /\ poll.stage \in {"due", "fetched", "asleep", "down"}
  /\ (poll.stage = "down") = ~running
  /\ poll.page \cup poll.over \cup rows \cup cut \cup again \subseteq DOMAIN log
  /\ poll.seen \in 0..Len(log) /\ gap \subseteq 1..MaxQueries
  /\ hand \in 0..Len(taken) /\ Len(queue) <= QueueSize
  /\ Range(queue) \cup Range(stored) \cup spoiled \subseteq 1..Len(taken)

\* A page holds a query that has a row, and would store it a second time, only
\* if the process has lost `since`, or has stored the query without moving
\* `since` past it: because the worker's clock was behind Pi-hole's at the last
\* poll that succeeded, or a commit after that was not answered.  Requests and
\* batches that fail repeat nothing (`since` in pihole_poll_loop).
RepeatOnlyIfForgotten ==
  \A n \in poll.page \cap rows : (since = Missing /\ restarts > 0) \/ n \in again

\* A line that was taken in is stored in the end, or its store has failed, or
\* it ended with the process (_line_consumer and the unbounded retry it lacks).
LinesStored ==
  \A n \in 1..MaxLines :
    n <= Len(taken) ~> n \in Range(stored) \cup spoiled
=============================================================================
