------------------------------- MODULE MCWorker -------------------------------
(* Three queries in pages of two, or three lines through a queue of two: a poll
   can be cut, a query can come between a fetch and its commit, a payload can
   block the polls, and a datagram can overflow the queue.  The worker's clock
   shows Pi-hole's time, one query less or one more. *)
EXTENDS Worker

CONSTANTS Ads, Phone, Address, Kept, Banned, Hit

Good == [legacy |-> FALSE, domain |-> Ads, name |-> Phone, ip |-> Missing, status |-> Banned]
Nameless == [legacy |-> FALSE, domain |-> Ads, name |-> Missing, ip |-> Address, status |-> Kept]
NoClient == [legacy |-> FALSE, domain |-> Ads, name |-> Missing, ip |-> Missing, status |-> Hit]

MCPayloads == {Good, Nameless, NoClient}
MCBlocked == {Banned}
MCCached == {Hit}
MCSkew == {-1, 0, 1}

\* The two ingests share only the end of the process: polls of up to three
\* queries and two faults have no lines beside them, up to three lines have one
\* query and one fault.
Few == Lines = 0 \/ (Len(log) <= 1 /\ faults <= 1)

MCSpec == Init /\ [][Next /\ Few']_vars /\ Fairness
=============================================================================
