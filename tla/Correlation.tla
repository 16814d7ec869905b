------------------------------ MODULE Correlation ------------------------------
(***************************************************************************)
(* Attribution of DNS queries to devices: backend/app/correlate/engine.py  *)
(* and the review queue of backend/app/api/correlation.py, on top of the   *)
(* identity tables.                                                        *)
(*                                                                         *)
(* A replay correlates a window of queries from the address history and    *)
(* the client names; a review is a parent's decision about one query that  *)
(* the replay would not attribute.  Both write the same activity rows, and *)
(* a review that strengthens an identifier also writes the identity tables *)
(* in the same transaction.                                                *)
(***************************************************************************)
EXTENDS DeviceIdentity

CONSTANTS
  Query,      \* rows of dns_query
  QueryOf,    \* their client address, client name and time
  Threshold,  \* correlation_confidence_threshold, in hundredths
  Overlap,    \* whether two sessions on activity rows may overlap
  NoRow,      \* a query that has no activity row yet
  Undecided   \* no manual_resolution in the evidence

ASSUME CorrelationAssumption ==
  /\ Query # {}
  /\ QueryOf \in [Query ->
       [ip : Ip \cup {Absent}, name : Name \cup {Absent}, at : 0..MaxTime]]
  /\ Threshold \in Nat
  /\ Overlap \in BOOLEAN
  /\ Undecided \notin Device \cup {NoDevice}

VARIABLES
  activity,  \* the committed dns_activity rows
  audit,     \* how many correlation.resolve records each query has
  replay,    \* the session that replays a window
  review     \* the parents' requests that resolve a query

correlationVars == <<activity, audit, replay, review>>
vars == <<db, clock, poll, request, activity, audit, replay, review>>

-----------------------------------------------------------------------------
(***************************************************************************)
(* Evidence: a match points at a device and carries what it was read from; *)
(* an address match is an interval of the address history.                 *)
(***************************************************************************)
MatchKind == {"ip_assignment", "pihole_client", "hostname"}
Evidence == [kind : MatchKind, device : Device, from : Nat, to : Nat \cup {Open}]
Conflict == [reason : {"ip_reassigned_in_window", "multiple_candidate_devices"},
             devices : SUBSET Device]
Status == {"attributed", "ambiguous", "unattributed"}

\* The manual marker is a member of the same JSON column as the matches.
Row ==
  [device : Device \cup {NoDevice}, confidence : Nat, status : Status,
   review : BOOLEAN, conflicts : SUBSET Conflict,
   evidence : [matches : SUBSET Evidence, window : Nat \X Nat,
               manual : Device \cup {NoDevice, Undecided}]]

Manual(row) == row # NoRow /\ row.evidence.manual # Undecided

\* Mutant: the needs_review test is dropped.
InQueueByStatus(row) == row # NoRow /\ row.status # "attributed"

\* What a parent may resolve.
InQueue(row) == row # NoRow /\ row.review /\ row.status # "attributed"

Devices(matches) == {m.device : m \in matches}
Kinds(matches) == {m.kind : m \in matches}

\* combine_confidence: the best weight, raised when the address and a name
\* agree; the cap of 99 is above every sum.
Confidence(matches) ==
  LET K == Kinds(matches)
  IN IF {"ip_assignment", "pihole_client"} \subseteq K THEN 95
     ELSE IF {"ip_assignment", "hostname"} \subseteq K THEN 90
     ELSE IF "ip_assignment" \in K THEN 80
     ELSE IF "pihole_client" \in K THEN 60
     ELSE IF "hostname" \in K THEN 55
     ELSE 0

\* Mutant: both ends of an interval belong to it.
CoversInclusive(l, at) == l.from <= at /\ (l.to = Open \/ at <= l.to)

Covers(l, at) == l.from <= at /\ (l.to = Open \/ at < l.to)
Overlaps(l, window) == l.from <= window[2] /\ (l.to = Open \/ window[1] < l.to)

\* window_ip_reassignment_conflicts, for one address.
Reassigned(leases, ip, window) ==
  LET holders == {l.device : l \in {m \in leases : m.ip = ip /\ Overlaps(m, window)}}
  IN IF \E d, e \in holders : d # e
     THEN {[reason |-> "ip_reassigned_in_window", devices |-> holders]}
     ELSE {}

\* _matches_for_query: the address history as loaded when the replay began,
\* the identifiers as they are now.
Matches(q, leases) ==
  LET byAddress == {l \in leases : l.ip = QueryOf[q].ip /\ Covers(l, QueryOf[q].at)}
      byName    == {k \in NameKey : /\ k[2] = QueryOf[q].name
                                    /\ db.owner[k] # NoDevice
                                    /\ db.since[k] <= QueryOf[q].at}
  IN {[kind |-> "ip_assignment", device |-> l.device, from |-> l.from, to |-> l.to] :
        l \in byAddress}
     \cup {[kind |-> k[1], device |-> db.owner[k], from |-> db.since[k], to |-> Open] :
             k \in byName}

\* Mutant: candidates are not compared.
NoRivals(matches) == {}

Rivals(matches) ==
  IF \E m, n \in matches : m.device # n.device
  THEN {[reason |-> "multiple_candidate_devices", devices |-> Devices(matches)]}
  ELSE {}

\* decide_attribution: no device at all rather than one of several.
Decided(matches, reassigned, window) ==
  LET conflicts == reassigned \cup Rivals(matches)
      agreed    == conflicts = {} /\ matches # {}
      sure      == agreed /\ Confidence(matches) >= Threshold
  IN [device     |-> IF sure THEN CHOOSE d \in Device : d \in Devices(matches)
                     ELSE NoDevice,
      confidence |-> IF agreed THEN Confidence(matches) ELSE 0,
      status     |-> IF conflicts # {} THEN "ambiguous"
                     ELSE IF sure THEN "attributed" ELSE "unattributed",
      review     |-> ~sure,
      conflicts  |-> conflicts,
      evidence   |-> [matches |-> matches, window |-> window, manual |-> Undecided]]

\* Mutant: a replay replaces the row whatever it holds.
UpsertedAlways(existing, row) == row

\* _upsert_activity: a row that holds a parent's decision is left alone.
Upserted(existing, row) == IF Manual(existing) THEN existing ELSE row

\* Mutant: needs_review is not reset.
SettledInQueue(row, decision) ==
  [row EXCEPT !.device = decision,
              !.status = IF decision = NoDevice THEN "unattributed" ELSE "attributed",
              !.evidence = [@ EXCEPT !.manual = decision]]

\* resolve_review_item, on the row it read: decision is a device, or NoDevice
\* to leave the query unattributed.
Settled(row, decision) ==
  [row EXCEPT
     !.device          = decision,
     !.confidence      = IF decision = NoDevice THEN @ ELSE 100,
     !.status          = IF decision = NoDevice THEN "unattributed" ELSE "attributed",
     !.review          = FALSE,
     !.evidence = [@ EXCEPT !.manual = decision]]

\* A column is written only if the session changed it.
Column(c, b, w) == IF w # b THEN w ELSE c

\* The row after a session that read b and made w of it: an insert, or an
\* UPDATE of the columns that differ.
MergedRow(c, b, w) ==
  IF w = b THEN c
  ELSE IF b = NoRow THEN w
  ELSE [device     |-> Column(c.device, b.device, w.device),
        confidence |-> Column(c.confidence, b.confidence, w.confidence),
        status     |-> Column(c.status, b.status, w.status),
        review     |-> Column(c.review, b.review, w.review),
        conflicts  |-> Column(c.conflicts, b.conflicts, w.conflicts),
        evidence   |-> Column(c.evidence, b.evidence, w.evidence)]

-----------------------------------------------------------------------------
Rows == [Query -> Row \cup {NoRow}]
NoRows == [q \in Query |-> NoRow]

ASSUME NoRowAssumption == NoRow \notin Row

ReplaySession ==
  [open : BOOLEAN, todo : SUBSET Query, window : Nat \X Nat, leases : SUBSET Lease,
   base : Rows, work : Rows]

NoReplay ==
  [open |-> FALSE, todo |-> {}, window |-> <<0, 0>>, leases |-> {},
   base |-> NoRows, work |-> NoRows]

ReviewSession ==
  [open : BOOLEAN, query : Query, base : Row \cup {NoRow}, work : Row \cup {NoRow}]

NoReview ==
  [open |-> FALSE, query |-> CHOOSE q \in Query : TRUE, base |-> NoRow, work |-> NoRow]

(***************************************************************************)
(* correlate_time_range: it loads the queries between two times and the    *)
(* history of their addresses, then decides them in order of time.         *)
(***************************************************************************)
ReplayBegin(start, end) ==
  /\ ~replay.open
  /\ Overlap \/ \A r \in Request : ~review[r].open
  /\ LET loaded == {q \in Query : start <= QueryOf[q].at /\ QueryOf[q].at <= end
                                  /\ QueryOf[q].at <= clock}
     IN \E first, last \in loaded :
          /\ \A q \in loaded : /\ QueryOf[first].at <= QueryOf[q].at
                             /\ QueryOf[q].at <= QueryOf[last].at
          /\ replay' = [open   |-> TRUE,
                        todo   |-> loaded,
                        window |-> <<QueryOf[first].at, QueryOf[last].at>>,
                        leases |-> {l \in db.leases : \E q \in loaded : l.ip = QueryOf[q].ip},
                        base   |-> NoRows,
                        work   |-> NoRows]
  /\ UNCHANGED <<activity, audit, review>>
  /\ UNCHANGED identityVars

ReplayQuery(q) ==
  /\ replay.open /\ q \in replay.todo
  /\ \A p \in replay.todo : QueryOf[q].at <= QueryOf[p].at
  /\ LET row == Decided(Matches(q, replay.leases),
                        Reassigned(replay.leases, QueryOf[q].ip, replay.window),
                        replay.window)
     IN replay' = [replay EXCEPT !.todo = @ \ {q},
                                 !.base = [@ EXCEPT ![q] = activity[q]],
                                 !.work = [@ EXCEPT ![q] = Upserted(activity[q], row)]]
  /\ UNCHANGED <<activity, audit, review>>
  /\ UNCHANGED identityVars

ReplayCommit ==
  /\ replay.open /\ replay.todo = {}
  /\ activity' = [q \in Query |-> MergedRow(activity[q], replay.base[q], replay.work[q])]
  /\ replay' = NoReplay
  /\ UNCHANGED <<audit, review>>
  /\ UNCHANGED identityVars

ReplayAbort ==
  /\ replay.open
  /\ replay' = NoReplay
  /\ UNCHANGED <<activity, audit, review>>
  /\ UNCHANGED identityVars

\* Mutant: the device is not looked up.
AnyDecision == Device \cup {NoDevice}

\* What a parent may decide: a device that exists, or none.
Decision == db.devices \cup {NoDevice}

\* The identity part of a review's transaction, when it has one.
CommitConfirmation(r) ==
  IF request[r].open THEN ConfirmCommit(r) ELSE UNCHANGED identityVars

(***************************************************************************)
(* resolve_review_item, from its reads to just before the commit.  When    *)
(* the parent asks for it, the query's client name is confirmed as well.   *)
(***************************************************************************)
ReviewBegin(r, q, decision, strengthen) ==
  /\ ~review[r].open
  /\ Overlap \/ (~replay.open /\ \A s \in Request : ~review[s].open)
  /\ InQueue(activity[q])
  /\ decision \in Decision
  /\ strengthen => decision # NoDevice
  /\ review' = [review EXCEPT ![r] =
       [open |-> TRUE, query |-> q, base |-> activity[q],
        work |-> Settled(activity[q], decision)]]
  /\ IF strengthen /\ QueryOf[q].name # Absent
     THEN ConfirmBegin(r, decision, QueryOf[q].name, QueryOf[q].at)
     ELSE UNCHANGED identityVars
  /\ UNCHANGED <<activity, audit, replay>>

ReviewCommit(r) ==
  /\ review[r].open
  /\ activity' = [activity EXCEPT ![review[r].query] =
                    MergedRow(@, review[r].base, review[r].work)]
  /\ audit' = [audit EXCEPT ![review[r].query] = @ + 1]
  /\ review' = [review EXCEPT ![r] = NoReview]
  /\ CommitConfirmation(r)
  /\ UNCHANGED replay

\* Mutant: the confirmation is committed on its own.
ReviewAbortPart(r) ==
  /\ review[r].open
  /\ review' = [review EXCEPT ![r] = NoReview]
  /\ CommitConfirmation(r)
  /\ UNCHANGED <<activity, audit, replay>>

ReviewAbort(r) ==
  /\ review[r].open
  /\ review' = [review EXCEPT ![r] = NoReview]
  /\ IF request[r].open THEN ConfirmAbort(r) ELSE UNCHANGED identityVars
  /\ UNCHANGED <<activity, audit, replay>>

-----------------------------------------------------------------------------
CorrelationInit ==
  /\ IdentityInit
  /\ activity = NoRows
  /\ audit = [q \in Query |-> 0]
  /\ replay = NoReplay
  /\ review = [r \in Request |-> NoReview]

ReplayNext ==
  \/ \E start, end \in 0..MaxTime : ReplayBegin(start, end)
  \/ \E q \in Query : ReplayQuery(q)
  \/ ReplayCommit
  \/ ReplayAbort

ReviewNext ==
  \E r \in Request :
    \/ \E q \in Query, decision \in Device \cup {NoDevice}, strengthen \in BOOLEAN :
         ReviewBegin(r, q, decision, strengthen)
    \/ ReviewCommit(r)
    \/ ReviewAbort(r)

CorrelationNext ==
  \/ Tick /\ UNCHANGED correlationVars
  \/ PollNext /\ UNCHANGED correlationVars
  \/ ReplayNext
  \/ ReviewNext

CorrelationSpec == CorrelationInit /\ [][CorrelationNext]_vars

-----------------------------------------------------------------------------
(***************************************************************************)
(* Properties.                                                             *)
(***************************************************************************)

\* Every variable has its type, and a row names a device that exists.
CorrelationTypeOK ==
  /\ activity \in Rows
  /\ audit \in [Query -> Nat]
  /\ replay \in ReplaySession
  /\ review \in [Request -> ReviewSession]
  /\ \A q \in Query :
       activity[q] # NoRow => activity[q].device \in db.devices \cup {NoDevice}

\* "Never guess": a query the program attributed on its own has evidence for
\* that device only, no conflict, and enough confidence, all three in the row
\* as committed.
NeverGuess ==
  \A q \in Query :
    activity[q] # NoRow /\ ~Manual(activity[q]) /\ activity[q].status = "attributed" =>
      /\ Devices(activity[q].evidence.matches) = {activity[q].device}
      /\ activity[q].conflicts = {}
      /\ Confidence(activity[q].evidence.matches) >= Threshold

\* Address evidence in a row stays true of the address history: whatever the
\* polls write after the replay read it, the device has an interval on that
\* address which began by the time of the query, a later poll has at most ended
\* it, and an interval that had ended by then is no evidence.
EvidenceInHistory ==
  \A q \in Query : activity[q] # NoRow =>
    \A m \in activity[q].evidence.matches : m.kind = "ip_assignment" =>
      /\ m.to = Open \/ QueryOf[q].at < m.to
      /\ \E l \in db.leases :
           /\ l.device = m.device /\ l.ip = QueryOf[q].ip
           /\ l.from = m.from /\ l.from <= QueryOf[q].at
           /\ l.to = m.to \/ m.to = Open

\* The columns of a row agree: it has a device exactly when it is attributed,
\* it waits for review exactly when it is neither attributed nor decided, a
\* parent's decision is the device it has, and decisions are the audited ones.
RowCoherent ==
  \A q \in Query : activity[q] # NoRow =>
    LET row == activity[q]
    IN /\ row.device # NoDevice <=> row.status = "attributed"
       /\ row.review <=> row.status # "attributed" /\ ~Manual(row)
       /\ Manual(row) => row.device = row.evidence.manual
       /\ Manual(row) <=> audit[q] > 0

\* A query is resolved once: of two decisions about it the second is refused
\* (409 "Correlation already resolved"), so the audit log has at most one.
ResolvedOnce == \A q \in Query : audit[q] <= 1

\* A parent's decision is final: nothing changes the row any more, least of
\* all a replay that had read it before the decision.
ManualResolutionKept ==
  [][\A q \in Query : Manual(activity[q]) => activity'[q] = activity[q]]_vars

\* The sessions that may end a parent's decision, overlapping ones included: a
\* decision that has left the queue is changed, or the query resolved again,
\* only by a commit of a session that read the row before it became what it is.
DecisionFinalUnlessStale ==
  [][\A q \in Query :
       /\ Manual(activity[q]) /\ ~activity[q].review
       /\ activity'[q] # activity[q] \/ audit'[q] # audit[q]
       => \/ replay.open /\ ~replay'.open /\ replay.base[q] # activity[q]
          \/ \E r \in Request : /\ review[r].open /\ ~review'[r].open
                                /\ review[r].query = q /\ review[r].base # activity[q]]_vars

\* A review's two writes stand together.  An identifier moves from one device to
\* another only when a resolution is recorded, to the device that was decided,
\* and it is the name of the query; and a resolution that was to strengthen
\* the name leaves it with the device decided, unless that device had the name
\* when the review read it.
Resolves(r) ==
  /\ review[r].open /\ ~review'[r].open
  /\ audit'[review[r].query] > audit[review[r].query]

BindingMovesWithDecision ==
  [][/\ \A k \in Key :
          db.owner[k] # NoDevice /\ db'.owner[k] # db.owner[k] =>
            \E r \in Request :
              /\ Resolves(r)
              /\ k \in NameKey /\ k[2] = QueryOf[review[r].query].name
              /\ db'.owner[k] = review[r].work.evidence.manual
     /\ \A r \in Request : Resolves(r) /\ request[r].open =>
          \A k \in NameKey : k[2] = QueryOf[review[r].query].name =>
            review[r].work.evidence.manual \in {db'.owner[k], request[r].base.owner[k]}]_vars
=============================================================================
