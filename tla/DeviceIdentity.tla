----------------------------- MODULE DeviceIdentity -----------------------------
(***************************************************************************)
(* Durable device identity: backend/app/identity/resolver.py and the       *)
(* tables of backend/app/models/identity.py.                               *)
(*                                                                         *)
(* Two kinds of database session write these tables: the worker's UniFi    *)
(* poll, which resolves every client of a snapshot in one transaction, and *)
(* a parent's API request, which confirms the client name of a reviewed    *)
(* query.  A session reads under READ COMMITTED and its ORM writes back    *)
(* only the columns it changed, so a session is a pair of copies of the    *)
(* tables, what it read (base) and what it has made of it (work), and a    *)
(* commit merges their difference into the committed tables.               *)
(***************************************************************************)
EXTENDS Naturals

CONSTANTS
  Device,       \* primary keys of the device table, unused ones included
  Mac,          \* canonical MAC addresses
  ClientId,     \* UniFi client ids
  Name,         \* host names, which are also Pi-hole client names
  Ip,           \* IP addresses
  Observation,  \* the client sightings a snapshot may hold
  Request,      \* API requests that may be under way at the same time
  NoDevice,     \* the owner of an identifier that has no row
  Absent,       \* a field an observation does not carry
  Open,         \* observed_to of an assignment that has not ended (NULL)
  MaxTime,      \* bound on the clock
  MaxClients    \* bound on the clients of one snapshot

MacKey == {"mac"} \X Mac
ClientIdKey == {"unifi_client_id"} \X ClientId
NameKey == {"hostname", "pihole_client"} \X Name
IpKey == {"ip"} \X Ip

\* Identifiers a device is matched by; the others are evidence only.
StrongKey == MacKey \cup ClientIdKey

\* Rows of device_identifier are named by their unique (kind, value) pair.
Key == StrongKey \cup NameKey \cup IpKey

ASSUME IdentityAssumption ==
  /\ NoDevice \notin Device
  /\ Absent \notin Mac \cup ClientId \cup Name \cup Ip \cup Nat
  /\ Open \notin Nat
  /\ MaxTime \in Nat /\ MaxClients \in Nat
  /\ Observation \subseteq
       [mac : Mac \cup {Absent}, cid : ClientId \cup {Absent},
        hostname : Name \cup {Absent}, client : Name \cup {Absent},
        ip : Ip \cup {Absent}, first : Nat \cup {Absent}, last : Nat \cup {Absent}]

VARIABLES
  db,       \* the committed tables
  clock,    \* wall-clock time of the worker and the API
  poll,     \* the worker's UniFi poll
  request   \* the API requests that confirm an identifier

identityVars == <<db, clock, poll, request>>

-----------------------------------------------------------------------------
(***************************************************************************)
(* The tables.  Confidence is in tenths.                                   *)
(***************************************************************************)
Lease == [device : Device, ip : Ip, from : Nat, to : Nat \cup {Open}]

Database ==
  [devices    : SUBSET Device,
   owner      : [Key -> Device \cup {NoDevice}],
   since      : [Key -> Nat],
   confidence : [Key -> 0..10],
   unknown    : SUBSET Device,
   leases     : SUBSET Lease]

EmptyDatabase ==
  [devices    |-> {},
   owner      |-> [k \in Key |-> NoDevice],
   since      |-> [k \in Key |-> 0],
   confidence |-> [k \in Key |-> 0],
   unknown    |-> {},
   leases     |-> {}]

(***************************************************************************)
(* A session: at is the time stamp its writes carry, left the clients of   *)
(* its snapshot it has yet to resolve.                                     *)
(***************************************************************************)
Session ==
  [open : BOOLEAN, at : Nat, left : Nat, base : Database, work : Database]

ClosedSession ==
  [open |-> FALSE, at |-> 0, left |-> 0,
   base |-> EmptyDatabase, work |-> EmptyDatabase]

\* Mutant: every column is written back, read or changed.
MergedColumnWhole(c, b, w) == w

\* The committed value c of a column or a table after the write-back of a
\* session that read b and made w of it.
MergedColumn(c, b, w) == [k \in Key |-> IF w[k] # b[k] THEN w[k] ELSE c[k]]
MergedRows(c, b, w) == (c \ (b \ w)) \cup (w \ b)

Written(s) ==
  [devices    |-> db.devices \cup s.work.devices,
   owner      |-> MergedColumn(db.owner, s.base.owner, s.work.owner),
   since      |-> MergedColumn(db.since, s.base.since, s.work.since),
   confidence |-> MergedColumn(db.confidence, s.base.confidence, s.work.confidence),
   unknown    |-> MergedRows(db.unknown, s.base.unknown, s.work.unknown),
   leases     |-> MergedRows(db.leases, s.base.leases, s.work.leases)]

\* uq_device_identifier_kind_value: the session inserts a row that another
\* session has committed since it looked.
Collides(s) ==
  \E k \in Key : /\ s.base.owner[k] = NoDevice
                 /\ s.work.owner[k] # NoDevice
                 /\ db.owner[k] # NoDevice

-----------------------------------------------------------------------------
(***************************************************************************)
(* The resolver, over one view of the tables.                              *)
(***************************************************************************)
Smaller(a, b) == IF a < b THEN a ELSE b
Larger(a, b) == IF a < b THEN b ELSE a

\* first_seen and last_seen of a sighting are the controller's own times of
\* that client, in either order, and now where it sends none.
Stamp(time, now) == IF time = Absent THEN now ELSE time
FirstSeen(o, now) == Smaller(Stamp(o.first, now), Stamp(o.last, now))
LastSeen(o, now) == Larger(Stamp(o.first, now), Stamp(o.last, now))

ObservedKeys(o) ==
  {<<"mac", o.mac>>, <<"unifi_client_id", o.cid>>, <<"hostname", o.hostname>>,
   <<"pihole_client", o.client>>, <<"ip", o.ip>>} \cap Key

ObservedConfidence(k) ==
  IF k \in StrongKey THEN 10 ELSE IF k \in NameKey THEN 5 ELSE 1

ConfirmedConfidence(k) ==
  IF k \in StrongKey THEN 10 ELSE IF k \in NameKey THEN 9 ELSE 1

\* _match_device: the MAC decides, then the UniFi id; nothing else does.
Match(v, o) ==
  IF o.mac # Absent /\ v.owner[<<"mac", o.mac>>] # NoDevice
  THEN v.owner[<<"mac", o.mac>>]
  ELSE IF o.cid # Absent THEN v.owner[<<"unifi_client_id", o.cid>>] ELSE NoDevice

\* _upsert_identifier for each identifier in K: a free one is bound, one of
\* d's own is refreshed, and one bound to another device is left alone.
Bound(v, d, K, first) ==
  LET free == {k \in K : v.owner[k] = NoDevice}
      own  == {k \in K : v.owner[k] = d}
  IN [v EXCEPT
        !.owner = [k \in Key |-> IF k \in free THEN d ELSE v.owner[k]],
        !.since = [k \in Key |-> IF k \in free THEN first
                                 ELSE IF k \in own THEN Smaller(first, v.since[k])
                                 ELSE v.since[k]],
        !.confidence = [k \in Key |-> IF k \in free \cup own
                                      THEN ObservedConfidence(k)
                                      ELSE v.confidence[k]]]

OpenLeases(leases, d) == {l \in leases : l.device = d /\ l.to = Open}

\* Mutants: the old interval is not ended, or it is replaced.
AssignedAlongside(leases, d, ip, at) ==
  IF \E l \in OpenLeases(leases, d) : l.ip = ip
  THEN leases
  ELSE leases \cup {[device |-> d, ip |-> ip, from |-> at, to |-> Open]}

AssignedInPlace(leases, d, ip, at) ==
  (leases \ OpenLeases(leases, d)) \cup {[device |-> d, ip |-> ip, from |-> at, to |-> Open]}

\* _update_ip_assignment: the device's latest open row ends when it is seen
\* on another address, and a new one opens, even at a time before it began.
Assigned(leases, d, ip, at) ==
  LET open    == OpenLeases(leases, d)
      current == CHOOSE l \in open : \A m \in open : m.from <= l.from
      ended   == IF open = {} THEN leases
                 ELSE (leases \ {current}) \cup {[current EXCEPT !.to = at]}
  IN IF open # {} /\ current.ip = ip
     THEN leases
     ELSE ended \cup {[device |-> d, ip |-> ip, from |-> at, to |-> Open]}

\* Mutant: a sighting clears the flag.
FlaggedNever(v, d) == v.unknown \ {d}

\* is_unknown is what _device_has_strong_identifier says, negated.
Flagged(v, d) ==
  IF \E k \in StrongKey : v.owner[k] = d THEN v.unknown \ {d} ELSE v.unknown \cup {d}

\* Mutant: the new device is not added to the session.
ResolvedUnsaved(v, d, o, now) == Bound(v, d, ObservedKeys(o), FirstSeen(o, now))

\* resolve_observation, once the device is known or created.
Resolved(v, d, o, now) ==
  LET bound == Bound([v EXCEPT !.devices = @ \cup {d}], d, ObservedKeys(o),
                     FirstSeen(o, now))
  IN [bound EXCEPT
        !.leases  = IF o.ip = Absent THEN @ ELSE Assigned(@, d, o.ip, LastSeen(o, now)),
        !.unknown = Flagged(bound, d)]

\* confirm_device_identifier for each identifier in K: a weak one is moved
\* to d whoever has it, a strong one never.
Confirmed(v, d, K, at) ==
  LET taken == {k \in K \cap StrongKey : v.owner[k] \notin {d, NoDevice}}
      M     == K \ taken
  IN [v EXCEPT
        !.owner = [k \in Key |-> IF k \in M THEN d ELSE v.owner[k]],
        !.since = [k \in Key |-> IF k \notin M THEN v.since[k]
                                 ELSE IF v.owner[k] = NoDevice THEN at
                                 ELSE Smaller(at, v.since[k])],
        !.confidence = [k \in Key |-> IF k \in M THEN ConfirmedConfidence(k)
                                      ELSE v.confidence[k]]]
-----------------------------------------------------------------------------
(***************************************************************************)
(* The worker's poll: run_poll_once, ingest_live and persist_snapshot.     *)
(***************************************************************************)
Tick ==
  /\ clock < MaxTime
  /\ clock' = clock + 1
  /\ UNCHANGED <<db, poll, request>>

PollBegin ==
  /\ ~poll.open
  /\ \E n \in 1..MaxClients :
       poll' = [open |-> TRUE, at |-> clock, left |-> n, base |-> db, work |-> db]
  /\ UNCHANGED <<db, clock, request>>

\* One turn of the loop over the clients.  Its SELECTs flush what is pending
\* (so a unique key taken meanwhile fails the poll here) and see what the
\* other sessions have committed by now.
PollClient(o) ==
  /\ poll.open /\ poll.left > 0
  /\ ~Collides(poll)
  /\ LET view == Written(poll)
         d    == Match(view, o)
     IN \E t \in IF d # NoDevice THEN {d} ELSE Device \ view.devices :
          poll' = [poll EXCEPT !.left = @ - 1,
                               !.base = db,
                               !.work = Resolved(view, t, o, poll.at)]
  /\ UNCHANGED <<db, clock, request>>

PollCommit ==
  /\ poll.open /\ poll.left = 0
  /\ ~Collides(poll)
  /\ db' = Written(poll)
  /\ poll' = ClosedSession
  /\ UNCHANGED <<clock, request>>

\* A collision, a database error or the end of the worker rolls back all of it.
PollAbort ==
  /\ poll.open
  /\ poll' = ClosedSession
  /\ UNCHANGED <<db, clock, request>>

(***************************************************************************)
(* A parent confirms that client name n, seen at time at, is device d.     *)
(***************************************************************************)
ConfirmBegin(r, d, n, at) ==
  /\ ~request[r].open
  /\ d \in db.devices
  /\ at <= clock
  /\ request' = [request EXCEPT ![r] =
       [open |-> TRUE, at |-> at, left |-> 0, base |-> db,
        work |-> Confirmed(db, d, {"pihole_client", "hostname"} \X {n}, at)]]
  /\ UNCHANGED <<db, clock, poll>>

ConfirmCommit(r) ==
  /\ request[r].open
  /\ ~Collides(request[r])
  /\ db' = Written(request[r])
  /\ request' = [request EXCEPT ![r] = ClosedSession]
  /\ UNCHANGED <<clock, poll>>

ConfirmAbort(r) ==
  /\ request[r].open
  /\ request' = [request EXCEPT ![r] = ClosedSession]
  /\ UNCHANGED <<db, clock, poll>>

-----------------------------------------------------------------------------
IdentityInit ==
  /\ db = EmptyDatabase
  /\ clock = 0
  /\ poll = ClosedSession
  /\ request = [r \in Request |-> ClosedSession]

PollNext ==
  \/ PollBegin
  \/ \E o \in Observation : PollClient(o)
  \/ PollCommit
  \/ PollAbort

ConfirmNext ==
  \E r \in Request :
    \/ \E d \in Device, n \in Name, at \in 0..MaxTime : ConfirmBegin(r, d, n, at)
    \/ ConfirmCommit(r)
    \/ ConfirmAbort(r)

IdentityNext == Tick \/ PollNext \/ ConfirmNext

IdentitySpec == IdentityInit /\ [][IdentityNext]_identityVars

-----------------------------------------------------------------------------
(***************************************************************************)
(* Properties.                                                             *)
(***************************************************************************)

\* Every variable has its type, and the foreign keys of the committed tables
\* hold: identifiers and address history belong to devices that exist.
IdentityTypeOK ==
  /\ db \in Database
  /\ clock \in Nat
  /\ poll \in Session
  /\ request \in [Request -> Session]
  /\ \A k \in Key : db.owner[k] \in db.devices \cup {NoDevice}
  /\ \A l \in db.leases : l.device \in db.devices

\* A committed device is flagged unknown exactly when no MAC and no UniFi id
\* is bound to it, whatever the order in which sightings and confirmations
\* arrived (the contract in the head of resolver.py).
UnknownExactly ==
  \A d \in db.devices :
    d \in db.unknown <=> \A k \in StrongKey : db.owner[k] # d

Precedes(l, m) == l.to # Open /\ l.to <= m.from

\* An interval that was ended by a sighting older than its own start.
Backdated(l) == l.to # Open /\ l.to < l.from

SameDevice(leases, l) == {m \in leases : m.device = l.device}

Linear(leases) ==
  \A l \in leases :
    LET history == SameDevice(leases, l)
    IN /\ \E m \in history : m.to = Open
       /\ l.to # Open => \E m \in history : m.from = l.to
       /\ \A m \in history \ {l} :
            /\ ~(l.to = Open /\ m.to = Open)
            /\ \/ Precedes(l, m) \/ Precedes(m, l)
               \/ \E k \in history : Backdated(k)

\* The address history of a device is a chain.  It has one open interval, so
\* that the device is on an address ever after; where an interval ends the next
\* one begins; and of two intervals one ends before the other starts, unless
\* the controller once gave that device a time before its latest move.
LeaseHistoryLinear == Linear(db.leases)

\* Nothing in the address history is taken back: an interval may be ended,
\* once, and is otherwise kept as it was recorded.
Continues(l, m) ==
  /\ m.device = l.device /\ m.ip = l.ip /\ m.from = l.from
  /\ m.to = l.to \/ l.to = Open

Recorded(h, g) == \A l \in h : \E m \in g : Continues(l, m)

LeaseHistoryKept == [][Recorded(db.leases, db'.leases)]_identityVars

\* Only a parent moves a binding: once an identifier belongs to a device, no
\* poll takes it away, not even one that read it before the parent's
\* confirmation was committed; and no one moves a MAC or a UniFi id.
OnlyParentMovesBinding ==
  [][\A k \in Key :
       db.owner[k] # NoDevice /\ db'.owner[k] # db.owner[k] =>
         /\ k \in NameKey
         /\ \E r \in Request : /\ request[r].open /\ ~request'[r].open
                               /\ db'.owner[k] = request[r].work.owner[k]]_identityVars
=============================================================================
