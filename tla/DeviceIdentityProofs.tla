------------------------- MODULE DeviceIdentityProofs -------------------------
(***************************************************************************)
(* Proofs about DeviceIdentity, for every set of devices, identifiers,     *)
(* observations and requests.                                              *)
(*                                                                         *)
(* None of the properties is inductive: a poll commits tables it computed  *)
(* over a view that is no longer the committed one.  The strengthening     *)
(* says what a session's two copies still share with the committed tables, *)
(* which is exactly what the other kind of session cannot write.           *)
(***************************************************************************)
EXTENDS DeviceIdentity, TLAPS

\* What one copy of the tables must satisfy.
ForeignKeys(v) ==
  /\ \A k \in Key : v.owner[k] \in v.devices \cup {NoDevice}
  /\ \A l \in v.leases : l.device \in v.devices

FlagsExact(v) ==
  \A d \in v.devices : d \in v.unknown <=> \A k \in StrongKey : v.owner[k] # d

Sound(v) ==
  /\ v \in Database
  /\ ForeignKeys(v)
  /\ FlagsExact(v)
  /\ Linear(v.leases)

\* v and w agree on everything a request never writes.
SamePollOnly(v, w) ==
  /\ v.devices = w.devices
  /\ v.unknown = w.unknown
  /\ v.leases = w.leases
  /\ \A k \in StrongKey : v.owner[k] = w.owner[k]

PollInv ==
  poll.open =>
    /\ SamePollOnly(poll.base, db)
    /\ Sound(poll.work)
    /\ poll.base.devices \subseteq poll.work.devices
    /\ \A k \in Key : poll.base.owner[k] # NoDevice =>
                        poll.work.owner[k] = poll.base.owner[k]

RequestInv ==
  \A r \in Request : request[r].open =>
    /\ SamePollOnly(request[r].work, request[r].base)
    /\ request[r].base.devices \subseteq db.devices
    /\ \A k \in Key : request[r].work.owner[k] # request[r].base.owner[k] =>
                        k \in NameKey /\ request[r].work.owner[k] \in db.devices

IdentityInv ==
  /\ clock \in Nat
  /\ poll \in Session
  /\ request \in [Request -> Session]
  /\ Sound(db)
  /\ PollInv
  /\ RequestInv
-----------------------------------------------------------------------------
(***************************************************************************)
(* Keys.                                                                   *)
(***************************************************************************)

\* Names are never strong identifiers: what a parent may move and what the
\* resolver matches by are different keys.
LEMMA NamesAreWeak == NameKey \cap StrongKey = {}
BY DEF NameKey, StrongKey, MacKey, ClientIdKey

LEMMA KeyParts == StrongKey \subseteq Key /\ NameKey \subseteq Key
BY DEF Key

\* The device a sighting is matched to is one the view knows.
LEMMA MatchType ==
  ASSUME NEW v \in Database, ForeignKeys(v), NEW o \in Observation
  PROVE  Match(v, o) \in v.devices \cup {NoDevice}
<1>1. o.mac \in Mac \cup {Absent} /\ o.cid \in ClientId \cup {Absent}
  BY IdentityAssumption
<1>2. o.mac # Absent => <<"mac", o.mac>> \in Key
  BY <1>1 DEF Key, StrongKey, MacKey
<1>3. o.cid # Absent => <<"unifi_client_id", o.cid>> \in Key
  BY <1>1 DEF Key, StrongKey, ClientIdKey
<1>4. QED
  BY <1>2, <1>3 DEF Match, ForeignKeys
-----------------------------------------------------------------------------
(***************************************************************************)
(* The resolver.                                                           *)
(***************************************************************************)

\* Binding observed identifiers to d keeps every binding there was.
LEMMA BoundKeeps ==
  ASSUME NEW v \in Database, NEW d \in Device, NEW K \in SUBSET Key, NEW first \in Nat
  PROVE  LET b == Bound(v, d, K, first)
         IN /\ b \in Database
            /\ b.devices = v.devices /\ b.leases = v.leases /\ b.unknown = v.unknown
            /\ \A k \in Key : b.owner[k] = IF k \in K /\ v.owner[k] = NoDevice
                                           THEN d ELSE v.owner[k]
<1> DEFINE free == {k \in K : v.owner[k] = NoDevice}
           own == {k \in K : v.owner[k] = d}
           owner == [k \in Key |-> IF k \in free THEN d ELSE v.owner[k]]
           since == [k \in Key |-> IF k \in free THEN first
                                 ELSE IF k \in own THEN Smaller(first, v.since[k])
                                 ELSE v.since[k]]
           confidence == [k \in Key |-> IF k \in free \cup own
                                      THEN ObservedConfidence(k) ELSE v.confidence[k]]
<1>1. owner \in [Key -> Device \cup {NoDevice}]
  BY DEF Database
<1>2. since \in [Key -> Nat]
  BY DEF Database, Smaller
<1>3. confidence \in [Key -> 0..10]
  BY DEF Database, ObservedConfidence
<1>4. Bound(v, d, K, first) = [v EXCEPT !.owner = owner, !.since = since, !.confidence = confidence]
  BY DEF Bound
<1>5. Bound(v, d, K, first) =
        [devices |-> v.devices, owner |-> owner, since |-> since,
         confidence |-> confidence, unknown |-> v.unknown, leases |-> v.leases]
  BY <1>4 DEF Database
<1> HIDE DEF owner, since, confidence
<1>6. Bound(v, d, K, first) \in Database
  BY <1>1, <1>2, <1>3, <1>5 DEF Database
<1>7. \A k \in Key : owner[k] = IF k \in K /\ v.owner[k] = NoDevice THEN d ELSE v.owner[k]
  BY DEF owner
<1>8. QED
  BY <1>5, <1>6, <1>7

\* A device has at most one open interval.
LEMMA OneOpen ==
  ASSUME NEW leases \in SUBSET Lease, NEW d \in Device, Linear(leases)
  PROVE  \A l, m \in OpenLeases(leases, d) : l = m
BY DEF OpenLeases, Linear, SameDevice

\* A device's address history stays a chain whatever time it is seen at.
LEMMA AssignedLinear ==
  ASSUME NEW leases \in SUBSET Lease, NEW d \in Device, NEW ip \in Ip, NEW t \in Nat,
         Linear(leases)
  PROVE  LET a == Assigned(leases, d, ip, t)
         IN /\ a \in SUBSET Lease
            /\ Linear(a)
            /\ \A l \in a : l.device = d \/ l \in leases
<1> DEFINE open == OpenLeases(leases, d)
           current == CHOOSE l \in open : \A m \in open : m.from <= l.from
           new == [device |-> d, ip |-> ip, from |-> t, to |-> Open]
<1>1. new \in Lease
  BY DEF Lease
<1>2. \A l, m \in open : l = m
  BY OneOpen
<1>3. \A l \in leases : l \in Lease /\ l.from \in Nat /\ (l.to # Open => l.to \in Nat)
  BY DEF Lease
<1>4. CASE open = {}
  <2>1. Assigned(leases, d, ip, t) = leases \cup {new}
    BY <1>4 DEF Assigned
  <2>2. \A l \in leases : l.device # d
    BY <1>4 DEF OpenLeases, Linear, SameDevice
  <2>3. Linear(leases \cup {new})
    BY <2>2 DEF Linear, SameDevice
  <2>4. QED
    BY <1>1, <2>1, <2>3
<1>5. CASE open # {}
  <2>1. PICK c \in open : TRUE
    BY <1>5
  <2>2. c \in leases /\ c.device = d /\ c.to = Open /\ c \in Lease
    BY <2>1 DEF OpenLeases
  <2>3. \A m \in open : m.from <= c.from
    BY <1>2, <2>1, <2>2 DEF Lease
  <2>4. current = c
    BY <1>2, <2>1, <2>3
  <2>5. CASE c.ip = ip
    BY <1>5, <2>4, <2>5 DEF Assigned
  <2>6. CASE c.ip # ip
    <3> DEFINE done == [device |-> d, ip |-> c.ip, from |-> c.from, to |-> t]
               a == ((leases \ {c}) \cup {done}) \cup {new}
    <3>1. [c EXCEPT !.to = t] = done
      BY <2>2 DEF Lease
    <3>2. done \in Lease /\ t # Open
      BY <2>2, IdentityAssumption DEF Lease
    <3>3. Assigned(leases, d, ip, t) = a
      BY <1>5, <2>4, <2>6, <3>1 DEF Assigned
    <3>4. /\ done.device = d /\ done.from = c.from /\ done.to = t
          /\ new.device = d /\ new.from = t /\ new.to = Open
      OBVIOUS
    <3> HIDE DEF done, new
    <3>5. ASSUME NEW l \in leases, l # c PROVE l.to = Open => l.device # d
      BY <1>2, <2>1, <3>5 DEF OpenLeases
    <3>6. ASSUME NEW l \in a PROVE \E m \in SameDevice(a, l) : m.to = Open
      <4>1. CASE l.device = d
        BY <3>4, <4>1 DEF SameDevice
      <4>2. CASE l.device # d
        <5>1. l \in leases
          BY <3>4, <4>2
        <5>2. PICK m \in leases : m.device = l.device /\ m.to = Open
          BY <5>1 DEF Linear, SameDevice
        <5>3. QED
          BY <2>2, <4>2, <5>2 DEF SameDevice
      <4>3. QED
        BY <4>1, <4>2
    <3>7. ASSUME NEW l \in a, l.to # Open PROVE \E m \in SameDevice(a, l) : m.from = l.to
      <4>1. CASE l = done
        BY <3>4, <4>1 DEF SameDevice
      <4>2. CASE l \in leases
        <5>1. PICK m \in leases : m.device = l.device /\ m.from = l.to
          BY <3>7, <4>2 DEF Linear, SameDevice
        <5>2. QED
          BY <2>2, <3>4, <5>1 DEF SameDevice
      <4>3. QED
        BY <3>4, <3>7, <4>1, <4>2
    <3>8. ASSUME NEW l \in a, NEW m \in SameDevice(a, l) \ {l}
          PROVE  /\ ~(l.to = Open /\ m.to = Open)
                 /\ \/ Precedes(l, m) \/ Precedes(m, l)
                    \/ \E k \in SameDevice(a, l) : Backdated(k)
      <4>1. m \in a /\ m.device = l.device /\ m # l
        BY DEF SameDevice
      <4>2. CASE l.device # d
        <5>1. l \in leases /\ m \in SameDevice(leases, l) \ {l}
          BY <3>4, <4>1, <4>2 DEF SameDevice
        <5>2. /\ ~(l.to = Open /\ m.to = Open)
              /\ \/ Precedes(l, m) \/ Precedes(m, l)
                 \/ \E k \in SameDevice(leases, l) : Backdated(k)
          BY <5>1 DEF Linear
        <5>3. SameDevice(leases, l) \subseteq SameDevice(a, l)
          BY <2>2, <4>2 DEF SameDevice
        <5>4. QED
          BY <5>2, <5>3
      <4>3. CASE l.device = d
        <5>1. ~(l.to = Open /\ m.to = Open)
          BY <3>2, <3>4, <3>5, <4>1, <4>3
        <5>2. CASE \E k \in leases : k.device = d /\ Backdated(k)
          <6>1. PICK k \in leases : k.device = d /\ Backdated(k)
            BY <5>2
          <6>2. k \in SameDevice(a, l)
            BY <2>2, <4>3, <6>1 DEF SameDevice, Backdated
          <6>3. QED
            BY <5>1, <6>1, <6>2
        <5>3. CASE t < c.from
          <6>1. done \in SameDevice(a, l) /\ Backdated(done)
            BY <3>2, <3>4, <4>3, <5>3 DEF SameDevice, Backdated
          <6>2. QED
            BY <5>1, <6>1
        <5>4. CASE /\ ~(\E k \in leases : k.device = d /\ Backdated(k))
                   /\ c.from <= t
          <6>1. ASSUME NEW k \in leases, k # c, k.device = d
                PROVE  k.to # Open /\ k.to \in Nat /\ k.to <= c.from
            <7>1. c \in SameDevice(leases, k) \ {k}
              BY <2>2, <6>1 DEF SameDevice
            <7>2. Precedes(k, c) \/ Precedes(c, k)
              BY <5>4, <6>1, <7>1 DEF Linear, SameDevice
            <7>3. QED
              BY <1>3, <2>2, <6>1, <7>2 DEF Precedes
          <6>2. \A k \in leases : k # c /\ k.device = d => Precedes(k, done) /\ Precedes(k, new)
            BY <1>3, <2>2, <3>4, <5>4, <6>1 DEF Precedes
          <6>3. Precedes(done, new)
            BY <3>2, <3>4 DEF Precedes
          <6>4. CASE l \in leases \ {c} /\ m \in leases \ {c}
            BY <4>1, <4>3, <5>1, <5>4, <6>4 DEF Linear, SameDevice
          <6>5. QED
            BY <4>1, <4>3, <5>1, <6>2, <6>3, <6>4
        <5>5. QED
          BY <2>2, <5>2, <5>3, <5>4 DEF Lease
      <4>4. QED
        BY <4>2, <4>3
    <3>9. Linear(a)
      <4> HIDE DEF a
      <4>1. QED
        BY <3>6, <3>7, <3>8 DEF Linear
    <3>10. QED
      BY <1>1, <2>2, <3>2, <3>3, <3>4, <3>9 DEF new
  <2>7. QED
    BY <2>5, <2>6
<1>6. QED
  BY <1>4, <1>5

\* An address history that was recorded stays recorded.
LEMMA RecordedOrder ==
  ASSUME NEW g, NEW h, NEW k
  PROVE  Recorded(g, g) /\ (Recorded(g, h) /\ Recorded(h, k) => Recorded(g, k))
BY DEF Recorded, Continues

LEMMA AssignedRecords ==
  ASSUME NEW leases \in SUBSET Lease, NEW d \in Device, NEW ip \in Ip, NEW t \in Nat,
         Linear(leases)
  PROVE  Recorded(leases, Assigned(leases, d, ip, t))
<1> DEFINE open == OpenLeases(leases, d)
           current == CHOOSE l \in open : \A m \in open : m.from <= l.from
           new == [device |-> d, ip |-> ip, from |-> t, to |-> Open]
<1>1. \A l, m \in open : l = m
  BY OneOpen
<1>2. CASE open = {}
  BY <1>2 DEF Assigned, Recorded, Continues
<1>3. CASE open # {}
  <2>1. PICK c \in open : TRUE
    BY <1>3
  <2>2. c \in leases /\ c.to = Open /\ c \in Lease
    BY <2>1 DEF OpenLeases
  <2>3. \A m \in open : m.from <= c.from
    BY <1>1, <2>1, <2>2 DEF Lease
  <2>4. current = c
    BY <1>1, <2>1, <2>3
  <2> DEFINE done == [c EXCEPT !.to = t]
  <2>5. Continues(c, done)
    BY <2>2 DEF Continues, Lease
  <2>6. \/ Assigned(leases, d, ip, t) = leases
        \/ Assigned(leases, d, ip, t) = ((leases \ {c}) \cup {done}) \cup {new}
    BY <1>3, <2>4 DEF Assigned
  <2> HIDE DEF done, new
  <2>7. QED
    BY <2>5, <2>6 DEF Recorded, Continues
<1>4. QED
  BY <1>2, <1>3
\* The times of a sighting are numbers, whichever of them the controller sent.
LEMMA SeenTimes ==
  ASSUME NEW o \in Observation, NEW now \in Nat
  PROVE  FirstSeen(o, now) \in Nat /\ LastSeen(o, now) \in Nat
<1>1. o.first \in Nat \cup {Absent} /\ o.last \in Nat \cup {Absent}
  BY IdentityAssumption
<1>2. Stamp(o.first, now) \in Nat /\ Stamp(o.last, now) \in Nat
  BY <1>1 DEF Stamp
<1>3. QED
  BY <1>2 DEF FirstSeen, LastSeen, Smaller, Larger

\* Resolving a sighting onto a device, known or just created, keeps the
\* tables sound and every binding where it was.
LEMMA ResolvedSound ==
  ASSUME NEW v, NEW now \in Nat, Sound(v), NEW d \in Device, NEW o \in Observation
  PROVE  LET w == Resolved(v, d, o, now)
         IN /\ Sound(w)
            /\ v.devices \subseteq w.devices
            /\ \A k \in Key : v.owner[k] # NoDevice => w.owner[k] = v.owner[k]
<1> DEFINE known == [v EXCEPT !.devices = @ \cup {d}]
           K == ObservedKeys(o)
           t == LastSeen(o, now)
           b == Bound(known, d, K, FirstSeen(o, now))
           leases == IF o.ip = Absent THEN b.leases ELSE Assigned(b.leases, d, o.ip, t)
           w == [devices |-> b.devices, owner |-> b.owner, since |-> b.since,
                 confidence |-> b.confidence, unknown |-> Flagged(b, d), leases |-> leases]
<1>1. /\ FirstSeen(o, now) \in Nat /\ t \in Nat
      /\ o.ip \in Ip \cup {Absent} /\ K \in SUBSET Key
  BY SeenTimes, IdentityAssumption DEF ObservedKeys
<1> HIDE DEF t
<1>2. /\ known \in Database /\ known.devices = v.devices \cup {d} /\ known.owner = v.owner
      /\ known.leases = v.leases /\ known.unknown = v.unknown
  BY DEF Sound, Database
<1>3. /\ b \in Database
      /\ b.devices = v.devices \cup {d} /\ b.leases = v.leases /\ b.unknown = v.unknown
      /\ \A k \in Key : b.owner[k] = IF k \in K /\ v.owner[k] = NoDevice
                                     THEN d ELSE v.owner[k]
  <2> HIDE DEF known, K, b
  <2>1. /\ b \in Database
        /\ b.devices = known.devices /\ b.leases = known.leases /\ b.unknown = known.unknown
        /\ \A k \in Key : b.owner[k] = IF k \in K /\ known.owner[k] = NoDevice
                                       THEN d ELSE known.owner[k]
    BY <1>1, <1>2, BoundKeeps DEF b
  <2>2. QED
    BY <1>2, <2>1
<1> HIDE DEF b
<1>4. Resolved(v, d, o, now) = w
  <2>1. Resolved(v, d, o, now) = [b EXCEPT !.leases = leases, !.unknown = Flagged(b, d)]
    BY DEF Resolved, b, t
  <2> HIDE DEF leases
  <2>2. QED
    BY <2>1, <1>3 DEF Database
<1>5. /\ leases \in SUBSET Lease /\ Linear(leases)
      /\ \A l \in leases : l.device = d \/ l \in v.leases
  <2>1. v.leases \in SUBSET Lease /\ Linear(v.leases)
    BY DEF Sound, Database
  <2>2. CASE o.ip = Absent
    BY <1>3, <2>1, <2>2
  <2>3. CASE o.ip # Absent
    <3>1. o.ip \in Ip
      BY <1>1, <2>3
    <3>2. leases = Assigned(v.leases, d, o.ip, t)
      BY <1>3, <2>3
    <3>3. QED
      BY <1>1, <2>1, <3>1, <3>2, AssignedLinear
  <2>4. QED
    BY <2>2, <2>3
<1> HIDE DEF leases
<1>6. Flagged(b, d) \in SUBSET Device
  BY <1>3 DEF Flagged, Database
<1>7. w \in Database
  BY <1>3, <1>5, <1>6 DEF Database
<1>8. ForeignKeys(w)
  BY <1>3, <1>5 DEF ForeignKeys, Sound
<1>9. FlagsExact(w)
  <2>1. d # NoDevice
    BY IdentityAssumption
  <2>2. \A e \in v.devices : e # d =>
          \A k \in StrongKey : b.owner[k] = e <=> v.owner[k] = e
    BY <1>3, <2>1, KeyParts, IdentityAssumption DEF Sound, Database
  <2>3. \A e \in v.devices : e # d => (e \in Flagged(b, d) <=> e \in v.unknown)
    BY <1>3 DEF Flagged
  <2>4. d \in Flagged(b, d) <=> \A k \in StrongKey : b.owner[k] # d
    BY DEF Flagged
  <2>5. QED
    BY <1>3, <2>2, <2>3, <2>4 DEF FlagsExact, Sound
<1>10. QED
  BY <1>3, <1>4, <1>5, <1>7, <1>8, <1>9 DEF Sound
\* Resolving a sighting takes nothing back from the address history.
LEMMA ResolvedRecords ==
  ASSUME NEW v, NEW now \in Nat, Sound(v), NEW d \in Device, NEW o \in Observation
  PROVE  Recorded(v.leases, Resolved(v, d, o, now).leases)
<1> DEFINE known == [v EXCEPT !.devices = @ \cup {d}]
           K == ObservedKeys(o)
           t == LastSeen(o, now)
           b == Bound(known, d, K, FirstSeen(o, now))
<1>1. /\ FirstSeen(o, now) \in Nat /\ t \in Nat
      /\ o.ip \in Ip \cup {Absent} /\ K \in SUBSET Key
  BY SeenTimes, IdentityAssumption DEF ObservedKeys
<1> HIDE DEF t
<1>2. known \in Database /\ known.leases = v.leases
  BY DEF Sound, Database
<1> HIDE DEF known, K
<1>3. b \in Database /\ b.leases = v.leases
  BY <1>1, <1>2, BoundKeeps
<1>4. v.leases \in SUBSET Lease /\ Linear(v.leases)
  BY DEF Sound, Database
<1> HIDE DEF b
<1>5. Resolved(v, d, o, now).leases = IF o.ip = Absent THEN v.leases
                                    ELSE Assigned(v.leases, d, o.ip, t)
  <2>1. Resolved(v, d, o, now) =
          [b EXCEPT !.leases = IF o.ip = Absent THEN b.leases
                               ELSE Assigned(b.leases, d, o.ip, t),
                    !.unknown = Flagged(b, d)]
    BY DEF Resolved, b, known, K, t
  <2>2. QED
    BY <1>3, <2>1 DEF Database
<1>6. QED
  BY <1>1, <1>4, <1>5, AssignedRecords, RecordedOrder
-----------------------------------------------------------------------------
(***************************************************************************)
(* Commits.                                                                *)
(***************************************************************************)

LEMMA WrittenType ==
  ASSUME NEW s \in Session, db \in Database
  PROVE  Written(s) \in Database
BY DEF Written, Session, Database, MergedColumn, MergedRows

\* What a poll is about to write is sound, and takes no identifier away.
LEMMA PollWritten ==
  ASSUME IdentityInv, poll.open, ~Collides(poll)
  PROVE  /\ Sound(Written(poll))
         /\ db.devices \subseteq Written(poll).devices
         /\ \A k \in Key : db.owner[k] # NoDevice => Written(poll).owner[k] = db.owner[k]
<1> DEFINE W == Written(poll)
<1>1. /\ W \in Database /\ db \in Database
      /\ poll.base \in Database /\ poll.work \in Database /\ poll.at \in Nat
  BY WrittenType DEF IdentityInv, Sound, Session
<1>2. /\ SamePollOnly(poll.base, db) /\ Sound(poll.work)
      /\ poll.base.devices \subseteq poll.work.devices
      /\ \A k \in Key : poll.base.owner[k] # NoDevice =>
                          poll.work.owner[k] = poll.base.owner[k]
  BY DEF IdentityInv, PollInv
<1>3. W.devices = poll.work.devices /\ db.devices \subseteq W.devices
  BY <1>2 DEF Written, SamePollOnly
<1>4. W.unknown = poll.work.unknown /\ W.leases = poll.work.leases
  BY <1>2 DEF Written, SamePollOnly, MergedRows
<1>5. \A k \in Key : W.owner[k] = IF poll.work.owner[k] # poll.base.owner[k]
                                  THEN poll.work.owner[k] ELSE db.owner[k]
  BY DEF Written, MergedColumn
<1>6. \A k \in StrongKey : W.owner[k] = poll.work.owner[k]
  BY <1>2, <1>5, KeyParts DEF SamePollOnly
<1>7. \A k \in Key : db.owner[k] # NoDevice => W.owner[k] = db.owner[k]
  BY <1>2, <1>5 DEF Collides
<1>8. ForeignKeys(W)
  BY <1>2, <1>3, <1>4, <1>5 DEF ForeignKeys, Sound, IdentityInv
<1>9. FlagsExact(W)
  BY <1>2, <1>3, <1>4, <1>6 DEF FlagsExact, Sound
<1>10. QED
  BY <1>1, <1>2, <1>3, <1>4, <1>7, <1>8, <1>9 DEF Sound

\* A request writes names only, and gives them to devices that exist.
LEMMA RequestWritten ==
  ASSUME IdentityInv, NEW r \in Request, request[r].open
  PROVE  /\ Written(request[r]) \in Database
         /\ SamePollOnly(Written(request[r]), db)
         /\ \A k \in Key : Written(request[r]).owner[k] # db.owner[k] =>
              /\ k \in NameKey
              /\ Written(request[r]).owner[k] = request[r].work.owner[k]
              /\ request[r].work.owner[k] \in db.devices
<1> DEFINE s == request[r]
           W == Written(s)
<1>1. s \in Session /\ db \in Database
  BY DEF IdentityInv, Sound
<1>2. /\ SamePollOnly(s.work, s.base) /\ s.base.devices \subseteq db.devices
      /\ \A k \in Key : s.work.owner[k] # s.base.owner[k] =>
                          k \in NameKey /\ s.work.owner[k] \in db.devices
  BY DEF IdentityInv, RequestInv
<1>3. W \in Database
  BY <1>1, WrittenType
<1>4. \A k \in Key : W.owner[k] = IF s.work.owner[k] # s.base.owner[k]
                                  THEN s.work.owner[k] ELSE db.owner[k]
  BY DEF Written, MergedColumn
<1>5. W.devices = db.devices
  BY <1>2 DEF Written, SamePollOnly
<1>6. W.unknown = db.unknown /\ W.leases = db.leases
  BY <1>2 DEF Written, SamePollOnly, MergedRows
<1>7. \A k \in StrongKey : W.owner[k] = db.owner[k]
  BY <1>2, <1>4, KeyParts DEF SamePollOnly
<1>8. QED
  BY <1>2, <1>3, <1>4, <1>5, <1>6, <1>7 DEF SamePollOnly
-----------------------------------------------------------------------------
(***************************************************************************)
(* The invariant.                                                          *)
(***************************************************************************)

LEMMA EmptySound ==
  Sound(EmptyDatabase) /\ ClosedSession \in Session
<1>1. EmptyDatabase \in Database
  BY DEF EmptyDatabase, Database
<1>2. QED
  BY <1>1 DEF Sound, EmptyDatabase, ForeignKeys, FlagsExact, Linear,
              ClosedSession, Session

LEMMA InitInv == IdentityInit => IdentityInv
<1> SUFFICES ASSUME IdentityInit PROVE IdentityInv
  OBVIOUS
<1>1. clock = 0 /\ db = EmptyDatabase /\ poll = ClosedSession
  BY DEF IdentityInit
<1>2. Sound(db) /\ ClosedSession \in Session
  BY <1>1, EmptySound
<1>3. ~ClosedSession.open
  BY DEF ClosedSession
<1>4. request \in [Request -> Session] /\ \A r \in Request : ~request[r].open
  BY <1>2, <1>3 DEF IdentityInit
<1>5. QED
  BY <1>1, <1>2, <1>3, <1>4 DEF IdentityInv, PollInv, RequestInv

LEMMA PollBeginInv == IdentityInv /\ PollBegin => IdentityInv'
<1> SUFFICES ASSUME IdentityInv, PollBegin PROVE IdentityInv'
  OBVIOUS
<1>1. PICK n \in 1..MaxClients :
        poll' = [open |-> TRUE, at |-> clock, left |-> n, base |-> db, work |-> db]
  BY DEF PollBegin
<1>2. UNCHANGED <<db, clock, request>>
  BY DEF PollBegin
<1>3. poll' \in Session
  BY <1>1, IdentityAssumption DEF IdentityInv, Sound, Session
<1>4. PollInv'
  BY <1>1, <1>2 DEF IdentityInv, PollInv, SamePollOnly
<1>5. QED
  BY <1>2, <1>3, <1>4 DEF IdentityInv, RequestInv

LEMMA PollClientInv ==
  ASSUME NEW o \in Observation PROVE IdentityInv /\ PollClient(o) => IdentityInv'
<1> SUFFICES ASSUME IdentityInv, PollClient(o) PROVE IdentityInv'
  OBVIOUS
<1> DEFINE view == Written(poll)
           d == Match(view, o)
<1>1. /\ poll.open /\ ~Collides(poll) /\ poll.left > 0
      /\ UNCHANGED <<db, clock, request>>
  BY DEF PollClient
<1>2. PICK t \in IF d # NoDevice THEN {d} ELSE Device \ view.devices :
        poll' = [poll EXCEPT !.left = @ - 1, !.base = db,
                             !.work = Resolved(view, t, o, poll.at)]
  BY DEF PollClient
<1>3. /\ poll \in Session /\ poll.at \in Nat /\ poll.left \in Nat
      /\ db \in Database
  BY <1>1 DEF IdentityInv, PollInv, Session, Sound
<1>4. /\ Sound(view) /\ db.devices \subseteq view.devices
      /\ \A k \in Key : db.owner[k] # NoDevice => view.owner[k] = db.owner[k]
  BY <1>1, PollWritten
<1>5. t \in Device
  BY <1>2, <1>4, MatchType DEF Sound, Database
<1> HIDE DEF view, d
<1> DEFINE w == Resolved(view, t, o, poll.at)
<1>6. /\ Sound(w) /\ view.devices \subseteq w.devices
      /\ \A k \in Key : view.owner[k] # NoDevice => w.owner[k] = view.owner[k]
  BY <1>3, <1>4, <1>5, ResolvedSound
<1> HIDE DEF w
<1>7. poll' = [open |-> TRUE, at |-> poll.at, left |-> poll.left - 1, base |-> db, work |-> w]
  BY <1>1, <1>2, <1>3 DEF Session, w
<1>8. poll' \in Session
  BY <1>1, <1>3, <1>6, <1>7 DEF Session, Sound
<1>9. PollInv'
  BY <1>1, <1>3, <1>4, <1>6, <1>7 DEF PollInv, SamePollOnly
<1>10. QED
  BY <1>1, <1>8, <1>9 DEF IdentityInv, RequestInv

LEMMA PollCommitInv == IdentityInv /\ PollCommit => IdentityInv'
<1> SUFFICES ASSUME IdentityInv, PollCommit PROVE IdentityInv'
  OBVIOUS
<1>1. /\ poll.open /\ ~Collides(poll) /\ db' = Written(poll)
      /\ poll' = ClosedSession /\ UNCHANGED <<clock, request>>
  BY DEF PollCommit
<1>2. Sound(db') /\ db.devices \subseteq db'.devices
  BY <1>1, PollWritten
<1>3. RequestInv'
  BY <1>1, <1>2 DEF IdentityInv, RequestInv
<1>4. QED
  BY <1>1, <1>2, <1>3, EmptySound DEF IdentityInv, PollInv, ClosedSession

\* What a request makes of the tables it read.
LEMMA ConfirmedShape ==
  ASSUME NEW v \in Database, NEW d \in v.devices, NEW n \in Name, NEW at \in Nat
  PROVE  LET w == Confirmed(v, d, {"pihole_client", "hostname"} \X {n}, at)
         IN /\ w \in Database /\ SamePollOnly(w, v)
            /\ \A k \in Key : w.owner[k] # v.owner[k] =>
                                k \in NameKey /\ w.owner[k] = d
<1> DEFINE K == {"pihole_client", "hostname"} \X {n}
           M == K \ {k \in K \cap StrongKey : v.owner[k] \notin {d, NoDevice}}
           owner == [k \in Key |-> IF k \in M THEN d ELSE v.owner[k]]
           since == [k \in Key |-> IF k \notin M THEN v.since[k]
                                 ELSE IF v.owner[k] = NoDevice THEN at
                                 ELSE Smaller(at, v.since[k])]
           confidence == [k \in Key |-> IF k \in M THEN ConfirmedConfidence(k)
                                      ELSE v.confidence[k]]
           w == [devices |-> v.devices, owner |-> owner, since |-> since,
                 confidence |-> confidence, unknown |-> v.unknown, leases |-> v.leases]
<1>1. K \subseteq NameKey
  BY DEF NameKey
<1>2. d \in Device
  BY DEF Database
<1>3. owner \in [Key -> Device \cup {NoDevice}]
  BY <1>2 DEF Database
<1>4. since \in [Key -> Nat]
  BY DEF Database, Smaller
<1>5. confidence \in [Key -> 0..10]
  BY DEF Database, ConfirmedConfidence
<1>6. Confirmed(v, d, K, at) = [v EXCEPT !.owner = owner, !.since = since, !.confidence = confidence]
  BY DEF Confirmed
<1>7. M \subseteq NameKey
  BY <1>1
<1>8. \A k \in Key : owner[k] # v.owner[k] => k \in NameKey /\ owner[k] = d
  BY <1>7
<1>9. \A k \in StrongKey : owner[k] = v.owner[k]
  BY <1>7, NamesAreWeak, KeyParts
<1> HIDE DEF owner, since, confidence, K
<1>10. Confirmed(v, d, K, at) = w
  BY <1>6 DEF Database
<1>11. w \in Database
  BY <1>3, <1>4, <1>5 DEF Database
<1>12. SamePollOnly(w, v) /\ w.owner = owner
  BY <1>9 DEF SamePollOnly
<1> HIDE DEF w
<1>13. QED
  BY <1>8, <1>10, <1>11, <1>12 DEF K

LEMMA ConfirmBeginInv ==
  ASSUME NEW r \in Request, NEW d \in Device, NEW n \in Name, NEW at \in 0..MaxTime
  PROVE  IdentityInv /\ ConfirmBegin(r, d, n, at) => IdentityInv'
<1> SUFFICES ASSUME IdentityInv, ConfirmBegin(r, d, n, at) PROVE IdentityInv'
  OBVIOUS
<1> DEFINE w == Confirmed(db, d, {"pihole_client", "hostname"} \X {n}, at)
           s == [open |-> TRUE, at |-> at, left |-> 0, base |-> db, work |-> w]
<1>1. /\ request' = [request EXCEPT ![r] = s] /\ d \in db.devices
      /\ UNCHANGED <<db, clock, poll>>
  BY DEF ConfirmBegin
<1>2. db \in Database /\ at \in Nat /\ request \in [Request -> Session]
  BY IdentityAssumption DEF IdentityInv, Sound
<1>3. /\ w \in Database /\ SamePollOnly(w, db)
      /\ \A k \in Key : w.owner[k] # db.owner[k] => k \in NameKey /\ w.owner[k] = d
  BY <1>1, <1>2, ConfirmedShape
<1> HIDE DEF w
<1>4. s \in Session
  BY <1>2, <1>3 DEF Session
<1>5. request' \in [Request -> Session]
  BY <1>1, <1>2, <1>4
<1>6. RequestInv'
  <2> SUFFICES ASSUME NEW q \in Request, request'[q].open
               PROVE  /\ SamePollOnly(request'[q].work, request'[q].base)
                      /\ request'[q].base.devices \subseteq db'.devices
                      /\ \A k \in Key : request'[q].work.owner[k] # request'[q].base.owner[k] =>
                           k \in NameKey /\ request'[q].work.owner[k] \in db'.devices
    BY DEF RequestInv
  <2>1. CASE q = r
    BY <1>1, <1>2, <1>3, <2>1
  <2>2. CASE q # r
    BY <1>1, <1>2, <2>2 DEF IdentityInv, RequestInv
  <2>3. QED
    BY <2>1, <2>2
<1>7. QED
  BY <1>1, <1>5, <1>6 DEF IdentityInv, PollInv

\* Ending a request, written back or not, leaves the other sessions' part of
\* the invariant alone.
LEMMA CloseRequest ==
  ASSUME IdentityInv, NEW r \in Request,
         request' = [request EXCEPT ![r] = ClosedSession],
         db.devices \subseteq db'.devices
  PROVE  request' \in [Request -> Session] /\ RequestInv'
<1>1. request \in [Request -> Session]
  BY DEF IdentityInv
<1>2. \A q \in Request : request'[q].open => q # r /\ request'[q] = request[q]
  BY <1>1 DEF ClosedSession
<1>3. request' \in [Request -> Session]
  BY <1>1, EmptySound
<1>4. QED
  BY <1>2, <1>3 DEF IdentityInv, RequestInv

LEMMA ConfirmCommitInv ==
  ASSUME NEW r \in Request PROVE IdentityInv /\ ConfirmCommit(r) => IdentityInv'
<1> SUFFICES ASSUME IdentityInv, ConfirmCommit(r) PROVE IdentityInv'
  OBVIOUS
<1>1. /\ request[r].open /\ db' = Written(request[r])
      /\ request' = [request EXCEPT ![r] = ClosedSession] /\ UNCHANGED <<clock, poll>>
  BY DEF ConfirmCommit
<1>2. /\ db' \in Database /\ SamePollOnly(db', db)
      /\ \A k \in Key : db'.owner[k] # db.owner[k] =>
                          k \in NameKey /\ db'.owner[k] \in db.devices
  BY <1>1, RequestWritten
<1>3. Sound(db)
  BY DEF IdentityInv
<1>4. ForeignKeys(db')
  BY <1>2, <1>3 DEF ForeignKeys, Sound, SamePollOnly
<1>5. FlagsExact(db')
  BY <1>2, <1>3 DEF FlagsExact, Sound, SamePollOnly
<1>6. Sound(db')
  BY <1>2, <1>3, <1>4, <1>5 DEF Sound, SamePollOnly
<1>7. PollInv'
  BY <1>1, <1>2 DEF IdentityInv, PollInv, SamePollOnly
<1>8. QED
  BY <1>1, <1>2, <1>6, <1>7, CloseRequest DEF IdentityInv, SamePollOnly
LEMMA StepInv == IdentityInv /\ [IdentityNext]_identityVars => IdentityInv'
<1> SUFFICES ASSUME IdentityInv, [IdentityNext]_identityVars PROVE IdentityInv'
  OBVIOUS
<1>1. CASE UNCHANGED identityVars
  BY <1>1 DEF identityVars, IdentityInv, PollInv, RequestInv
<1>2. CASE Tick
  <2>1. clock' = clock + 1 /\ UNCHANGED <<db, poll, request>>
    BY <1>2 DEF Tick
  <2>2. QED
    BY <2>1 DEF IdentityInv, PollInv, RequestInv
<1>3. CASE PollBegin
  BY <1>3, PollBeginInv
<1>4. ASSUME NEW o \in Observation, PollClient(o) PROVE IdentityInv'
  BY <1>4, PollClientInv
<1>5. CASE PollCommit
  BY <1>5, PollCommitInv
<1>6. CASE PollAbort
  BY <1>6, EmptySound DEF PollAbort, IdentityInv, PollInv, RequestInv, ClosedSession
<1>7. ASSUME NEW r \in Request, NEW d \in Device, NEW n \in Name, NEW at \in 0..MaxTime,
             ConfirmBegin(r, d, n, at)
      PROVE  IdentityInv'
  BY <1>7, ConfirmBeginInv
<1>8. ASSUME NEW r \in Request, ConfirmCommit(r) PROVE IdentityInv'
  BY <1>8, ConfirmCommitInv
<1>9. ASSUME NEW r \in Request, ConfirmAbort(r) PROVE IdentityInv'
  <2>1. /\ request' = [request EXCEPT ![r] = ClosedSession]
        /\ UNCHANGED <<db, clock, poll>>
    BY <1>9 DEF ConfirmAbort
  <2>2. request' \in [Request -> Session] /\ RequestInv'
    BY <2>1, CloseRequest
  <2>3. QED
    BY <2>1, <2>2 DEF IdentityInv, PollInv
<1>10. QED
  BY <1>1, <1>2, <1>3, <1>4, <1>5, <1>6, <1>7, <1>8, <1>9
  DEF IdentityNext, PollNext, ConfirmNext

\* Every reachable state satisfies the strengthened invariant.
THEOREM IdentityInvariant == IdentitySpec => []IdentityInv
BY InitInv, StepInv, PTL DEF IdentitySpec

\* The tables and the sessions keep their types, and no identifier and no
\* interval of address history belongs to a device that does not exist.
THEOREM IdentityTypeCorrect == IdentitySpec => []IdentityTypeOK
<1>1. IdentityInv => IdentityTypeOK
  BY DEF IdentityInv, IdentityTypeOK, Sound, ForeignKeys
<1>2. QED
  BY <1>1, IdentityInvariant, PTL

\* However polls and confirmations interleave, a device is flagged unknown
\* exactly when it has no MAC and no UniFi id.
THEOREM UnknownFlagCorrect == IdentitySpec => []UnknownExactly
<1>1. IdentityInv => UnknownExactly
  BY DEF IdentityInv, Sound, FlagsExact, UnknownExactly
<1>2. QED
  BY <1>1, IdentityInvariant, PTL

\* Whatever times the controller sends, a device's address history is a chain
\* with one open end, and only a backdated sighting makes two intervals overlap.
THEOREM LeaseHistoryCorrect == IdentitySpec => []LeaseHistoryLinear
<1>1. IdentityInv => LeaseHistoryLinear
  BY DEF IdentityInv, Sound, LeaseHistoryLinear
<1>2. QED
  BY <1>1, IdentityInvariant, PTL

\* A binding, once made, is moved by a parent's confirmation or not at all.
THEOREM BindingsStable == IdentitySpec => OnlyParentMovesBinding
<1> DEFINE Moved(k) == db.owner[k] # NoDevice /\ db'.owner[k] # db.owner[k]
           ByParent(k) == /\ k \in NameKey
                          /\ \E r \in Request : /\ request[r].open /\ ~request'[r].open
                                                /\ db'.owner[k] = request[r].work.owner[k]
<1>1. IdentityInv /\ [IdentityNext]_identityVars
        => [\A k \in Key : Moved(k) => ByParent(k)]_identityVars
  <2> SUFFICES ASSUME IdentityInv, IdentityNext, NEW k \in Key, Moved(k) PROVE ByParent(k)
    OBVIOUS
  <2>1. CASE PollCommit
    BY <2>1, PollWritten DEF PollCommit
  <2>2. CASE \E r \in Request : ConfirmCommit(r)
    <3>1. PICK r \in Request : ConfirmCommit(r)
      BY <2>2
    <3>2. /\ request[r].open /\ db' = Written(request[r])
          /\ request' = [request EXCEPT ![r] = ClosedSession]
      BY <3>1 DEF ConfirmCommit
    <3>3. ~request'[r].open
      BY <3>2 DEF IdentityInv, ClosedSession
    <3>4. k \in NameKey /\ db'.owner[k] = request[r].work.owner[k]
      BY <3>2, RequestWritten
    <3>5. QED
      BY <3>2, <3>3, <3>4
  <2>3. CASE UNCHANGED db
    BY <2>3
  <2>4. QED
    BY <2>1, <2>2, <2>3
    DEF IdentityNext, PollNext, ConfirmNext, Tick, PollBegin, PollClient, PollAbort,
        ConfirmBegin, ConfirmAbort
<1>2. QED
  BY <1>1, IdentityInvariant, PTL DEF IdentitySpec, OnlyParentMovesBinding

-----------------------------------------------------------------------------
(***************************************************************************)
(* The address history is never taken back.                                *)
(***************************************************************************)

\* What a poll will commit records all that is committed.
HistoryInv == poll.open => Recorded(db.leases, poll.work.leases)

LEMMA HistoryStep ==
  IdentityInv /\ HistoryInv /\ [IdentityNext]_identityVars
    => HistoryInv' /\ Recorded(db.leases, db'.leases) /\ db.devices \subseteq db'.devices
<1> SUFFICES ASSUME IdentityInv, HistoryInv, [IdentityNext]_identityVars
             PROVE  /\ HistoryInv' /\ Recorded(db.leases, db'.leases)
                    /\ db.devices \subseteq db'.devices
  OBVIOUS
<1>1. CASE PollBegin
  BY <1>1, RecordedOrder DEF PollBegin, HistoryInv
<1>2. ASSUME NEW o \in Observation, PollClient(o)
      PROVE  HistoryInv' /\ UNCHANGED db
  <2> DEFINE view == Written(poll)
             d == Match(view, o)
  <2>1. poll.open /\ ~Collides(poll) /\ UNCHANGED db
    BY <1>2 DEF PollClient
  <2>2. PICK t \in IF d # NoDevice THEN {d} ELSE Device \ view.devices :
          poll' = [poll EXCEPT !.left = @ - 1, !.base = db,
                               !.work = Resolved(view, t, o, poll.at)]
    BY <1>2 DEF PollClient
  <2>3. poll \in Session /\ poll.at \in Nat
    BY DEF IdentityInv, Session
  <2>4. Sound(view)
    BY <2>1, PollWritten
  <2>5. view.leases = poll.work.leases
    BY <2>1 DEF Written, MergedRows, IdentityInv, PollInv, SamePollOnly
  <2>6. t \in Device
    BY <2>2, <2>4, MatchType DEF Sound, Database
  <2> HIDE DEF view, d
  <2>7. Recorded(view.leases, Resolved(view, t, o, poll.at).leases)
    BY <2>3, <2>4, <2>6, ResolvedRecords
  <2>8. poll'.work = Resolved(view, t, o, poll.at)
    BY <2>2, <2>3 DEF Session
  <2>9. Recorded(db.leases, view.leases)
    BY <2>1, <2>5 DEF HistoryInv
  <2>10. QED
    BY <2>1, <2>7, <2>8, <2>9, RecordedOrder DEF HistoryInv
<1>3. CASE PollCommit
  <2>1. /\ poll.open /\ ~Collides(poll) /\ db' = Written(poll) /\ poll' = ClosedSession
    BY <1>3 DEF PollCommit
  <2>2. db'.leases = poll.work.leases
    BY <2>1 DEF Written, MergedRows, IdentityInv, PollInv, SamePollOnly
  <2>3. QED
    BY <2>1, <2>2, PollWritten DEF HistoryInv, ClosedSession
<1>4. ASSUME NEW r \in Request, ConfirmCommit(r)
      PROVE  SamePollOnly(db', db) /\ UNCHANGED poll
  BY <1>4, RequestWritten DEF ConfirmCommit
<1>5. CASE PollAbort
  BY <1>5, RecordedOrder DEF PollAbort, HistoryInv, ClosedSession
<1>6. CASE UNCHANGED <<db, poll>>
  BY <1>6, RecordedOrder DEF HistoryInv
<1>7. ASSUME SamePollOnly(db', db), UNCHANGED poll
      PROVE  /\ HistoryInv' /\ Recorded(db.leases, db'.leases)
             /\ db.devices \subseteq db'.devices
  BY <1>7, RecordedOrder DEF SamePollOnly, HistoryInv
<1>8. QED
  BY <1>1, <1>2, <1>3, <1>4, <1>5, <1>6, <1>7, RecordedOrder
  DEF IdentityNext, PollNext, ConfirmNext, Tick, ConfirmBegin, ConfirmAbort, identityVars,
      PollBegin

\* A poll ends intervals of the address history and adds to it, and does
\* nothing else to it; a confirmation does not touch it.
THEOREM LeaseHistoryAppendOnly == IdentitySpec => LeaseHistoryKept
<1>1. IdentityInit => HistoryInv
  BY DEF IdentityInit, HistoryInv, ClosedSession
<1>2. IdentityInv /\ HistoryInv /\ [IdentityNext]_identityVars
        => HistoryInv' /\ [Recorded(db.leases, db'.leases)]_identityVars
  BY HistoryStep
<1>3. QED
  BY <1>1, <1>2, IdentityInvariant, PTL DEF IdentitySpec, LeaseHistoryKept
=============================================================================
