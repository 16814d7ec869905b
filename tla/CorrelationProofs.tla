--------------------------- MODULE CorrelationProofs ---------------------------
(***************************************************************************)
(* Proofs about Correlation: that it implements DeviceIdentity, so that    *)
(* what was proved of the tables alone holds of the whole; and that what   *)
(* an activity row says is grounded in those tables.                       *)
(***************************************************************************)
EXTENDS Correlation, DeviceIdentityProofs

(***************************************************************************)
(* Correlation implements DeviceIdentity.                                  *)
(***************************************************************************)

\* A review that strengthens an identifier confirms it in the identity
\* tables; every other step on activity rows leaves those tables alone.
LEMMA StepImplements == [CorrelationNext]_vars => [IdentityNext]_identityVars
<1> SUFFICES ASSUME [CorrelationNext]_vars PROVE IdentityNext \/ UNCHANGED identityVars
  OBVIOUS
<1>1. CASE UNCHANGED vars
  BY <1>1 DEF vars, identityVars
<1>2. CASE (Tick \/ PollNext) /\ UNCHANGED correlationVars
  BY <1>2 DEF IdentityNext
<1>3. CASE ReplayNext
  BY <1>3 DEF ReplayNext, ReplayBegin, ReplayQuery, ReplayCommit, ReplayAbort
<1>4. ASSUME NEW r \in Request, NEW q \in Query, NEW decision \in Device \cup {NoDevice},
             NEW strengthen \in BOOLEAN, ReviewBegin(r, q, decision, strengthen)
      PROVE  IdentityNext \/ UNCHANGED identityVars
  <2>1. CASE strengthen /\ QueryOf[q].name # Absent
    <3>1. ConfirmBegin(r, decision, QueryOf[q].name, QueryOf[q].at) /\ decision # NoDevice
      BY <1>4, <2>1 DEF ReviewBegin
    <3>2. QueryOf[q].name \in Name /\ QueryOf[q].at \in 0..MaxTime /\ decision \in Device
      BY <2>1, <3>1, CorrelationAssumption
    <3>3. QED
      BY <3>1, <3>2 DEF IdentityNext, ConfirmNext
  <2>2. CASE ~(strengthen /\ QueryOf[q].name # Absent)
    BY <1>4, <2>2 DEF ReviewBegin
  <2>3. QED
    BY <2>1, <2>2
<1>5. ASSUME NEW r \in Request, ReviewCommit(r) \/ ReviewAbort(r)
      PROVE  IdentityNext \/ UNCHANGED identityVars
  BY <1>5 DEF ReviewCommit, ReviewAbort, CommitConfirmation, IdentityNext, ConfirmNext
<1>6. QED
  BY <1>1, <1>2, <1>3, <1>4, <1>5 DEF CorrelationNext, ReviewNext

\* Seen from the identity tables alone, correlation and its reviews do nothing
\* but what the identity specification allows.
LEMMA CorrelationImplementsIdentity == CorrelationSpec => IdentitySpec
<1>1. CorrelationInit => IdentityInit
  BY DEF CorrelationInit
<1>2. QED
  BY <1>1, StepImplements, PTL DEF CorrelationSpec, IdentitySpec

\* So reviews that strengthen identifiers, however they interleave with polls,
\* keep the flags and the address history right.
THEOREM IdentityUnderReview ==
  CorrelationSpec => [](UnknownExactly /\ LeaseHistoryLinear)
BY CorrelationImplementsIdentity, UnknownFlagCorrect, LeaseHistoryCorrect, PTL
-----------------------------------------------------------------------------
(***************************************************************************)
(* Types.  A row names devices that exist because the intervals and the    *)
(* identifiers it was decided from do; rows are never deleted, so an       *)
(* UPDATE always finds the row it read.                                    *)
(***************************************************************************)
RowTypes ==
  /\ activity \in Rows
  /\ audit \in [Query -> Nat]
  /\ replay \in ReplaySession
  /\ review \in [Request -> ReviewSession]

RowsKept ==
  /\ \A q \in Query :
       /\ replay.base[q] # NoRow => activity[q] # NoRow
       /\ replay.work[q] = NoRow => replay.base[q] = NoRow
  /\ \A r \in Request : review[r].open =>
       /\ review[r].base # NoRow /\ review[r].work # NoRow
       /\ activity[review[r].query] # NoRow

\* What a row says is grounded in the tables v.
AddressEvidence(m, q, leases) ==
  /\ m.to = Open \/ QueryOf[q].at < m.to
  /\ \E l \in leases :
       /\ l.device = m.device /\ l.ip = QueryOf[q].ip
       /\ l.from = m.from /\ l.from <= QueryOf[q].at
       /\ l.to = m.to \/ m.to = Open

Grounded(row, q, v) ==
  row # NoRow =>
    /\ row.device \in v.devices \cup {NoDevice}
    /\ \A m \in row.evidence.matches :
         m.kind = "ip_assignment" => AddressEvidence(m, q, v.leases)

RowsGrounded ==
  /\ \A q \in Query : Grounded(activity[q], q, db) /\ Grounded(replay.work[q], q, db)
  /\ \A r \in Request : Grounded(review[r].work, review[r].query, db)
  /\ \A l \in replay.leases : l.device \in db.devices
  /\ Recorded(replay.leases, db.leases)

RowInv == RowTypes /\ RowsKept /\ RowsGrounded

LEMMA ColumnChoice ==
  ASSUME NEW c, NEW b, NEW w
  PROVE  Column(c, b, w) \in {c, w}
BY DEF Column

\* A write-back yields a row whose columns are each the session's or the
\* committed one.
LEMMA MergedRowShape ==
  ASSUME NEW c \in Row \cup {NoRow}, NEW b \in Row \cup {NoRow}, NEW w \in Row \cup {NoRow},
         b # NoRow => c # NoRow, w = NoRow => b = NoRow
  PROVE  LET m == MergedRow(c, b, w)
         IN /\ m \in Row \cup {NoRow}
            /\ m = NoRow => c = NoRow
            /\ m # NoRow =>
                 /\ (c # NoRow /\ m.device = c.device) \/ (w # NoRow /\ m.device = w.device)
                 /\ \/ c # NoRow /\ m.evidence = c.evidence
                    \/ w # NoRow /\ m.evidence = w.evidence
<1>1. CASE w = b \/ b = NoRow
  BY <1>1, NoRowAssumption DEF MergedRow
<1>2. CASE w # b /\ b # NoRow
  <2>1. c \in Row /\ w \in Row
    BY <1>2
  <2> DEFINE m == [device     |-> Column(c.device, b.device, w.device),
                   confidence |-> Column(c.confidence, b.confidence, w.confidence),
                   status     |-> Column(c.status, b.status, w.status),
                   review     |-> Column(c.review, b.review, w.review),
                   conflicts  |-> Column(c.conflicts, b.conflicts, w.conflicts),
                   evidence   |-> Column(c.evidence, b.evidence, w.evidence)]
  <2>2. MergedRow(c, b, w) = m
    BY <1>2 DEF MergedRow
  <2>3. m \in Row
    BY <2>1, ColumnChoice DEF Row
  <2>4. m.device \in {c.device, w.device} /\ m.evidence \in {c.evidence, w.evidence}
    BY ColumnChoice
  <2> HIDE DEF m
  <2>5. QED
    BY <2>1, <2>2, <2>3, <2>4, NoRowAssumption
<1>3. QED
  BY <1>1, <1>2

\* The evidence for a query points at devices that exist.
LEMMA MatchesType ==
  ASSUME db \in Database, ForeignKeys(db), NEW q \in Query,
         NEW leases \in SUBSET Lease, \A l \in leases : l.device \in db.devices
  PROVE  /\ Matches(q, leases) \in SUBSET Evidence
         /\ Devices(Matches(q, leases)) \subseteq db.devices
<1> DEFINE byAddress == {l \in leases : l.ip = QueryOf[q].ip /\ Covers(l, QueryOf[q].at)}
           byName == {k \in NameKey : /\ k[2] = QueryOf[q].name
                                      /\ db.owner[k] # NoDevice
                                      /\ db.since[k] <= QueryOf[q].at}
           addressed == {[kind |-> "ip_assignment", device |-> l.device,
                          from |-> l.from, to |-> l.to] : l \in byAddress}
           named == {[kind |-> k[1], device |-> db.owner[k], from |-> db.since[k],
                      to |-> Open] : k \in byName}
<1>1. Matches(q, leases) = addressed \cup named
  BY DEF Matches
<1>2. \A e \in addressed : e \in Evidence /\ e.device \in db.devices
  BY DEF Lease, Evidence, MatchKind
<1>3. \A k \in byName :
        /\ k[1] \in MatchKind
        /\ db.owner[k] \in db.devices /\ db.owner[k] \in Device
        /\ db.since[k] \in Nat
  BY KeyParts DEF NameKey, MatchKind, ForeignKeys, Database
<1>4. \A e \in named : e \in Evidence /\ e.device \in db.devices
  BY <1>3 DEF Evidence
<1>5. QED
  BY <1>1, <1>2, <1>4 DEF Devices

LEMMA ReassignedType ==
  ASSUME NEW leases \in SUBSET Lease, NEW ip, NEW window
  PROVE  Reassigned(leases, ip, window) \in SUBSET Conflict
BY DEF Reassigned, Lease, Conflict

\* A decision is a row, not a parent's, and its device is one of the
\* candidates or none; it attributes only when they all agree.
LEMMA DecidedShape ==
  ASSUME NEW matches \in SUBSET Evidence, NEW reassigned \in SUBSET Conflict,
         NEW window \in Nat \X Nat
  PROVE  LET row == Decided(matches, reassigned, window)
         IN /\ row \in Row /\ ~Manual(row)
            /\ row.evidence.matches = matches
            /\ row.device \in Devices(matches) \cup {NoDevice}
            /\ row.device # NoDevice <=> row.status = "attributed"
            /\ row.review <=> row.status # "attributed"
            /\ row.status = "attributed" =>
                 /\ Devices(matches) = {row.device} /\ row.conflicts = {}
                 /\ Confidence(matches) >= Threshold
<1> DEFINE conflicts == reassigned \cup Rivals(matches)
           agreed == conflicts = {} /\ matches # {}
           sure == agreed /\ Confidence(matches) >= Threshold
           chosen == IF sure THEN CHOOSE d \in Device : d \in Devices(matches) ELSE NoDevice
           evidence == [matches |-> matches, window |-> window, manual |-> Undecided]
           row == [device |-> chosen,
                   confidence |-> IF agreed THEN Confidence(matches) ELSE 0,
                   status |-> IF conflicts # {} THEN "ambiguous"
                              ELSE IF sure THEN "attributed" ELSE "unattributed",
                   review |-> ~sure, conflicts |-> conflicts, evidence |-> evidence]
<1>1. Decided(matches, reassigned, window) = row
  BY DEF Decided
<1>2. Devices(matches) \subseteq Device
  BY DEF Devices, Evidence
<1>3. Rivals(matches) \in SUBSET Conflict
  BY <1>2 DEF Rivals, Conflict
<1>4. Rivals(matches) = {} => \A m, n \in matches : m.device = n.device
  BY DEF Rivals
<1>5. sure => Devices(matches) = {chosen} /\ chosen \in Device
  <2> SUFFICES ASSUME sure PROVE Devices(matches) = {chosen} /\ chosen \in Device
    OBVIOUS
  <2>1. PICK m \in matches : TRUE
    OBVIOUS
  <2>2. Devices(matches) = {m.device}
    BY <1>4, <2>1 DEF Devices
  <2>3. m.device \in Device
    BY <1>2, <2>2
  <2>4. chosen = m.device
    BY <2>2, <2>3
  <2>5. QED
    BY <2>2, <2>3, <2>4
<1>6. ~sure => chosen = NoDevice
  OBVIOUS
<1>7. Confidence(matches) \in Nat
  BY DEF Confidence
<1> HIDE DEF chosen, evidence
<1>8. evidence \in [matches : SUBSET Evidence, window : Nat \X Nat,
                    manual : Device \cup {NoDevice, Undecided}]
  BY DEF evidence
<1>9. row \in Row
  BY <1>3, <1>5, <1>6, <1>7, <1>8 DEF Row, Status
<1>10. row.evidence.manual = Undecided /\ row.evidence.matches = matches
  BY DEF evidence
<1>11. row.device \in Devices(matches) \cup {NoDevice}
  BY <1>5, <1>6
<1>12. row.device # NoDevice <=> row.status = "attributed"
  BY <1>5, <1>6, IdentityAssumption
<1>13. (row.review <=> ~sure) /\ (row.status = "attributed" <=> sure) /\ row.conflicts = conflicts
  OBVIOUS
<1>14. ~Manual(row)
  BY <1>10 DEF Manual
<1> HIDE DEF row
<1>15. row.status = "attributed" =>
         /\ Devices(matches) = {row.device} /\ row.conflicts = {}
         /\ Confidence(matches) >= Threshold
  BY <1>5, <1>13 DEF row
<1>16. QED
  BY <1>1, <1>9, <1>10, <1>11, <1>12, <1>13, <1>14, <1>15

\* What is grounded in the tables stays so as they grow.
LEMMA GroundedLater ==
  ASSUME NEW row, NEW q, NEW v, NEW w, Grounded(row, q, v),
         v.devices \subseteq w.devices, Recorded(v.leases, w.leases)
  PROVE  Grounded(row, q, w)
<1>1. ASSUME NEW m, AddressEvidence(m, q, v.leases)
      PROVE  AddressEvidence(m, q, w.leases)
  BY <1>1 DEF AddressEvidence, Recorded, Continues
<1>2. QED
  BY <1>1 DEF Grounded

LEMMA MergedRowGrounded ==
  ASSUME NEW c \in Row \cup {NoRow}, NEW b \in Row \cup {NoRow}, NEW w \in Row \cup {NoRow},
         b # NoRow => c # NoRow, w = NoRow => b = NoRow,
         NEW q, NEW v, Grounded(c, q, v), Grounded(w, q, v)
  PROVE  Grounded(MergedRow(c, b, w), q, v)
BY MergedRowShape DEF Grounded

\* A decision is grounded in the address history it was taken from.
LEMMA DecidedGrounded ==
  ASSUME db \in Database, ForeignKeys(db), NEW q \in Query,
         NEW leases \in SUBSET Lease, \A l \in leases : l.device \in db.devices,
         Recorded(leases, db.leases), NEW window \in Nat \X Nat
  PROVE  LET row == Decided(Matches(q, leases), Reassigned(leases, QueryOf[q].ip, window), window)
         IN Grounded(row, q, db) /\ row \in Row
<1> DEFINE matches == Matches(q, leases)
           reassigned == Reassigned(leases, QueryOf[q].ip, window)
           row == Decided(matches, reassigned, window)
<1>1. /\ matches \in SUBSET Evidence /\ Devices(matches) \subseteq db.devices
      /\ reassigned \in SUBSET Conflict
  BY MatchesType, ReassignedType
<1>2. /\ row \in Row /\ row.evidence.matches = matches
      /\ row.device \in Devices(matches) \cup {NoDevice}
  <2> HIDE DEF matches, reassigned
  <2>1. QED
    BY <1>1, DecidedShape
<1>3. ASSUME NEW m \in matches, m.kind = "ip_assignment"
      PROVE  AddressEvidence(m, q, db.leases)
  <2>1. PICK l \in leases : /\ l.ip = QueryOf[q].ip /\ l.from <= QueryOf[q].at
                            /\ l.to = Open \/ QueryOf[q].at < l.to
                            /\ m.device = l.device /\ m.from = l.from /\ m.to = l.to
    BY <1>3 DEF Matches, Covers, NameKey
  <2>2. PICK l2 \in db.leases : Continues(l, l2)
    BY <2>1 DEF Recorded
  <2>3. QED
    BY <2>1, <2>2 DEF Continues, AddressEvidence
<1> HIDE DEF row, matches
<1>4. Grounded(row, q, db)
  BY <1>1, <1>2, <1>3 DEF Grounded
<1>5. QED
  BY <1>2, <1>4 DEF row, matches

\* A parent's decision on a row is a row.
LEMMA SettledShape ==
  ASSUME NEW row \in Row, NEW decision \in Device \cup {NoDevice}
  PROVE  LET w == Settled(row, decision)
         IN /\ w \in Row /\ w.device = decision /\ w.review = FALSE
            /\ w.status = IF decision = NoDevice THEN "unattributed" ELSE "attributed"
            /\ w.evidence.manual = decision
            /\ w.evidence.matches = row.evidence.matches
<1> DEFINE evidence == [row.evidence EXCEPT !.manual = decision]
           w == [device     |-> decision,
                 confidence |-> IF decision = NoDevice THEN row.confidence ELSE 100,
                 status     |-> IF decision = NoDevice THEN "unattributed" ELSE "attributed",
                 review     |-> FALSE,
                 conflicts  |-> row.conflicts,
                 evidence   |-> evidence]
<1>1. /\ evidence \in [matches : SUBSET Evidence, window : Nat \X Nat,
                       manual : Device \cup {NoDevice, Undecided}]
      /\ evidence.manual = decision /\ evidence.matches = row.evidence.matches
  BY DEF Row
<1>2. Settled(row, decision) =
        [row EXCEPT !.device     = decision,
                    !.confidence = IF decision = NoDevice THEN row.confidence ELSE 100,
                    !.status     = IF decision = NoDevice THEN "unattributed" ELSE "attributed",
                    !.review     = FALSE,
                    !.evidence   = evidence]
  BY DEF Settled
<1> HIDE DEF evidence
<1>5. Settled(row, decision) = w
  BY <1>2 DEF Row
<1>3. w \in Row
  BY <1>1 DEF Row, Status
<1>4. QED
  BY <1>1, <1>5, <1>3

LEMMA NoSessions == NoReplay \in ReplaySession /\ NoRows \in Rows
BY DEF NoReplay, ReplaySession, NoRows, Rows

LEMMA RowInvInit == CorrelationInit => RowInv
<1> SUFFICES ASSUME CorrelationInit PROVE RowInv
  OBVIOUS
<1>1. /\ activity = NoRows /\ audit = [q \in Query |-> 0] /\ replay = NoReplay
      /\ review = [r \in Request |-> NoReview]
  BY DEF CorrelationInit
<1>2. /\ \A q \in Query : replay.base[q] = NoRow /\ replay.work[q] = NoRow /\ activity[q] = NoRow
      /\ replay.leases = {}
  BY <1>1 DEF NoReplay, NoRows
<1>3. \A r \in Request : ~review[r].open /\ review[r].work = NoRow
  BY <1>1 DEF NoReview
<1>4. RowTypes
  <2>1. (CHOOSE q \in Query : TRUE) \in Query
    BY CorrelationAssumption
  <2>2. NoReview \in ReviewSession
    BY <2>1 DEF ReviewSession, NoReview
  <2>3. QED
    BY <1>1, <2>2, NoSessions DEF RowTypes
<1>5. QED
  BY <1>2, <1>3, <1>4 DEF RowInv, RowsKept, RowsGrounded, Grounded, Recorded

\* The steps, for tables that only grow.
LEMMA RowInvIdentity ==
  ASSUME RowInv, UNCHANGED correlationVars,
         db.devices \subseteq db'.devices, Recorded(db.leases, db'.leases)
  PROVE  RowInv'
<1>1. UNCHANGED <<activity, audit, replay, review>>
  BY DEF correlationVars
<1>2. RowTypes' /\ RowsKept'
  BY <1>1 DEF RowInv, RowTypes, RowsKept
<1>3. ASSUME NEW row, NEW q, Grounded(row, q, db) PROVE Grounded(row, q, db')
  BY <1>3, GroundedLater
<1>4. Recorded(replay.leases, db'.leases)
  BY RecordedOrder DEF RowInv, RowsGrounded
<1>5. QED
  BY <1>1, <1>2, <1>3, <1>4 DEF RowInv, RowsGrounded

LEMMA ReplayBeginRows ==
  ASSUME IdentityInv, RowInv, NEW start, NEW end, ReplayBegin(start, end)
  PROVE  RowInv'
<1> DEFINE loaded == {q \in Query : start <= QueryOf[q].at /\ QueryOf[q].at <= end
                                    /\ QueryOf[q].at <= clock}
<1>1. UNCHANGED <<db, activity, audit, review>>
  BY DEF ReplayBegin, identityVars
<1>2. PICK first \in loaded, last \in loaded :
        replay' = [open |-> TRUE, todo |-> loaded,
                   window |-> <<QueryOf[first].at, QueryOf[last].at>>,
                   leases |-> {l \in db.leases : \E q \in loaded : l.ip = QueryOf[q].ip},
                   base |-> NoRows, work |-> NoRows]
  BY DEF ReplayBegin
<1>3. QueryOf[first].at \in Nat /\ QueryOf[last].at \in Nat
  BY CorrelationAssumption, IdentityAssumption
<1>4. db.leases \in SUBSET Lease /\ \A l \in db.leases : l.device \in db.devices
  BY DEF IdentityInv, Sound, Database, ForeignKeys
<1> HIDE DEF loaded
<1>5. loaded \in SUBSET Query
  BY DEF loaded
<1>6. replay' \in ReplaySession
  BY <1>2, <1>3, <1>4, <1>5, NoSessions DEF ReplaySession
<1>7. RowTypes'
  BY <1>1, <1>6 DEF RowInv, RowTypes
<1>8. \A q \in Query : replay'.base[q] = NoRow /\ replay'.work[q] = NoRow
  BY <1>2 DEF NoRows
<1>9. RowsKept'
  BY <1>1, <1>8 DEF RowInv, RowsKept
<1>10. replay'.leases \subseteq db.leases
  BY <1>2
<1>11. Recorded(replay'.leases, db.leases)
  BY <1>10 DEF Recorded, Continues
<1>12. RowsGrounded'
  BY <1>1, <1>4, <1>8, <1>10, <1>11 DEF RowInv, RowsGrounded, Grounded
<1>13. QED
  BY <1>7, <1>9, <1>12 DEF RowInv

LEMMA ReplayQueryRows ==
  ASSUME IdentityInv, RowInv, NEW q \in Query, ReplayQuery(q)
  PROVE  RowInv'
<1> DEFINE row == Decided(Matches(q, replay.leases),
                          Reassigned(replay.leases, QueryOf[q].ip, replay.window),
                          replay.window)
           base == [replay.base EXCEPT ![q] = activity[q]]
           work == [replay.work EXCEPT ![q] = Upserted(activity[q], row)]
<1>1. /\ UNCHANGED <<db, activity, audit, review>>
      /\ replay' = [replay EXCEPT !.todo = @ \ {q}, !.base = base, !.work = work]
  BY DEF ReplayQuery, identityVars
<1>2. replay \in ReplaySession /\ activity \in Rows
  BY DEF RowInv, RowTypes
<1>3. Grounded(row, q, db) /\ row \in Row
  <2>1. db \in Database /\ ForeignKeys(db)
    BY DEF IdentityInv, Sound
  <2>2. /\ replay.leases \in SUBSET Lease /\ replay.window \in Nat \X Nat
        /\ \A l \in replay.leases : l.device \in db.devices
        /\ Recorded(replay.leases, db.leases)
    BY <1>2 DEF ReplaySession, RowInv, RowsGrounded
  <2>3. QED
    BY <2>1, <2>2, DecidedGrounded
<1> HIDE DEF row
<1> DEFINE new == Upserted(activity[q], row)
<1>4. new \in Row /\ Grounded(new, q, db)
  BY <1>2, <1>3 DEF Upserted, Manual, RowInv, RowsGrounded, Rows
<1> HIDE DEF new
<1>5. base \in Rows /\ work \in Rows
  BY <1>2, <1>4 DEF ReplaySession, Rows, new
<1>6. \A p \in Query : /\ base[p] = IF p = q THEN activity[q] ELSE replay.base[p]
                       /\ work[p] = IF p = q THEN new ELSE replay.work[p]
  BY <1>2 DEF ReplaySession, Rows, new
<1> HIDE DEF base, work
<1>7. replay' = [open |-> replay.open, todo |-> replay.todo \ {q}, window |-> replay.window,
                 leases |-> replay.leases, base |-> base, work |-> work]
  BY <1>1, <1>2 DEF ReplaySession
<1>8. RowTypes'
  BY <1>1, <1>2, <1>5, <1>7 DEF RowInv, RowTypes, ReplaySession
<1>9. RowsKept'
  BY <1>1, <1>4, <1>6, <1>7, NoRowAssumption DEF RowInv, RowsKept
<1>10. RowsGrounded'
  BY <1>1, <1>4, <1>6, <1>7 DEF RowInv, RowsGrounded
<1>11. QED
  BY <1>8, <1>9, <1>10 DEF RowInv

LEMMA ReplayEndRows ==
  ASSUME RowInv, ReplayCommit \/ ReplayAbort
  PROVE  RowInv'
<1> DEFINE merged == [q \in Query |-> MergedRow(activity[q], replay.base[q], replay.work[q])]
<1>1. /\ UNCHANGED <<db, audit, review>> /\ replay' = NoReplay
      /\ activity' = merged \/ activity' = activity
  BY DEF ReplayCommit, ReplayAbort, identityVars
<1>2. activity \in Rows /\ replay.base \in Rows /\ replay.work \in Rows
  BY DEF RowInv, RowTypes, ReplaySession
<1>3. ASSUME NEW q \in Query
      PROVE  LET m == MergedRow(activity[q], replay.base[q], replay.work[q])
             IN /\ m \in Row \cup {NoRow} /\ Grounded(m, q, db)
                /\ activity[q] # NoRow => m # NoRow
  <2>1. /\ activity[q] \in Row \cup {NoRow} /\ replay.base[q] \in Row \cup {NoRow}
        /\ replay.work[q] \in Row \cup {NoRow}
    BY <1>2 DEF Rows
  <2>2. /\ replay.base[q] # NoRow => activity[q] # NoRow
        /\ replay.work[q] = NoRow => replay.base[q] = NoRow
        /\ Grounded(activity[q], q, db) /\ Grounded(replay.work[q], q, db)
    BY DEF RowInv, RowsKept, RowsGrounded
  <2>3. Grounded(MergedRow(activity[q], replay.base[q], replay.work[q]), q, db)
    BY <2>1, <2>2, MergedRowGrounded
  <2> DEFINE c == activity[q]
             b == replay.base[q]
             w == replay.work[q]
  <2>4. MergedRow(c, b, w) \in Row \cup {NoRow} /\ (c # NoRow => MergedRow(c, b, w) # NoRow)
    <3> HIDE DEF c, b, w
    <3>1. /\ c \in Row \cup {NoRow} /\ b \in Row \cup {NoRow} /\ w \in Row \cup {NoRow}
          /\ b # NoRow => c # NoRow
          /\ w = NoRow => b = NoRow
      BY <2>1, <2>2 DEF c, b, w
    <3>2. QED
      BY <3>1, MergedRowShape
  <2>5. QED
    BY <2>3, <2>4
<1>4. merged \in Rows /\ \A q \in Query : /\ Grounded(merged[q], q, db)
                                          /\ activity[q] # NoRow => merged[q] # NoRow
  BY <1>3 DEF Rows
<1> HIDE DEF merged
<1>5. /\ activity' \in Rows
      /\ \A q \in Query :
           /\ Grounded(activity'[q], q, db)
           /\ activity[q] # NoRow => activity'[q] # NoRow
  BY <1>1, <1>2, <1>4 DEF RowInv, RowsGrounded
<1>6. /\ \A q \in Query : replay'.base[q] = NoRow /\ replay'.work[q] = NoRow
      /\ replay'.leases = {}
  BY <1>1 DEF NoReplay, NoRows
<1>7. RowTypes'
  BY <1>1, <1>5, NoSessions DEF RowInv, RowTypes
<1>8. \A r \in Request : review[r].query \in Query
  BY DEF RowInv, RowTypes, ReviewSession
<1>11. \A r \in Request : review'[r].open =>
         /\ review'[r].base # NoRow /\ review'[r].work # NoRow
         /\ activity'[review'[r].query] # NoRow
  <2>1. \A r \in Request : review[r].open =>
          /\ review[r].base # NoRow /\ review[r].work # NoRow
          /\ activity[review[r].query] # NoRow
    BY DEF RowInv, RowsKept
  <2>2. review' = review
    BY <1>1
  <2>3. \A q \in Query : activity[q] # NoRow => activity'[q] # NoRow
    BY <1>5
  <2>4. QED
    BY <1>8, <2>1, <2>2, <2>3
<1>12. RowsKept'
  BY <1>6, <1>11 DEF RowsKept
<1>9. RowsGrounded'
  <2>1. Recorded(replay'.leases, db.leases)
    BY <1>6 DEF Recorded
  <2>2. \A q \in Query : Grounded(replay'.work[q], q, db)
    BY <1>6 DEF Grounded
  <2>3. \A r \in Request : Grounded(review[r].work, review[r].query, db)
    BY DEF RowInv, RowsGrounded
  <2>4. QED
    BY <1>1, <1>5, <1>6, <2>1, <2>2, <2>3 DEF RowsGrounded
<1>10. QED
  BY <1>7, <1>12, <1>9 DEF RowInv

LEMMA ReviewBeginRows ==
  ASSUME RowInv, NEW r \in Request, NEW q \in Query, NEW decision \in Device \cup {NoDevice},
         NEW strengthen \in BOOLEAN, ReviewBegin(r, q, decision, strengthen)
  PROVE  RowInv'
<1> DEFINE w == Settled(activity[q], decision)
           s == [open |-> TRUE, query |-> q, base |-> activity[q], work |-> w]
<1>1. /\ UNCHANGED <<db, activity, audit, replay>>
      /\ review' = [review EXCEPT ![r] = s]
      /\ InQueue(activity[q]) /\ decision \in db.devices \cup {NoDevice}
  BY DEF ReviewBegin, ConfirmBegin, identityVars, Decision
<1>2. activity[q] \in Row /\ activity[q] # NoRow /\ review \in [Request -> ReviewSession]
  BY <1>1 DEF InQueue, RowInv, RowTypes, Rows
<1>3. /\ w \in Row /\ w # NoRow /\ w.device = decision
      /\ w.evidence.matches = activity[q].evidence.matches
  BY <1>2, SettledShape, NoRowAssumption
<1>4. Grounded(w, q, db)
  BY <1>1, <1>2, <1>3 DEF RowInv, RowsGrounded, Grounded
<1> HIDE DEF w
<1>5. s \in ReviewSession
  BY <1>2, <1>3 DEF ReviewSession
<1>6. \A p \in Request : review'[p] = IF p = r THEN s ELSE review[p]
  BY <1>1, <1>2
<1>7. RowTypes'
  BY <1>1, <1>2, <1>5 DEF RowInv, RowTypes
<1>8. RowsKept'
  BY <1>1, <1>2, <1>3, <1>6 DEF RowInv, RowsKept
<1>9. \A p \in Request : Grounded(review'[p].work, review'[p].query, db)
  BY <1>4, <1>6 DEF RowInv, RowsGrounded
<1>10. RowsGrounded'
  BY <1>1, <1>9 DEF RowInv, RowsGrounded
<1>11. QED
  BY <1>7, <1>8, <1>10 DEF RowInv

LEMMA ReviewEndRows ==
  ASSUME RowInv, NEW r \in Request, ReviewCommit(r) \/ ReviewAbort(r),
         db.devices \subseteq db'.devices, Recorded(db.leases, db'.leases)
  PROVE  RowInv'
<1> DEFINE q == review[r].query
           c == activity[q]
           b == review[r].base
           w == review[r].work
           merged == [activity EXCEPT ![q] = MergedRow(c, b, w)]
<1>1. /\ UNCHANGED replay /\ review[r].open
      /\ review' = [review EXCEPT ![r] = NoReview]
      /\ audit' = audit \/ audit' = [audit EXCEPT ![q] = @ + 1]
      /\ activity' = activity \/ activity' = merged
  BY DEF ReviewCommit, ReviewAbort
<1>2. /\ activity \in Rows /\ audit \in [Query -> Nat] /\ replay \in ReplaySession
      /\ review \in [Request -> ReviewSession]
  BY DEF RowInv, RowTypes
<1>3. /\ q \in Query /\ c \in Row \cup {NoRow} /\ b \in Row \cup {NoRow} /\ w \in Row \cup {NoRow}
      /\ b # NoRow /\ w # NoRow /\ c # NoRow
      /\ Grounded(c, q, db) /\ Grounded(w, q, db)
  BY <1>1, <1>2 DEF ReviewSession, Rows, RowInv, RowsKept, RowsGrounded
<1> HIDE DEF q, c, b, w
<1>4. /\ MergedRow(c, b, w) \in Row \cup {NoRow} /\ MergedRow(c, b, w) # NoRow
      /\ Grounded(MergedRow(c, b, w), q, db)
  BY <1>3, MergedRowShape, MergedRowGrounded
<1>5. /\ activity' \in Rows
      /\ \A p \in Query :
           /\ Grounded(activity'[p], p, db)
           /\ activity[p] # NoRow => activity'[p] # NoRow
  BY <1>1, <1>2, <1>3, <1>4 DEF Rows, RowInv, RowsGrounded
<1>6. NoReview \in ReviewSession /\ ~NoReview.open /\ NoReview.work = NoRow
  BY CorrelationAssumption DEF ReviewSession, NoReview
<1>7. RowTypes'
  BY <1>1, <1>2, <1>3, <1>5, <1>6 DEF RowTypes
<1>8. \A p \in Request : review'[p] = IF p = r THEN NoReview ELSE review[p]
  BY <1>1, <1>2
<1>9. RowsKept'
  <2>1. \A p \in Query : /\ replay.base[p] # NoRow => activity'[p] # NoRow
                         /\ replay.work[p] = NoRow => replay.base[p] = NoRow
    BY <1>5 DEF RowInv, RowsKept
  <2>2. \A p \in Request : review[p].query \in Query
    BY <1>2 DEF ReviewSession
  <2>3. \A p \in Request : review'[p].open =>
          /\ review'[p].base # NoRow /\ review'[p].work # NoRow
          /\ activity'[review'[p].query] # NoRow
    BY <1>5, <1>6, <1>8, <2>2 DEF RowInv, RowsKept
  <2>4. QED
    BY <1>1, <2>1, <2>3 DEF RowsKept
<1>10. ASSUME NEW row, NEW p, Grounded(row, p, db) PROVE Grounded(row, p, db')
  BY <1>10, GroundedLater
<1>11. \A p \in Query : Grounded(activity'[p], p, db') /\ Grounded(replay.work[p], p, db')
  BY <1>5, <1>10 DEF RowInv, RowsGrounded
<1>12. \A p \in Request : Grounded(review'[p].work, review'[p].query, db')
  <2>1. Grounded(NoReview.work, NoReview.query, db')
    BY <1>6 DEF Grounded
  <2>2. QED
    BY <1>8, <1>10, <2>1 DEF RowInv, RowsGrounded
<1>13. Recorded(replay.leases, db'.leases)
  BY RecordedOrder DEF RowInv, RowsGrounded
<1>14. RowsGrounded'
  BY <1>1, <1>11, <1>12, <1>13 DEF RowInv, RowsGrounded
<1>15. QED
  BY <1>7, <1>9, <1>14 DEF RowInv

LEMMA RowInvStep ==
  IdentityInv /\ HistoryInv /\ RowInv /\ [CorrelationNext]_vars => RowInv'
<1> SUFFICES ASSUME IdentityInv, HistoryInv, RowInv, [CorrelationNext]_vars PROVE RowInv'
  OBVIOUS
<1>1. db.devices \subseteq db'.devices /\ Recorded(db.leases, db'.leases)
  BY StepImplements, HistoryStep
<1>2. CASE UNCHANGED vars
  BY <1>1, <1>2, RowInvIdentity DEF vars, correlationVars
<1>3. CASE (Tick \/ PollNext) /\ UNCHANGED correlationVars
  BY <1>1, <1>3, RowInvIdentity
<1>4. CASE ReplayNext
  BY <1>4, ReplayBeginRows, ReplayQueryRows, ReplayEndRows DEF ReplayNext
<1>5. CASE ReviewNext
  BY <1>1, <1>5, ReviewBeginRows, ReviewEndRows DEF ReviewNext
<1>6. QED
  BY <1>2, <1>3, <1>4, <1>5 DEF CorrelationNext

\* Every reachable state satisfies the strengthened invariants, whether or not
\* sessions on activity rows overlap.
THEOREM CorrelationInvariant == CorrelationSpec => [](IdentityInv /\ HistoryInv /\ RowInv)
<1>1. CorrelationInit => IdentityInv /\ HistoryInv /\ RowInv
  BY InitInv, RowInvInit DEF CorrelationInit, IdentityInit, HistoryInv, ClosedSession
<1>2. IdentityInv /\ HistoryInv /\ RowInv /\ [CorrelationNext]_vars
        => IdentityInv' /\ HistoryInv' /\ RowInv'
  BY StepImplements, StepInv, HistoryStep, RowInvStep
<1>3. QED
  BY <1>1, <1>2, PTL DEF CorrelationSpec

\* Activity rows keep their type, and name only devices that exist.
THEOREM CorrelationTypeCorrect == CorrelationSpec => []CorrelationTypeOK
<1>1. RowInv => CorrelationTypeOK
  BY DEF RowInv, RowTypes, RowsGrounded, Grounded, CorrelationTypeOK
<1>2. QED
  BY <1>1, CorrelationInvariant, PTL

\* The address evidence of every row, including a stale one, is in the address
\* history for good.
THEOREM EvidenceStaysInHistory == CorrelationSpec => []EvidenceInHistory
<1>1. RowInv => EvidenceInHistory
  BY DEF RowInv, RowsGrounded, Grounded, AddressEvidence, EvidenceInHistory
<1>2. QED
  BY <1>1, CorrelationInvariant, PTL
-----------------------------------------------------------------------------
(***************************************************************************)
(* Decisions.  When sessions on activity rows do not overlap, what a       *)
(* session read is still what is committed, so the row it writes back is   *)
(* the row it made.                                                        *)
(***************************************************************************)
Coherent(row, n) ==
  row # NoRow =>
    /\ row.device # NoDevice <=> row.status = "attributed"
    /\ row.review <=> row.status # "attributed" /\ ~Manual(row)
    /\ Manual(row) => row.device = row.evidence.manual
    /\ Manual(row) <=> n > 0

Justified(row) ==
  row # NoRow /\ ~Manual(row) /\ row.status = "attributed" =>
    /\ Devices(row.evidence.matches) = {row.device}
    /\ row.conflicts = {}
    /\ Confidence(row.evidence.matches) >= Threshold

\* What a replay has made of a query's row, when the committed row is c.
Replayed(c, b, w, n) ==
  \/ w = b
  \/ b = c /\ w # NoRow /\ Coherent(w, n) /\ Justified(w) /\ (Manual(c) => w = c)

Alone ==
  /\ replay.open => \A r \in Request : ~review[r].open
  /\ \A r, s \in Request : review[r].open /\ review[s].open => r = s

DecisionInv ==
  /\ Alone
  /\ \A q \in Query : /\ Coherent(activity[q], audit[q]) /\ Justified(activity[q])
                      /\ audit[q] <= 1 /\ (activity[q] = NoRow => audit[q] = 0)
                      /\ replay.open =>
                           Replayed(activity[q], replay.base[q], replay.work[q], audit[q])
  /\ \A r \in Request : review[r].open =>
       LET c == activity[review[r].query]
       IN /\ review[r].base = c /\ InQueue(c)
          /\ \E decision \in Device \cup {NoDevice} : review[r].work = Settled(c, decision)

\* Nothing was committed between read and write-back: the row is the session's.
LEMMA MergedAlone ==
  ASSUME NEW c \in Row \cup {NoRow}, NEW w \in Row
  PROVE  MergedRow(c, c, w) = w
<1>1. CASE c = NoRow \/ w = c
  BY <1>1 DEF MergedRow
<1>2. CASE c # NoRow /\ w # c
  <2>1. MergedRow(c, c, w) =
          [device |-> w.device, confidence |-> w.confidence, status |-> w.status,
           review |-> w.review, conflicts |-> w.conflicts, evidence |-> w.evidence]
    BY <1>2 DEF MergedRow, Column
  <2>2. QED
    BY <2>1 DEF Row
<1>3. QED
  BY <1>1, <1>2

\* A row a parent settles is coherent with one audit record.
LEMMA SettledCoherent ==
  ASSUME NEW c \in Row, InQueue(c), NEW decision \in Device \cup {NoDevice}
  PROVE  /\ Manual(Settled(c, decision)) /\ Coherent(Settled(c, decision), 1)
         /\ Settled(c, decision) \in Row
<1> DEFINE w == Settled(c, decision)
<1>1. /\ w \in Row /\ w.device = decision /\ w.review = FALSE
      /\ w.status = IF decision = NoDevice THEN "unattributed" ELSE "attributed"
      /\ w.evidence.manual = decision
  BY SettledShape
<1> HIDE DEF w
<1>2. Manual(w)
  BY <1>1, NoRowAssumption, CorrelationAssumption DEF Manual
<1>3. QED
  BY <1>1, <1>2 DEF Coherent, w

\* A decision of the program is justified, and coherent as long as no parent
\* has resolved the query.
LEMMA DecidedCoherent ==
  ASSUME NEW matches \in SUBSET Evidence, NEW reassigned \in SUBSET Conflict,
         NEW window \in Nat \X Nat
  PROVE  LET d == Decided(matches, reassigned, window)
         IN d \in Row /\ ~Manual(d) /\ Justified(d) /\ Coherent(d, 0)
<1> DEFINE d == Decided(matches, reassigned, window)
<1>1. d \in Row /\ ~Manual(d) /\ d.evidence.matches = matches
  BY DecidedShape
<1>2. d.status = "attributed" =>
        /\ Devices(matches) = {d.device} /\ d.conflicts = {}
        /\ Confidence(matches) >= Threshold
  BY DecidedShape
<1>3. d.device # NoDevice <=> d.status = "attributed"
  BY DecidedShape
<1>4. d.review <=> d.status # "attributed"
  BY DecidedShape
<1> HIDE DEF d
<1>5. Justified(d)
  BY <1>1, <1>2 DEF Justified
<1>6. Coherent(d, 0)
  BY <1>1, <1>3, <1>4 DEF Coherent
<1>7. QED
  BY <1>1, <1>5, <1>6 DEF d

LEMMA ReplayQueryDecides ==
  ASSUME IdentityInv, RowInv, DecisionInv, NEW q \in Query, ReplayQuery(q)
  PROVE  DecisionInv'
<1> DEFINE row == Decided(Matches(q, replay.leases),
                          Reassigned(replay.leases, QueryOf[q].ip, replay.window),
                          replay.window)
           base == [replay.base EXCEPT ![q] = activity[q]]
           work == [replay.work EXCEPT ![q] = Upserted(activity[q], row)]
<1>1. /\ UNCHANGED <<activity, audit, review>> /\ replay.open
      /\ replay' = [replay EXCEPT !.todo = @ \ {q}, !.base = base, !.work = work]
  BY DEF ReplayQuery
<1>2. replay \in ReplaySession
  BY DEF RowInv, RowTypes
<1>3. row \in Row /\ ~Manual(row) /\ Justified(row) /\ Coherent(row, 0)
  <2> DEFINE matches == Matches(q, replay.leases)
             reassigned == Reassigned(replay.leases, QueryOf[q].ip, replay.window)
             window == replay.window
  <2>1. /\ matches \in SUBSET Evidence /\ reassigned \in SUBSET Conflict
        /\ window \in Nat \X Nat
    <3>1. replay.leases \in SUBSET Lease /\ \A l \in replay.leases : l.device \in db.devices
      BY <1>2 DEF ReplaySession, RowInv, RowsGrounded
    <3>2. QED
      BY <1>2, <3>1, MatchesType, ReassignedType DEF IdentityInv, Sound, ReplaySession
  <2> HIDE DEF matches, reassigned, window
  <2>2. LET d == Decided(matches, reassigned, window)
        IN d \in Row /\ ~Manual(d) /\ Justified(d) /\ Coherent(d, 0)
    BY <2>1, DecidedCoherent
  <2>3. row = Decided(matches, reassigned, window)
    BY DEF matches, reassigned, window
  <2> HIDE DEF row
  <2>4. QED
    BY <2>2, <2>3
<1> HIDE DEF row
<1> DEFINE c == activity[q]
           new == Upserted(c, row)
<1>4. Coherent(c, audit[q]) /\ Justified(c) /\ (c = NoRow => audit[q] = 0) /\ audit[q] \in Nat
  BY DEF DecisionInv, RowInv, RowTypes
<1>5. /\ new # NoRow /\ Justified(new) /\ Coherent(new, audit[q])
      /\ Manual(c) => new = c
  <2>1. CASE Manual(c)
    BY <1>4, <2>1 DEF Upserted, Manual
  <2>2. CASE ~Manual(c)
    <3>1. new = row /\ row # NoRow
      BY <1>3, <2>2, NoRowAssumption DEF Upserted
    <3>2. audit[q] = 0
      BY <1>4, <2>2 DEF Coherent
    <3>3. QED
      BY <1>3, <2>2, <3>1, <3>2 DEF Coherent
  <2>3. QED
    BY <2>1, <2>2
<1>6. \A p \in Query : /\ base[p] = IF p = q THEN c ELSE replay.base[p]
                       /\ work[p] = IF p = q THEN new ELSE replay.work[p]
  BY <1>2 DEF ReplaySession, Rows
<1> HIDE DEF base, work, new, c
<1>7. replay'.open /\ replay'.base = base /\ replay'.work = work
  BY <1>1, <1>2 DEF ReplaySession
<1>8. \A p \in Query : Replayed(activity[p], base[p], work[p], audit[p])
  BY <1>1, <1>5, <1>6 DEF Replayed, DecisionInv, c
<1>9. Alone'
  BY <1>1 DEF DecisionInv, Alone
<1>10. QED
  BY <1>1, <1>7, <1>8, <1>9 DEF DecisionInv

LEMMA ReplayBeginDecides ==
  ASSUME ~Overlap, DecisionInv, NEW start, NEW end, ReplayBegin(start, end)
  PROVE  DecisionInv'
<1>1. /\ UNCHANGED <<activity, audit, review>> /\ \A r \in Request : ~review[r].open
      /\ replay'.base = NoRows /\ replay'.work = NoRows
  BY DEF ReplayBegin
<1>2. \A q \in Query : Replayed(activity[q], replay'.base[q], replay'.work[q], audit[q])
  BY <1>1 DEF Replayed
<1>3. QED
  BY <1>1, <1>2 DEF DecisionInv, Alone

\* The rows a replay commits are the ones it made, and where a parent has
\* decided, what it made is what was there.
LEMMA ReplayCommitDecides ==
  ASSUME RowInv, DecisionInv, ReplayCommit
  PROVE  DecisionInv'
<1>1. /\ UNCHANGED <<audit, review>> /\ replay.open /\ replay' = NoReplay
      /\ activity' = [q \in Query |->
                        MergedRow(activity[q], replay.base[q], replay.work[q])]
  BY DEF ReplayCommit
<1>2. ASSUME NEW q \in Query
      PROVE  /\ Coherent(activity'[q], audit[q]) /\ Justified(activity'[q])
             /\ activity'[q] = NoRow => audit[q] = 0
  <2> DEFINE c == activity[q]
             b == replay.base[q]
             w == replay.work[q]
  <2>1. c \in Row \cup {NoRow} /\ w \in Row \cup {NoRow}
    BY DEF RowInv, RowTypes, Rows, ReplaySession
  <2>2. activity'[q] = MergedRow(c, b, w)
    BY <1>1
  <2>3. /\ Replayed(c, b, w, audit[q]) /\ Coherent(c, audit[q]) /\ Justified(c)
        /\ c = NoRow => audit[q] = 0
    BY <1>1 DEF DecisionInv
  <2> HIDE DEF c, b, w
  <2>4. CASE w = b
    BY <2>2, <2>3, <2>4 DEF MergedRow, c
  <2>5. CASE w # b
    <3>1. /\ b = c /\ w # NoRow /\ Coherent(w, audit[q]) /\ Justified(w)
          /\ Manual(c) => w = c
      BY <2>3, <2>5 DEF Replayed
    <3>2. MergedRow(c, c, w) = w
      BY <2>1, <3>1, MergedAlone
    <3>3. QED
      BY <2>2, <3>1, <3>2 DEF c
  <2>6. QED
    BY <2>4, <2>5
<1>3. \A r \in Request : ~review[r].open
  BY <1>1 DEF DecisionInv, Alone
<1>4. ~replay'.open
  BY <1>1 DEF NoReplay
<1>5. QED
  BY <1>1, <1>2, <1>3, <1>4 DEF DecisionInv, Alone

LEMMA ReviewBeginDecides ==
  ASSUME ~Overlap, RowInv, DecisionInv, NEW r \in Request, NEW q \in Query,
         NEW decision \in Device \cup {NoDevice}, NEW strengthen \in BOOLEAN,
         ReviewBegin(r, q, decision, strengthen)
  PROVE  DecisionInv'
<1> DEFINE s == [open |-> TRUE, query |-> q, base |-> activity[q],
                 work |-> Settled(activity[q], decision)]
<1>1. /\ UNCHANGED <<activity, audit, replay>> /\ review' = [review EXCEPT ![r] = s]
      /\ ~replay.open /\ \A p \in Request : ~review[p].open
      /\ InQueue(activity[q])
  BY DEF ReviewBegin
<1>2. \A p \in Request : review'[p] = IF p = r THEN s ELSE review[p]
  BY <1>1 DEF RowInv, RowTypes
<1>3. \A p \in Request : review'[p].open => p = r /\ review'[p] = s
  BY <1>1, <1>2
<1>4. Alone'
  BY <1>1, <1>3 DEF Alone
<1>5. QED
  BY <1>1, <1>3, <1>4 DEF DecisionInv

\* A review commits the row it settled, on a query nobody had resolved.
LEMMA ReviewCommitDecides ==
  ASSUME RowInv, DecisionInv, NEW r \in Request, ReviewCommit(r)
  PROVE  DecisionInv'
<1> DEFINE q == review[r].query
           c == activity[q]
           w == review[r].work
<1>1. /\ UNCHANGED replay /\ review[r].open
      /\ review' = [review EXCEPT ![r] = NoReview]
      /\ audit' = [audit EXCEPT ![q] = @ + 1]
      /\ activity' = [activity EXCEPT ![q] = MergedRow(c, review[r].base, w)]
  BY DEF ReviewCommit
<1>2. /\ activity \in Rows /\ audit \in [Query -> Nat]
      /\ review \in [Request -> ReviewSession] /\ q \in Query /\ c \in Row \cup {NoRow}
  BY DEF RowInv, RowTypes, ReviewSession, Rows
<1>3. PICK decision \in Device \cup {NoDevice} :
        review[r].base = c /\ InQueue(c) /\ w = Settled(c, decision)
  BY <1>1 DEF DecisionInv
<1>4. c \in Row
  BY <1>2, <1>3 DEF InQueue
<1>5. Manual(w) /\ Coherent(w, 1) /\ w \in Row
  BY <1>3, <1>4, SettledCoherent
<1>6. ~Manual(c) /\ audit[q] = 0
  <2>1. Coherent(c, audit[q]) /\ c # NoRow /\ c.review
    BY <1>2, <1>3 DEF DecisionInv, InQueue
  <2>2. QED
    BY <1>2, <2>1 DEF Coherent
<1>7. MergedRow(c, review[r].base, w) = w
  BY <1>3, <1>4, <1>5, MergedAlone
<1>8. \A p \in Query : /\ activity'[p] = IF p = q THEN w ELSE activity[p]
                       /\ audit'[p] = IF p = q THEN 1 ELSE audit[p]
  BY <1>1, <1>2, <1>6, <1>7 DEF Rows
<1>9. Justified(w) /\ w # NoRow
  BY <1>5, NoRowAssumption DEF Justified
<1>10. /\ ~replay.open /\ \A p \in Request : p # r => ~review[p].open
  BY <1>1 DEF DecisionInv, Alone
<1>11. \A p \in Request : ~review'[p].open
  BY <1>1, <1>2, <1>10 DEF NoReview
<1>12. Alone'
  BY <1>11 DEF Alone
<1>13. \A p \in Query : /\ Coherent(activity'[p], audit'[p]) /\ Justified(activity'[p])
                        /\ audit'[p] <= 1 /\ (activity'[p] = NoRow => audit'[p] = 0)
  BY <1>5, <1>8, <1>9 DEF DecisionInv
<1>14. DecisionInv'
  BY <1>1, <1>10, <1>11, <1>12, <1>13 DEF DecisionInv
<1>15. QED
  BY <1>6, <1>8, <1>14 DEF c

LEMMA DecisionStep ==
  ASSUME ~Overlap, IdentityInv, RowInv, DecisionInv, [CorrelationNext]_vars
  PROVE  DecisionInv'
<1>1. CASE UNCHANGED <<activity, audit, replay, review>>
  BY <1>1 DEF DecisionInv, Alone
<1>2. ASSUME NEW start, NEW end, ReplayBegin(start, end) PROVE DecisionInv'
  BY <1>2, ReplayBeginDecides DEF ReplayBegin
<1>3. ASSUME NEW q \in Query, ReplayQuery(q) PROVE DecisionInv'
  BY <1>3, ReplayQueryDecides DEF ReplayQuery
<1>4. CASE ReplayCommit
  BY <1>4, ReplayCommitDecides
<1>5. CASE ReplayAbort
  BY <1>5 DEF ReplayAbort, NoReplay, DecisionInv, Alone
<1>6. ASSUME NEW r \in Request, NEW q \in Query, NEW decision \in Device \cup {NoDevice},
             NEW strengthen \in BOOLEAN, ReviewBegin(r, q, decision, strengthen)
      PROVE  DecisionInv'
  BY <1>6, ReviewBeginDecides DEF ReviewBegin
<1>7. ASSUME NEW r \in Request, ReviewCommit(r) PROVE DecisionInv'
  BY <1>7, ReviewCommitDecides
<1>8. ASSUME NEW r \in Request, ReviewAbort(r) PROVE DecisionInv'
  <2>1. /\ UNCHANGED <<activity, audit, replay>>
        /\ review' = [review EXCEPT ![r] = NoReview]
    BY <1>8 DEF ReviewAbort
  <2>2. \A p \in Request : review'[p].open => review'[p] = review[p]
    BY <2>1 DEF RowInv, RowTypes, NoReview
  <2>3. Alone'
    BY <2>1, <2>2 DEF DecisionInv, Alone
  <2>4. QED
    BY <2>1, <2>2, <2>3 DEF DecisionInv
<1>9. QED
  BY <1>1, <1>2, <1>3, <1>4, <1>5, <1>6, <1>7, <1>8
  DEF CorrelationNext, ReplayNext, ReviewNext, vars, correlationVars

\* Sessions that do not overlap keep every row coherent and justified.
THEOREM DecisionInvariant ==
  ASSUME ~Overlap PROVE CorrelationSpec => []DecisionInv
<1>1. CorrelationInit => DecisionInv
  BY DEF CorrelationInit, DecisionInv, Alone, Coherent, Justified, NoRows, NoReplay,
         NoReview, Manual
<1>2. IdentityInv /\ HistoryInv /\ RowInv /\ DecisionInv /\ [CorrelationNext]_vars
        => DecisionInv'
  BY DecisionStep
<1>3. QED
  BY <1>1, <1>2, CorrelationInvariant, PTL DEF CorrelationSpec

\* Without overlapping sessions the program never guesses: what it attributes
\* on its own has one candidate, no conflict and enough confidence.
THEOREM AttributionJustified ==
  ASSUME ~Overlap PROVE CorrelationSpec => []NeverGuess
<1>1. DecisionInv => NeverGuess
  BY DEF DecisionInv, Justified, NeverGuess
<1>2. QED
  BY <1>1, DecisionInvariant, PTL

\* Without overlapping sessions the columns of a row agree with each other and
\* with the audit log, and a query is resolved at most once.
THEOREM ReviewCorrect ==
  ASSUME ~Overlap PROVE CorrelationSpec => [](RowCoherent /\ ResolvedOnce)
<1>1. DecisionInv => RowCoherent /\ ResolvedOnce
  BY DEF DecisionInv, Coherent, RowCoherent, ResolvedOnce
<1>2. QED
  BY <1>1, DecisionInvariant, PTL

-----------------------------------------------------------------------------
(***************************************************************************)
(* Decisions when sessions overlap.  A session that still reads what is    *)
(* committed leaves a decision alone; the steps below ask no more.         *)
(***************************************************************************)

\* A replay keeps a decision it has read, and a review reads no decided row
\* that has left the queue.
StaleInv ==
  /\ \A q \in Query : Manual(replay.base[q]) => replay.work[q] = replay.base[q]
  /\ \A r \in Request : review[r].open => InQueue(review[r].base)

LEMMA StaleInvStep == RowInv /\ StaleInv /\ [CorrelationNext]_vars => StaleInv'
<1> SUFFICES ASSUME RowInv, StaleInv, [CorrelationNext]_vars PROVE StaleInv'
  OBVIOUS
<1>1. CASE UNCHANGED <<replay, review>>
  BY <1>1 DEF StaleInv
<1>2. /\ replay \in ReplaySession /\ review \in [Request -> ReviewSession]
      /\ ~NoReview.open /\ \A q \in Query : NoRows[q] = NoRow
  BY DEF RowInv, RowTypes, NoReview, NoRows
<1>3. ASSUME replay'.base = NoRows, UNCHANGED review PROVE StaleInv'
  BY <1>2, <1>3 DEF StaleInv, Manual
<1>4. ASSUME NEW q \in Query, ReplayQuery(q) PROVE StaleInv'
  <2> DEFINE row == Decided(Matches(q, replay.leases),
                            Reassigned(replay.leases, QueryOf[q].ip, replay.window),
                            replay.window)
             base == [replay.base EXCEPT ![q] = activity[q]]
             work == [replay.work EXCEPT ![q] = Upserted(activity[q], row)]
  <2>1. /\ UNCHANGED review
        /\ replay' = [replay EXCEPT !.todo = @ \ {q}, !.base = base, !.work = work]
    BY <1>4 DEF ReplayQuery
  <2> HIDE DEF row
  <2>2. \A p \in Query : /\ base[p] = IF p = q THEN activity[q] ELSE replay.base[p]
                         /\ work[p] = IF p = q THEN Upserted(activity[q], row)
                                      ELSE replay.work[p]
    BY <1>2 DEF ReplaySession, Rows
  <2> HIDE DEF base, work
  <2>3. replay'.base = base /\ replay'.work = work
    BY <1>2, <2>1 DEF ReplaySession
  <2>4. QED
    BY <2>1, <2>2, <2>3 DEF StaleInv, Upserted
<1>5. ASSUME NEW r \in Request, NEW q \in Query, NEW decision \in Device \cup {NoDevice},
             NEW strengthen \in BOOLEAN, ReviewBegin(r, q, decision, strengthen)
      PROVE  StaleInv'
  <2>1. /\ UNCHANGED replay /\ InQueue(activity[q])
        /\ review' = [review EXCEPT ![r] =
             [open |-> TRUE, query |-> q, base |-> activity[q],
              work |-> Settled(activity[q], decision)]]
    BY <1>5 DEF ReviewBegin
  <2>2. QED
    BY <1>2, <2>1 DEF StaleInv
<1>6. ASSUME NEW r \in Request, ReviewCommit(r) \/ ReviewAbort(r) PROVE StaleInv'
  <2>1. UNCHANGED replay /\ review' = [review EXCEPT ![r] = NoReview]
    BY <1>6 DEF ReviewCommit, ReviewAbort
  <2>2. QED
    BY <1>2, <2>1 DEF StaleInv
<1>7. ASSUME NEW start, NEW end, ReplayBegin(start, end) PROVE StaleInv'
  BY <1>3, <1>7 DEF ReplayBegin
<1>8. CASE ReplayCommit \/ ReplayAbort
  BY <1>3, <1>8 DEF ReplayCommit, ReplayAbort, NoReplay
<1>9. QED
  BY <1>1, <1>4, <1>5, <1>6, <1>7, <1>8
  DEF CorrelationNext, ReplayNext, ReviewNext, vars, correlationVars

\* Whether sessions overlap or not, a parent's decision that has left the queue
\* is only ever changed by a session that had read the row before.
THEOREM DecisionFinal == CorrelationSpec => DecisionFinalUnlessStale
<1> DEFINE Touched(q) == /\ Manual(activity[q]) /\ ~activity[q].review
                         /\ activity'[q] # activity[q] \/ audit'[q] # audit[q]
           Stale(q) ==
             \/ replay.open /\ ~replay'.open /\ replay.base[q] # activity[q]
             \/ \E r \in Request : /\ review[r].open /\ ~review'[r].open
                                   /\ review[r].query = q /\ review[r].base # activity[q]
<1>1. CorrelationInit => StaleInv
  BY DEF CorrelationInit, StaleInv, NoReplay, NoReview, NoRows, Manual
<1>2. RowInv /\ StaleInv /\ [CorrelationNext]_vars
        => [\A q \in Query : Touched(q) => Stale(q)]_vars
  <2> SUFFICES ASSUME RowInv, StaleInv, CorrelationNext, NEW q \in Query, Touched(q)
               PROVE  Stale(q)
    OBVIOUS
  <2>1. CASE ReplayCommit
    <3>1. /\ replay.open /\ ~replay'.open /\ audit' = audit
          /\ activity'[q] = MergedRow(activity[q], replay.base[q], replay.work[q])
      BY <2>1 DEF ReplayCommit, NoReplay
    <3>2. CASE replay.base[q] = activity[q]
      BY <3>1, <3>2 DEF StaleInv, MergedRow
    <3>3. QED
      BY <3>1, <3>2
  <2>2. ASSUME NEW r \in Request, ReviewCommit(r) PROVE Stale(q)
    <3>1. /\ review[r].open /\ review' = [review EXCEPT ![r] = NoReview]
          /\ activity' = [activity EXCEPT ![review[r].query] =
                            MergedRow(@, review[r].base, review[r].work)]
          /\ audit' = [audit EXCEPT ![review[r].query] = @ + 1]
      BY <2>2 DEF ReviewCommit
    <3>2. /\ activity \in Rows /\ audit \in [Query -> Nat]
          /\ review \in [Request -> ReviewSession]
      BY DEF RowInv, RowTypes
    <3>3. review[r].query = q
      BY <3>1, <3>2 DEF Rows
    <3>4. ~review'[r].open
      BY <3>1, <3>2 DEF NoReview
    <3>5. review[r].base.review
      BY <3>1 DEF StaleInv, InQueue
    <3>6. QED
      BY <3>1, <3>3, <3>4, <3>5
  <2>3. CASE UNCHANGED <<activity, audit>>
    BY <2>3
  <2>4. QED
    BY <2>1, <2>2, <2>3
    DEF CorrelationNext, ReplayNext, ReviewNext, correlationVars, ReplayBegin, ReplayQuery,
        ReplayAbort, ReviewBegin, ReviewAbort
<1>3. QED
  BY <1>1, <1>2, StaleInvStep, CorrelationInvariant, PTL
  DEF CorrelationSpec, DecisionFinalUnlessStale

-----------------------------------------------------------------------------
(***************************************************************************)
(* A review and its confirmation are one transaction.                      *)
(***************************************************************************)

\* A confirmation under way belongs to a review under way, changes nothing but
\* the name of its query, and gives that name to the device decided.
ConfirmInv ==
  \A r \in Request : request[r].open =>
    /\ review[r].open
    /\ \A k \in Key : request[r].work.owner[k] # request[r].base.owner[k] =>
         k \in NameKey /\ k[2] = QueryOf[review[r].query].name
    /\ \A k \in NameKey : k[2] = QueryOf[review[r].query].name =>
         request[r].work.owner[k] = review[r].work.evidence.manual

LEMMA ConfirmedNames ==
  ASSUME NEW v \in Database, NEW d \in Device, NEW n \in Name, NEW at \in Nat
  PROVE  LET w == Confirmed(v, d, {"pihole_client", "hostname"} \X {n}, at)
         IN /\ \A k \in Key : w.owner[k] # v.owner[k] => k \in NameKey /\ k[2] = n
            /\ \A k \in NameKey : k[2] = n => w.owner[k] = d
<1> DEFINE K == {"pihole_client", "hostname"} \X {n}
           M == K \ {k \in K \cap StrongKey : v.owner[k] \notin {d, NoDevice}}
           owner == [k \in Key |-> IF k \in M THEN d ELSE v.owner[k]]
<1>1. Confirmed(v, d, K, at).owner = owner
  BY DEF Confirmed, Database
<1>2. K \subseteq NameKey /\ (\A k \in K : k[2] = n) /\ \A k \in NameKey : k[2] = n => k \in K
  BY DEF NameKey
<1>3. M = K
  BY <1>2, NamesAreWeak
<1> HIDE DEF K, M
<1>4. QED
  BY <1>1, <1>2, <1>3, KeyParts DEF K

LEMMA ConfirmInvStep ==
  IdentityInv /\ RowInv /\ ConfirmInv /\ [CorrelationNext]_vars => ConfirmInv'
<1> SUFFICES ASSUME IdentityInv, RowInv, ConfirmInv, [CorrelationNext]_vars PROVE ConfirmInv'
  OBVIOUS
<1>1. CASE UNCHANGED <<request, review>>
  BY <1>1 DEF ConfirmInv
<1>2. /\ request \in [Request -> Session] /\ review \in [Request -> ReviewSession]
      /\ db \in Database /\ activity \in Rows
  BY DEF IdentityInv, Sound, RowInv, RowTypes
<1>3. ASSUME NEW r \in Request, NEW q \in Query, NEW decision \in Device \cup {NoDevice},
             NEW strengthen \in BOOLEAN, ReviewBegin(r, q, decision, strengthen)
      PROVE  ConfirmInv'
  <2> DEFINE s == [open |-> TRUE, query |-> q, base |-> activity[q],
                   work |-> Settled(activity[q], decision)]
  <2>1. /\ ~review[r].open /\ review' = [review EXCEPT ![r] = s]
        /\ InQueue(activity[q])
    BY <1>3 DEF ReviewBegin
  <2>2. s.query = q /\ s.open /\ s.work.evidence.manual = decision
    BY <1>2, <2>1, SettledShape DEF InQueue, Rows
  <2> HIDE DEF s
  <2>3. \A p \in Request : review'[p] = IF p = r THEN s ELSE review[p]
    BY <1>2, <2>1
  <2>4. CASE strengthen /\ QueryOf[q].name # Absent
    <3> DEFINE n == QueryOf[q].name
               at == QueryOf[q].at
               w == Confirmed(db, decision, {"pihole_client", "hostname"} \X {n}, at)
               c == [open |-> TRUE, at |-> at, left |-> 0, base |-> db, work |-> w]
    <3>1. request' = [request EXCEPT ![r] = c] /\ decision # NoDevice
      BY <1>3, <2>4 DEF ReviewBegin, ConfirmBegin
    <3>2. n \in Name /\ at \in Nat /\ decision \in Device
      BY <2>4, <3>1, CorrelationAssumption, IdentityAssumption
    <3> HIDE DEF n, at
    <3>3. /\ \A k \in Key : w.owner[k] # db.owner[k] => k \in NameKey /\ k[2] = n
          /\ \A k \in NameKey : k[2] = n => w.owner[k] = decision
      <4>1. db \in Database
        BY <1>2
      <4>2. LET x == Confirmed(db, decision, {"pihole_client", "hostname"} \X {n}, at)
            IN /\ \A k \in Key : x.owner[k] # db.owner[k] => k \in NameKey /\ k[2] = n
               /\ \A k \in NameKey : k[2] = n => x.owner[k] = decision
        BY <3>2, <4>1, ConfirmedNames
      <4>3. QED
        BY <4>2
    <3> HIDE DEF w
    <3>4. \A p \in Request : request'[p] = IF p = r THEN c ELSE request[p]
      BY <1>2, <3>1
    <3>5. QED
      BY <2>2, <2>3, <3>3, <3>4 DEF ConfirmInv, n
  <2>5. CASE UNCHANGED request
    BY <2>1, <2>3, <2>5 DEF ConfirmInv
  <2>6. QED
    BY <1>3, <2>4, <2>5 DEF ReviewBegin, identityVars
<1>4. ASSUME NEW r \in Request, ReviewCommit(r) \/ ReviewAbort(r) PROVE ConfirmInv'
  <2>1. \A p \in Request : p # r => review'[p] = review[p]
    BY <1>2, <1>4 DEF ReviewCommit, ReviewAbort
  <2>2. \/ request' = [request EXCEPT ![r] = ClosedSession]
        \/ ~request[r].open /\ request' = request
    BY <1>4 DEF ReviewCommit, ReviewAbort, CommitConfirmation, ConfirmCommit, ConfirmAbort,
                identityVars
  <2>3. \A p \in Request : request'[p].open => p # r /\ request'[p] = request[p]
    BY <1>2, <2>2 DEF ClosedSession
  <2>4. QED
    BY <2>1, <2>3 DEF ConfirmInv
<1>5. CASE (Tick \/ PollNext) /\ UNCHANGED correlationVars
  BY <1>1, <1>5 DEF Tick, PollNext, PollBegin, PollClient, PollCommit, PollAbort, correlationVars
<1>6. CASE ReplayNext
  BY <1>1, <1>6 DEF ReplayNext, ReplayBegin, ReplayQuery, ReplayCommit, ReplayAbort, identityVars
<1>7. QED
  BY <1>1, <1>3, <1>4, <1>5, <1>6 DEF CorrelationNext, ReviewNext, vars

\* Whether sessions overlap or not, a name is moved by a recorded decision to
\* the device decided, and such a decision has moved it.
THEOREM BindingsFollowDecisions == CorrelationSpec => BindingMovesWithDecision
<1> DEFINE Moved(k) ==
             \E r \in Request : /\ Resolves(r)
                                /\ k \in NameKey /\ k[2] = QueryOf[review[r].query].name
                                /\ db'.owner[k] = review[r].work.evidence.manual
           Strengthened(r) ==
             \A k \in NameKey : k[2] = QueryOf[review[r].query].name =>
               review[r].work.evidence.manual \in {db'.owner[k], request[r].base.owner[k]}
           Goal == /\ \A k \in Key : db.owner[k] # NoDevice /\ db'.owner[k] # db.owner[k]
                                       => Moved(k)
                   /\ \A r \in Request : Resolves(r) /\ request[r].open => Strengthened(r)
<1>1. CorrelationInit => ConfirmInv
  BY DEF CorrelationInit, IdentityInit, ConfirmInv, ClosedSession
<1>2. IdentityInv /\ RowInv /\ ConfirmInv /\ [CorrelationNext]_vars => [Goal]_vars
  <2> SUFFICES ASSUME IdentityInv, RowInv, ConfirmInv, CorrelationNext PROVE Goal
    OBVIOUS
  <2>1. audit \in [Query -> Nat] /\ review \in [Request -> ReviewSession]
    BY DEF RowInv, RowTypes
  <2>2. \A r \in Request : review[r].query \in Query
    BY <2>1 DEF ReviewSession
  <2>3. ASSUME UNCHANGED audit PROVE \A r \in Request : ~Resolves(r)
    BY <2>1, <2>2, <2>3 DEF Resolves
  <2>4. ASSUME NEW r \in Request, ReviewCommit(r) PROVE Goal
    <3>1. /\ review[r].open /\ review' = [review EXCEPT ![r] = NoReview]
          /\ audit' = [audit EXCEPT ![review[r].query] = @ + 1]
          /\ CommitConfirmation(r)
      BY <2>4 DEF ReviewCommit
    <3>2. Resolves(r) /\ \A p \in Request : Resolves(p) => p = r
      BY <2>1, <2>2, <3>1 DEF Resolves, NoReview
    <3>3. CASE ~request[r].open
      <4>1. db' = db
        BY <3>1, <3>3 DEF CommitConfirmation, identityVars
      <4>2. QED
        BY <3>2, <3>3, <4>1
    <3>4. CASE request[r].open
      <4> DEFINE s == request[r]
                 manual == review[r].work.evidence.manual
                 name == QueryOf[review[r].query].name
      <4>1. db' = Written(s)
        BY <3>1, <3>4 DEF CommitConfirmation, ConfirmCommit
      <4>2. \A k \in Key : db'.owner[k] = IF s.work.owner[k] # s.base.owner[k]
                                          THEN s.work.owner[k] ELSE db.owner[k]
        BY <4>1 DEF Written, MergedColumn
      <4>3. /\ \A k \in Key : s.work.owner[k] # s.base.owner[k] => k \in NameKey /\ k[2] = name
            /\ \A k \in NameKey : k[2] = name => s.work.owner[k] = manual
        BY <3>4 DEF ConfirmInv
      <4>4. Strengthened(r)
        BY <4>2, <4>3, KeyParts
      <4>5. \A k \in Key : db'.owner[k] # db.owner[k] => Moved(k)
        BY <3>2, <4>2, <4>3
      <4>6. QED
        BY <3>2, <4>4, <4>5
    <3>5. QED
      BY <3>3, <3>4
  <2>5. CASE PollCommit /\ UNCHANGED correlationVars
    <3>1. \A k \in Key : db.owner[k] # NoDevice => db'.owner[k] = db.owner[k]
      BY <2>5, PollWritten DEF PollCommit
    <3>2. QED
      BY <2>3, <2>5, <3>1 DEF correlationVars
  <2>6. CASE UNCHANGED <<db, audit>>
    BY <2>3, <2>6
  <2>7. QED
    BY <2>4, <2>5, <2>6
    DEF CorrelationNext, PollNext, ReplayNext, ReviewNext, correlationVars, identityVars, Tick,
        PollBegin, PollClient, PollAbort, ReplayBegin, ReplayQuery, ReplayCommit, ReplayAbort,
        ReviewBegin, ReviewAbort, ConfirmBegin, ConfirmAbort
<1>3. QED
  BY <1>1, <1>2, ConfirmInvStep, CorrelationInvariant, PTL
  DEF CorrelationSpec, BindingMovesWithDecision
=============================================================================
