--------------------------- MODULE SourceHealthProofs ---------------------------
(***************************************************************************)
(* Proofs about SourceHealth: the count of failures that decides whether a *)
(* source is down survives every overlap of cycles and reports.            *)
(***************************************************************************)
EXTENDS SourceHealth, TLAPS

Rows == Health \cup {None}
Readers == Reader \cup {Check}

(***************************************************************************)
(* The inductive invariant.  A transaction that is under way has the count *)
(* of the committed row, since the source has no other writer; and a row   *)
(* that was read is still there when a status is written to it.            *)
(***************************************************************************)
CycleState == [phase : {"none", "read", "locked"}, base : Rows, row : Rows, alarms : Nat]
ReportState == [open : BOOLEAN, base : [Source -> Rows], row : [Source -> Rows],
                passed : SUBSET Source]

Types ==
  /\ clock \in Nat
  /\ saved \in SavedLimits \cup {None}
  /\ health \in [Source -> Rows]
  /\ cycle \in [Source -> CycleState]
  /\ report \in [Readers -> ReportState]
  /\ alarms \in [Source -> Nat]
  /\ streak \in [Source -> Nat]

CycleCounts ==
  \A s \in Source : cycle[s].phase # "none" =>
    /\ cycle[s].row # None /\ cycle[s].row.failures = streak[s]
    /\ cycle[s].base # None => health[s] # None

ReportReads ==
  \A r \in Readers, s \in Source :
    report[r].row[s] # None => report[r].base[s] # None /\ health[s] # None

HealthInv == Types /\ CycleCounts /\ ReportReads /\ FailuresCounted

-----------------------------------------------------------------------------
LEMMA AppliedType ==
  ASSUME NEW row \in Health, NEW limits, NEW now
  PROVE  /\ Applied(row, limits, now) \in Health
         /\ Applied(row, limits, now) # None
         /\ Applied(row, limits, now).failures = row.failures
<1>1. Evaluated(row, limits, now) \in Status
  BY DEF Evaluated, Status
<1>2. QED
  BY <1>1, NoneIsNoRow DEF Applied, Health

LEMMA CreatedType ==
  ASSUME NEW row \in Rows
  PROVE  /\ Created(row) \in Health
         /\ Created(row).failures = IF row = None THEN 0 ELSE row.failures
BY DEF Created, Rows, Health, Status

\* A status that is written to a row leaves it a row with its count.
LEMMA StatusWritten ==
  ASSUME NEW row \in Health, NEW status \in Status
  PROVE  /\ [row EXCEPT !.status = status] \in Health
         /\ [row EXCEPT !.status = status] # None
         /\ [row EXCEPT !.status = status].failures = row.failures
BY NoneIsNoRow DEF Health

LEMMA InitHealthInv == Init => HealthInv
<1> SUFFICES ASSUME Init PROVE HealthInv
  OBVIOUS
<1>1. NoCycle \in CycleState /\ NoReport \in ReportState
  BY DEF NoCycle, CycleState, NoReport, ReportState, Rows
<1>2. Types
  BY <1>1 DEF Types, Init, Rows, Readers
<1>3. CycleCounts /\ ReportReads /\ FailuresCounted
  BY DEF Init, CycleCounts, ReportReads, FailuresCounted, NoCycle, NoReport, Readers
<1>4. QED
  BY <1>2, <1>3 DEF HealthInv

-----------------------------------------------------------------------------
LEMMA AttemptKeeps ==
  ASSUME HealthInv, NEW s \in Source, Attempt(s)
  PROVE  HealthInv'
<1> DEFINE row == Applied(Created(health[s]), WriterLimits(s), clock)
           now == [phase |-> "read", base |-> health[s], row |-> row,
                   alarms |-> Alarm(Created(health[s]).status, row.status)]
<1>1. health[s] \in Rows
  BY DEF HealthInv, Types
<1>2. Created(health[s]) \in Health
  BY <1>1, CreatedType
<1>3. row \in Health /\ row # None /\ row.failures = Created(health[s]).failures
  BY <1>2, AppliedType
<1>4. row.failures = streak[s]
  BY <1>1, <1>3, CreatedType DEF HealthInv, FailuresCounted
<1>5. Alarm(Created(health[s]).status, row.status) \in Nat
  BY DEF Alarm
<1>6. now \in CycleState
  BY <1>1, <1>3, <1>5 DEF CycleState, Rows
<1>7. cycle' = [cycle EXCEPT ![s] = now] /\ UNCHANGED <<clock, saved, health, report, alarms, streak>>
  BY DEF Attempt
<1> HIDE DEF row
<1>8. Types'
  BY <1>6, <1>7 DEF HealthInv, Types
<1>9. CycleCounts'
  BY <1>3, <1>4, <1>7 DEF HealthInv, Types, CycleCounts
<1>10. ReportReads' /\ FailuresCounted'
  BY <1>7 DEF HealthInv, ReportReads, FailuresCounted
<1>11. QED
  BY <1>8, <1>9, <1>10 DEF HealthInv

LEMMA FlushKeeps ==
  ASSUME HealthInv, NEW s \in Source, Flush(s)
  PROVE  HealthInv'
<1> DEFINE c == cycle[s]
           kept == c.base # None /\ c.row.status = c.base.status
           status == IF kept THEN health[s].status ELSE c.row.status
           row == [c.row EXCEPT !.status = status]
<1>1. c \in CycleState /\ c.row # None /\ c.row.failures = streak[s]
  BY DEF HealthInv, Types, CycleCounts, Flush
<1>2. c.row \in Health
  BY <1>1 DEF CycleState, Rows
<1>3. status \in Status
  BY <1>2 DEF HealthInv, Types, CycleCounts, Flush, Rows, Health
<1>4. row \in Health /\ row # None /\ row.failures = streak[s]
  BY <1>1, <1>2, <1>3, StatusWritten
<1>5. /\ cycle' = [cycle EXCEPT ![s] = [c EXCEPT !.phase = "locked", !.row = row]]
      /\ UNCHANGED <<clock, saved, health, report, alarms, streak>>
  BY <1>1 DEF Flush, CycleState, HealthInv, Types
<1>6. [c EXCEPT !.phase = "locked", !.row = row] \in CycleState
  BY <1>1, <1>4 DEF CycleState, Rows
<1>7. c.base # None => health[s] # None
  BY DEF HealthInv, CycleCounts, Flush
<1>8. [c EXCEPT !.phase = "locked", !.row = row].row = row
      /\ [c EXCEPT !.phase = "locked", !.row = row].base = c.base
  BY <1>1 DEF CycleState
<1> HIDE DEF row, c
<1>9. Types'
  BY <1>5, <1>6 DEF HealthInv, Types
<1>10. CycleCounts'
  BY <1>4, <1>5, <1>7, <1>8 DEF HealthInv, Types, CycleCounts
<1>11. ReportReads' /\ FailuresCounted'
  BY <1>5 DEF HealthInv, ReportReads, FailuresCounted
<1>12. QED
  BY <1>9, <1>10, <1>11 DEF HealthInv

\* A cycle that commits a row with the count n.
LEMMA CommittedKeeps ==
  ASSUME HealthInv, NEW s \in Source, NEW row \in Health, NEW a \in Nat, NEW n \in Nat,
         row.failures = n, Committed(s, row),
         alarms' = [alarms EXCEPT ![s] = a], streak' = [streak EXCEPT ![s] = n]
  PROVE  HealthInv'
<1>1. NoCycle \in CycleState /\ NoCycle.phase = "none" /\ row \in Rows /\ row # None
  BY NoneIsNoRow DEF NoCycle, CycleState, Rows
<1>2. /\ health' = [health EXCEPT ![s] = row] /\ cycle' = [cycle EXCEPT ![s] = NoCycle]
      /\ UNCHANGED <<clock, saved>>
  BY DEF Committed
<1>3. /\ report' \in [Readers -> ReportState]
      /\ \A r \in Readers : report'[r].row = report[r].row /\ report'[r].base = report[r].base
  <2>1. report' = [r \in Readers |-> IF report[r].open /\ s # Syslog
                     THEN [report[r] EXCEPT !.passed = @ \cup {s}] ELSE report[r]]
    BY DEF Committed, HealthInv, Types
  <2>2. ASSUME NEW r \in Readers
        PROVE  /\ report'[r] \in ReportState
               /\ report'[r].row = report[r].row /\ report'[r].base = report[r].base
    <3>1. report[r] \in ReportState
      BY DEF HealthInv, Types
    <3>2. QED
      BY <2>1, <3>1 DEF ReportState
  <2>3. QED
    BY <2>1, <2>2
<1>4. Types'
  BY <1>1, <1>2, <1>3 DEF HealthInv, Types
<1>5. CycleCounts'
  BY <1>1, <1>2 DEF HealthInv, Types, CycleCounts
<1>6. ReportReads'
  BY <1>1, <1>2, <1>3 DEF HealthInv, Types, ReportReads
<1>7. FailuresCounted'
  BY <1>1, <1>2 DEF HealthInv, Types, FailuresCounted
<1>8. QED
  BY <1>4, <1>5, <1>6, <1>7 DEF HealthInv

LEMMA SuccessKeeps ==
  ASSUME HealthInv, NEW s \in Source, Success(s)
  PROVE  HealthInv'
<1>1. cycle[s].row \in Health /\ clock \in Nat
  BY DEF HealthInv, Types, CycleCounts, Success, CycleState, Rows
<1>2. Succeeded(cycle[s].row) \in Health /\ Succeeded(cycle[s].row).failures = 0
  BY <1>1 DEF Succeeded, Health
<1> DEFINE row == Applied(Succeeded(cycle[s].row), WriterLimits(s), clock)
<1>3. row \in Health /\ row.failures = 0
  BY <1>2, AppliedType
<1>4. /\ Committed(s, row)
      /\ alarms' = [alarms EXCEPT ![s] = 0] /\ streak' = [streak EXCEPT ![s] = 0]
  BY DEF Success
<1> HIDE DEF row
<1>5. 0 \in Nat
  OBVIOUS
<1>6. QED
  BY <1>3, <1>4, <1>5, CommittedKeeps, Zenon

LEMMA FailureKeeps ==
  ASSUME HealthInv, NEW s \in Source, Failure(s)
  PROVE  HealthInv'
<1> DEFINE failed == [cycle[s].row EXCEPT !.failures = @ + 1]
           row == Applied(failed, WriterLimits(s), clock)
           sum == alarms[s] + cycle[s].alarms + Alarm(cycle[s].row.status, row.status)
<1>1. cycle[s] \in CycleState /\ cycle[s].row \in Health /\ cycle[s].row.failures = streak[s]
  BY DEF HealthInv, Types, CycleCounts, Failure, CycleState, Rows
<1>2. failed \in Health /\ failed.failures = streak[s] + 1
  BY <1>1 DEF Health
<1>3. row \in Health /\ row.failures = streak[s] + 1 /\ streak[s] + 1 \in Nat
  <2>1. streak[s] + 1 \in Nat
    BY DEF HealthInv, Types
  <2> HIDE DEF failed
  <2>2. QED
    BY <1>2, <2>1, AppliedType
<1>4. sum \in Nat
  <2>1. alarms[s] \in Nat /\ cycle[s].alarms \in Nat
    BY <1>1 DEF CycleState, HealthInv, Types
  <2>2. QED
    BY <2>1 DEF Alarm
<1>5. /\ Committed(s, row) /\ alarms' = [alarms EXCEPT ![s] = sum]
      /\ streak' = [streak EXCEPT ![s] = streak[s] + 1]
  BY DEF Failure, HealthInv, Types
<1> HIDE DEF row, sum
<1>6. QED
  BY <1>3, <1>4, <1>5, CommittedKeeps

LEMMA AbortKeeps ==
  ASSUME HealthInv, NEW s \in Source, Abort(s)
  PROVE  HealthInv'
<1>1. NoCycle \in CycleState /\ NoCycle.phase = "none"
  BY DEF NoCycle, CycleState, Rows
<1>2. QED
  BY <1>1 DEF Abort, HealthInv, Types, CycleCounts, ReportReads, FailuresCounted

-----------------------------------------------------------------------------
LEMMA BeginKeeps ==
  ASSUME HealthInv, NEW r \in Readers, ReportBegin(r)
  PROVE  HealthInv'
<1> DEFINE base == Selected(r)
           row == [s \in Source |-> Refreshed(r, Selected(r)[s])]
           now == [open |-> TRUE, base |-> base, row |-> row, passed |-> {}]
<1>1. ASSUME NEW s \in Source
      PROVE  /\ base[s] \in Rows /\ row[s] \in Rows
             /\ row[s] # None => base[s] # None /\ health[s] # None
  <2>1. base[s] \in Rows /\ (base[s] # None => health[s] # None)
    BY DEF Selected, HealthInv, Types, Rows
  <2>2. base[s] # None => Refreshed(r, base[s]) \in Health
    BY <2>1, AppliedType DEF Refreshed, Rows
  <2>3. base[s] = None => Refreshed(r, base[s]) = None
    BY DEF Refreshed
  <2>4. QED
    BY <2>1, <2>2, <2>3 DEF Rows
<1>2. base \in [Source -> Rows] /\ row \in [Source -> Rows]
  BY <1>1 DEF Selected
<1> HIDE DEF base, row
<1>3. now \in ReportState /\ now.row = row /\ now.base = base
  BY <1>2 DEF ReportState
<1>4. report' = [report EXCEPT ![r] = now] /\ UNCHANGED <<clock, saved, health, cycle, alarms, streak>>
  BY DEF ReportBegin, base, row
<1>5. Types'
  BY <1>3, <1>4 DEF HealthInv, Types
<1>6. ReportReads'
  BY <1>1, <1>3, <1>4 DEF HealthInv, Types, ReportReads
<1>7. CycleCounts' /\ FailuresCounted'
  BY <1>4 DEF HealthInv, CycleCounts, FailuresCounted
<1>8. QED
  BY <1>5, <1>6, <1>7 DEF HealthInv

\* What a report writes to a row: it stays a row, with its count.
LEMMA StoredCount ==
  ASSUME HealthInv, NEW r \in Readers, NEW s \in Touched(r)
  PROVE  Stored(r, s) \in Health /\ Stored(r, s) # None
         /\ Stored(r, s).failures = health[s].failures /\ health[s] # None
<1>1. s \in Source /\ report[r].row[s] # None
  BY DEF Touched
<1>2. health[s] \in Health /\ health[s] # None
  BY <1>1 DEF HealthInv, Types, ReportReads, Rows
<1>3. report[r].row[s].status \in Status
  BY <1>1 DEF HealthInv, Types, ReportState, Rows, Health
<1>4. QED
  BY <1>2, <1>3, StatusWritten DEF Stored

LEMMA CommitKeeps ==
  ASSUME HealthInv, NEW r \in Readers, ReportCommit(r)
  PROVE  HealthInv'
<1>1. NoReport \in ReportState /\ \A s \in Source : NoReport.row[s] = None
  BY DEF NoReport, ReportState, Rows
<1>2. /\ report' = [report EXCEPT ![r] = NoReport]
      /\ UNCHANGED <<clock, saved, cycle, alarms, streak>>
      /\ health' = [s \in Source |-> IF s \in Touched(r) THEN Stored(r, s) ELSE health[s]]
  BY DEF ReportCommit
<1>3. ASSUME NEW s \in Source
      PROVE  /\ health'[s] \in Rows
             /\ health'[s] = None <=> health[s] = None
             /\ health[s] # None => health'[s].failures = health[s].failures
  <2>1. CASE s \in Touched(r)
    BY <2>1, <1>2, StoredCount DEF Rows
  <2>2. CASE s \notin Touched(r)
    BY <2>2, <1>2 DEF HealthInv, Types
  <2>3. QED
    BY <2>1, <2>2
<1>4. Types'
  BY <1>1, <1>2, <1>3 DEF HealthInv, Types
<1>5. CycleCounts'
  BY <1>2, <1>3 DEF HealthInv, CycleCounts
<1>6. ReportReads'
  BY <1>1, <1>2, <1>3 DEF HealthInv, Types, ReportReads
<1>7. FailuresCounted'
  BY <1>2, <1>3 DEF HealthInv, FailuresCounted
<1>8. QED
  BY <1>4, <1>5, <1>6, <1>7 DEF HealthInv

LEMMA ReportAbortKeeps ==
  ASSUME HealthInv, NEW r \in Readers, ReportAbort(r)
  PROVE  HealthInv'
<1>1. NoReport \in ReportState /\ \A s \in Source : NoReport.row[s] = None
  BY DEF NoReport, ReportState, Rows
<1>2. QED
  BY <1>1 DEF ReportAbort, HealthInv, Types, CycleCounts, ReportReads, FailuresCounted

LEMMA NextKeepsHealthInv == HealthInv /\ [Next]_vars => HealthInv'
<1> SUFFICES ASSUME HealthInv, [Next]_vars PROVE HealthInv'
  OBVIOUS
<1>1. CASE Tick
  BY <1>1 DEF Tick, HealthInv, Types, CycleCounts, ReportReads, FailuresCounted
<1>2. CASE CycleNext
  BY <1>2, AttemptKeeps, FlushKeeps, SuccessKeeps, FailureKeeps, AbortKeeps DEF CycleNext, CycleEnd
<1>3. CASE ReportNext
  BY <1>3, BeginKeeps, CommitKeeps, ReportAbortKeeps DEF ReportNext, Readers
<1>4. CASE \E limits \in SavedLimits : Save(limits)
  BY <1>4 DEF Save, HealthInv, Types, CycleCounts, ReportReads, FailuresCounted
<1>5. CASE UNCHANGED vars
  BY <1>5 DEF vars, HealthInv, Types, CycleCounts, ReportReads, FailuresCounted
<1>6. QED
  BY <1>1, <1>2, <1>3, <1>4, <1>5 DEF Next

\* Whatever readers overlap the cycles of a source, by whatever limits, the
\* stored count is the number of its failed cycles since the last success.
THEOREM FailuresCountedAlways == Spec => []FailuresCounted
<1>1. HealthInv => FailuresCounted
  BY DEF HealthInv
<1>2. QED
  BY <1>1, InitHealthInv, NextKeepsHealthInv, PTL DEF Spec

-----------------------------------------------------------------------------
(***************************************************************************)
(* A source that never succeeded is down, in the table and in every open   *)
(* transaction: a cycle has the success of the committed row, and a row    *)
(* without success was read without one.                                   *)
(***************************************************************************)
Settled(row) == row.success = None => row.status = "down"

SettledAt(s) ==
  /\ health[s] # None => Settled(health[s])
  /\ cycle[s].phase # "none" =>
       /\ Settled(cycle[s].row)
       /\ health[s] # None => cycle[s].row.success = health[s].success
  /\ \A r \in Readers : report[r].row[s] # None =>
       /\ Settled(report[r].row[s])
       /\ health[s].success = None => report[r].row[s].success = None

SettledInv == clock \in 0..MaxTime /\ \A s \in Source : SettledAt(s)

\* What the derived status says of the two columns it is derived from.
LEMMA AppliedSays ==
  ASSUME NEW row \in Health, NEW limits, NEW now
  PROVE  /\ Applied(row, limits, now).success = row.success
         /\ Applied(row, limits, now).failures = row.failures
         /\ Settled(Applied(row, limits, now))
         /\ Applied(row, limits, now).status = "down"
              => row.success = None \/ row.failures >= limits.failures
<1> DEFINE status == Evaluated(row, limits, now)
<1>1. /\ row.success = None => status = "down"
      /\ status = "down" => row.success = None \/ row.failures >= limits.failures
  BY DEF Evaluated
<1> HIDE DEF status
<1>2. Applied(row, limits, now) = [row EXCEPT !.status = status]
  BY DEF Applied, status
<1>3. QED
  BY <1>1, <1>2 DEF Health, Settled

\* The types of what is open.
LEMMA OpenRows ==
  ASSUME HealthInv, NEW s \in Source
  PROVE  /\ health[s] # None => health[s] \in Health
         /\ cycle[s] \in CycleState
         /\ cycle[s].phase # "none" => cycle[s].row \in Health
         /\ \A r \in Readers : /\ report[r] \in ReportState
                               /\ report[r].row[s] # None => report[r].row[s] \in Health
BY DEF HealthInv, Types, CycleCounts, CycleState, ReportState, Rows

LEMMA AttemptSettled ==
  ASSUME HealthInv, SettledInv, NEW s \in Source, Attempt(s)
  PROVE  SettledInv'
<1> DEFINE row == Applied(Created(health[s]), WriterLimits(s), clock)
<1>1. Created(health[s]) \in Health /\ (health[s] # None => Created(health[s]) = health[s])
  BY CreatedType DEF HealthInv, Types, Created
<1>2. Settled(row) /\ (health[s] # None => row.success = health[s].success)
  BY <1>1, AppliedSays
<1>3. /\ cycle'[s].row = row
      /\ \A x \in Source \ {s} : cycle'[x] = cycle[x]
      /\ UNCHANGED <<clock, health, report>>
  BY DEF Attempt, HealthInv, Types
<1> HIDE DEF row
<1>4. QED
  BY <1>2, <1>3 DEF SettledInv, SettledAt, Settled

LEMMA FlushSettled ==
  ASSUME HealthInv, SettledInv, NEW s \in Source, Flush(s)
  PROVE  SettledInv'
<1> DEFINE c == cycle[s]
           kept == c.base # None /\ c.row.status = c.base.status
           status == IF kept THEN health[s].status ELSE c.row.status
<1>1. c \in CycleState /\ c.row \in Health /\ c.phase = "read"
  BY OpenRows DEF Flush
<1>2. /\ \A x \in Source \ {s} : cycle'[x] = cycle[x]
      /\ cycle'[s] = [c EXCEPT !.phase = "locked", !.row = [c.row EXCEPT !.status = status]]
      /\ UNCHANGED <<clock, health, report>>
  BY <1>1 DEF Flush, CycleState, HealthInv, Types
<1>3. kept => health[s] # None
  BY <1>1 DEF HealthInv, CycleCounts
<1>4. c.row.success = None => status = "down"
  BY <1>1, <1>3 DEF SettledInv, SettledAt, Settled
<1> HIDE DEF status, c
<1>5. [c EXCEPT !.phase = "locked", !.row = [c.row EXCEPT !.status = status]].row
        = [c.row EXCEPT !.status = status]
  BY <1>1 DEF CycleState
<1>6. [c.row EXCEPT !.status = status].status = status
      /\ [c.row EXCEPT !.status = status].success = c.row.success
  BY <1>1 DEF Health
<1>7. cycle'[s].row.status = status /\ cycle'[s].row.success = c.row.success
  BY <1>2, <1>5, <1>6
<1>8. health[s] # None => c.row.success = health[s].success
  BY <1>1 DEF SettledInv, SettledAt, c
<1>9. SettledAt(s)'
  BY <1>2, <1>4, <1>7, <1>8 DEF SettledInv, SettledAt, Settled
<1>10. \A x \in Source \ {s} : SettledAt(x)'
  BY <1>2 DEF SettledInv, SettledAt, Settled
<1>11. QED
  BY <1>2, <1>9, <1>10 DEF SettledInv

\* The end of a cycle, with a row that has the success of before or a new one.
LEMMA CommittedSettled ==
  ASSUME HealthInv, SettledInv, NEW s \in Source, NEW row \in Health, Committed(s, row),
         Settled(row), row.success = None => (health[s] # None => health[s].success = None)
  PROVE  SettledInv'
<1>1. /\ health'[s] = row /\ cycle'[s].phase = "none" /\ clock' = clock
      /\ \A x \in Source \ {s} : health'[x] = health[x] /\ cycle'[x] = cycle[x]
  BY DEF Committed, HealthInv, Types, NoCycle
<1>2. \A r \in Readers : report'[r].row = report[r].row
  <2> TAKE r \in Readers
  <2>1. report[r] \in ReportState /\ report'[r] = IF report[r].open /\ s # Syslog
                     THEN [report[r] EXCEPT !.passed = @ \cup {s}] ELSE report[r]
    BY DEF Committed, HealthInv, Types
  <2>2. QED
    BY <2>1 DEF ReportState
<1>3. ASSUME NEW r \in Readers, report[r].row[s] # None, row.success = None
      PROVE  report[r].row[s].success = None
  <2>1. health[s] # None
    BY <1>3 DEF HealthInv, ReportReads
  <2>2. QED
    BY <2>1, <1>3 DEF SettledInv, SettledAt
<1>4. SettledAt(s)'
  BY <1>1, <1>2, <1>3 DEF SettledInv, SettledAt, Settled
<1>5. \A x \in Source \ {s} : SettledAt(x)'
  BY <1>1, <1>2 DEF SettledInv, SettledAt, Settled
<1>6. QED
  BY <1>1, <1>4, <1>5 DEF SettledInv

LEMMA SuccessSettled ==
  ASSUME HealthInv, SettledInv, NEW s \in Source, Success(s)
  PROVE  SettledInv'
<1> DEFINE before == Succeeded(cycle[s].row)
           row == Applied(before, WriterLimits(s), clock)
<1>1. cycle[s].row \in Health /\ clock \in Nat
  BY OpenRows DEF HealthInv, Types, Success
<1>2. before \in Health /\ before.success # None
  BY <1>1, NoneIsNoRow DEF Succeeded, Health
<1>3. row \in Health /\ row.success # None /\ Settled(row)
  BY <1>2, AppliedType, AppliedSays
<1>4. Committed(s, row)
  BY DEF Success
<1> HIDE DEF row
<1>5. QED
  BY <1>3, <1>4, CommittedSettled

LEMMA FailureSettled ==
  ASSUME HealthInv, SettledInv, NEW s \in Source, Failure(s)
  PROVE  SettledInv'
<1> DEFINE failed == [cycle[s].row EXCEPT !.failures = @ + 1]
           row == Applied(failed, WriterLimits(s), clock)
<1>1. cycle[s].row \in Health
  BY OpenRows DEF Failure
<1>2. failed \in Health /\ failed.success = cycle[s].row.success
  BY <1>1 DEF Health
<1> HIDE DEF failed
<1>3. row \in Health /\ row.success = cycle[s].row.success /\ Settled(row)
  BY <1>2, AppliedType, AppliedSays
<1>4. Committed(s, row) /\ cycle[s].phase # "none"
  BY DEF Failure, failed
<1> HIDE DEF row
<1>5. health[s] # None => row.success = health[s].success
  BY <1>3, <1>4 DEF SettledInv, SettledAt
<1>6. QED
  BY <1>3, <1>4, <1>5, CommittedSettled

LEMMA BeginSettled ==
  ASSUME HealthInv, SettledInv, NEW r \in Readers, ReportBegin(r)
  PROVE  SettledInv'
<1> DEFINE row == [s \in Source |-> Refreshed(r, Selected(r)[s])]
<1>1. ASSUME NEW s \in Source, row[s] # None
      PROVE  Settled(row[s]) /\ health[s] # None /\ row[s].success = health[s].success
  <2>1. Selected(r)[s] = health[s] /\ health[s] # None
    BY <1>1 DEF Selected, Refreshed
  <2>2. health[s] \in Health /\ row[s] = Applied(health[s], ReaderLimits(r), clock)
    BY <2>1, OpenRows DEF Refreshed
  <2>3. QED
    BY <2>1, <2>2, AppliedSays
<1>2. /\ report'[r].row = row /\ \A q \in Readers \ {r} : report'[q] = report[q]
      /\ UNCHANGED <<clock, health, cycle>>
  BY DEF ReportBegin, HealthInv, Types
<1> HIDE DEF row
<1>3. QED
  BY <1>1, <1>2 DEF SettledInv, SettledAt, Settled

\* What a report writes to a row is at most its status.
LEMMA StoredSays ==
  ASSUME HealthInv, NEW r \in Readers, NEW s \in Touched(r)
  PROVE  /\ s \in Source /\ report[r].row[s] # None /\ health[s] # None
         /\ Stored(r, s).success = health[s].success
         /\ Stored(r, s).failures = health[s].failures
         /\ Stored(r, s) = health[s] \/ Stored(r, s).status = report[r].row[s].status
<1>1. s \in Source /\ report[r].row[s] # None /\ health[s] # None
  BY DEF Touched, HealthInv, ReportReads
<1>2. health[s] \in Health
  BY <1>1, OpenRows
<1>3. QED
  BY <1>1, <1>2 DEF Stored, Health

\* The commit of a report, row by row.
LEMMA CommitRows ==
  ASSUME HealthInv, NEW r \in Readers, ReportCommit(r), NEW s \in Source
  PROVE  /\ (health'[s] = None) <=> (health[s] = None)
         /\ health[s] # None => /\ health'[s].success = health[s].success
                                /\ health'[s].failures = health[s].failures
         /\ \/ health'[s] = health[s]
            \/ report[r].row[s] # None /\ health'[s].status = report[r].row[s].status
         /\ \A q \in Readers : report'[q].row[s] # None => q # r /\ report'[q] = report[q]
         /\ cycle' = cycle /\ alarms' = alarms /\ clock' = clock
<1>1. /\ health'[s] = IF s \in Touched(r) THEN Stored(r, s) ELSE health[s]
      /\ cycle' = cycle /\ alarms' = alarms /\ clock' = clock
      /\ report'[r] = NoReport /\ \A q \in Readers \ {r} : report'[q] = report[q]
  BY DEF ReportCommit, HealthInv, Types
<1>2. NoReport.row[s] = None
  BY DEF NoReport
<1>3. CASE s \in Touched(r)
  <2>1. Stored(r, s) # None
    BY <1>3, StoredCount
  <2>2. QED
    BY <1>1, <1>2, <1>3, <2>1, StoredSays
<1>4. CASE s \notin Touched(r)
  BY <1>1, <1>2, <1>4
<1>5. QED
  BY <1>3, <1>4

LEMMA CommitSettled ==
  ASSUME HealthInv, SettledInv, NEW r \in Readers, ReportCommit(r)
  PROVE  SettledInv'
<1>1. ASSUME NEW s \in Source PROVE SettledAt(s)'
  <2>1. HealthInv /\ SettledAt(s)
    BY DEF SettledInv
  <2>2. \A q \in Readers : report[q].row[s] # None => health[s] # None
    BY DEF HealthInv, ReportReads
  <2>3. QED
    BY <2>1, <2>2, CommitRows DEF SettledAt, Settled
<1>2. clock' = clock
  BY DEF ReportCommit
<1>3. QED
  BY <1>1, <1>2 DEF SettledInv

LEMMA NextKeepsSettled == HealthInv /\ SettledInv /\ [Next]_vars => SettledInv'
<1> SUFFICES ASSUME HealthInv, SettledInv, [Next]_vars PROVE SettledInv'
  OBVIOUS
<1>1. CASE Tick
  BY <1>1, SourceHealthAssumption DEF Tick, SettledInv, SettledAt, Settled
<1>2. ASSUME NEW s \in Source, Abort(s) PROVE SettledInv'
  <2>1. /\ cycle'[s].phase = "none" /\ \A x \in Source \ {s} : cycle'[x] = cycle[x]
        /\ UNCHANGED <<clock, health, report>>
    BY <1>2 DEF Abort, NoCycle, HealthInv, Types
  <2>2. QED
    BY <2>1 DEF SettledInv, SettledAt, Settled
<1>3. CASE CycleNext
  BY <1>2, <1>3, AttemptSettled, FlushSettled, SuccessSettled, FailureSettled
  DEF CycleNext, CycleEnd
<1>4. ASSUME NEW r \in Readers, ReportAbort(r) PROVE SettledInv'
  <2>1. /\ \A s \in Source : report'[r].row[s] = None
        /\ \A q \in Readers \ {r} : report'[q] = report[q]
        /\ UNCHANGED <<clock, health, cycle>>
    BY <1>4 DEF ReportAbort, NoReport, HealthInv, Types
  <2>2. QED
    BY <2>1 DEF SettledInv, SettledAt, Settled
<1>5. CASE ReportNext
  BY <1>4, <1>5, BeginSettled, CommitSettled DEF ReportNext, Readers
<1>6. CASE UNCHANGED <<clock, health, cycle, report>>
  BY <1>6 DEF SettledInv, SettledAt, Settled
<1>7. QED
  BY <1>1, <1>3, <1>5, <1>6 DEF Next, Save, vars

\* Every variable has its type, and a source that never succeeded is down,
\* whoever derived its status last.
THEOREM HealthTypeCorrect == Spec => []HealthTypeOK
<1>1. Init => SettledInv
  BY SourceHealthAssumption
  DEF Init, SettledInv, SettledAt, Settled, NoCycle, NoReport, Readers
<1>2. HealthInv /\ SettledInv => HealthTypeOK
  BY OpenRows DEF HealthInv, Types, SettledInv, SettledAt, Settled, HealthTypeOK, CycleState, Readers
<1>3. QED
  BY <1>1, <1>2, InitHealthInv, NextKeepsHealthInv, NextKeepsSettled, PTL DEF Spec

-----------------------------------------------------------------------------
(***************************************************************************)
(* Alarms, if no reader is stricter than the worker.  A stored down may be *)
(* old: a report that read the row before a cycle ended writes it after.   *)
(* But such a report bars the next cycle, so whatever an open cycle finds  *)
(* stored as down since it began is down by the count of the cycle too.    *)
(***************************************************************************)
Lax == \A limits \in SavedLimits : limits.failures >= EnvLimits.failures

Dead(row) == row.success = None \/ row.failures >= EnvLimits.failures

\* Cycles of polled sources, against reports.
PolledAt(s) ==
  /\ cycle[s].phase # "none" =>
       /\ \A r \in Readers : s \notin report[r].passed
       /\ cycle[s].row.status = "down" => Dead(cycle[s].row)
  /\ cycle[s].phase = "read" /\ cycle[s].base # None /\ cycle[s].base.status # "down" =>
       (health[s].status = "down" => Dead(health[s]))
  /\ \A r \in Readers :
       report[r].row[s] # None =>
         /\ report[r].open
         /\ s \notin report[r].passed /\ report[r].row[s].status = "down" => Dead(health[s])

OutageAt(s) ==
  /\ alarms[s] > 0 <=> WentDown(s)
  /\ cycle[s].phase # "none" /\ cycle[s].alarms > 0 => WentDown(s)
  /\ s # Syslog => PolledAt(s)

OutageInv == \A s \in Source : OutageAt(s)

\* Nothing of a source but its reports' transactions has changed.
LEMMA OutageFrame ==
  ASSUME NEW s \in Source, OutageAt(s),
         health'[s] = health[s], cycle'[s] = cycle[s], alarms'[s] = alarms[s],
         \A r \in Readers : report'[r].row[s] # None =>
           /\ report'[r].row[s] = report[r].row[s]
           /\ report[r].open => report'[r].open
           /\ s \in report[r].passed => s \in report'[r].passed,
         \A r \in Readers : s \in report'[r].passed => s \in report[r].passed
  PROVE  OutageAt(s)'
BY DEF OutageAt, PolledAt, WentDown, Dead

LEMMA AttemptOutage ==
  ASSUME HealthInv, SettledInv, OutageInv, NEW s \in Source, Attempt(s)
  PROVE  OutageInv'
<1> DEFINE before == Created(health[s])
           row == Applied(before, WriterLimits(s), clock)
<1>1. before \in Health /\ (health[s] # None => before = health[s])
      /\ (health[s] = None => before.success = None /\ before.status = "down")
  BY CreatedType DEF HealthInv, Types, Created
<1>2. /\ row.success = before.success /\ row.failures = before.failures
      /\ row.status = "down" => Dead(before)
  BY <1>1, AppliedSays DEF WriterLimits, Dead
<1>3. Alarm(before.status, row.status) > 0 => WentDown(s)
  <2>1. before.success = None => before.status = "down"
    BY <1>1 DEF SettledInv, SettledAt, Settled
  <2>2. QED
    BY <1>1, <1>2, <2>1 DEF Alarm, Dead, WentDown
<1>4. /\ cycle'[s] = [phase |-> "read", base |-> health[s], row |-> row,
                      alarms |-> Alarm(before.status, row.status)]
      /\ \A x \in Source \ {s} : cycle'[x] = cycle[x]
      /\ UNCHANGED <<clock, health, report, alarms>>
  BY DEF Attempt, HealthInv, Types
<1>5. s # Syslog => \A r \in Readers : s \notin report[r].passed
  BY DEF Attempt, Paused, HealthInv, Types
<1> HIDE DEF row, before
<1>6. OutageAt(s)'
  BY <1>2, <1>3, <1>4, <1>5 DEF OutageInv, OutageAt, PolledAt, WentDown, Dead
<1>7. \A x \in Source \ {s} : OutageAt(x)'
  BY <1>4, OutageFrame DEF OutageInv
<1>8. QED
  BY <1>6, <1>7 DEF OutageInv

LEMMA FlushOutage ==
  ASSUME HealthInv, SettledInv, OutageInv, NEW s \in Source, Flush(s)
  PROVE  OutageInv'
<1> DEFINE c == cycle[s]
           kept == c.base # None /\ c.row.status = c.base.status
           status == IF kept THEN health[s].status ELSE c.row.status
           row == [c.row EXCEPT !.status = status]
<1>1. c \in CycleState /\ c.row \in Health /\ c.phase = "read"
  BY OpenRows DEF Flush
<1>2. /\ \A x \in Source \ {s} : cycle'[x] = cycle[x]
      /\ cycle'[s] = [c EXCEPT !.phase = "locked", !.row = row]
      /\ UNCHANGED <<clock, health, report, alarms>>
  BY <1>1 DEF Flush, CycleState, HealthInv, Types
<1>3. kept => /\ health[s] # None /\ health[s].success = c.row.success
              /\ health[s].failures = c.row.failures
  BY <1>1 DEF HealthInv, CycleCounts, FailuresCounted, SettledInv, SettledAt
<1>4. s # Syslog /\ status = "down" => Dead(c.row)
  <2>1. CASE ~kept \/ c.row.status = "down"
    BY <1>1, <2>1 DEF OutageInv, OutageAt, PolledAt
  <2>2. CASE kept /\ c.row.status # "down"
    BY <1>1, <1>3, <2>2 DEF OutageInv, OutageAt, PolledAt, Dead
  <2>3. QED
    BY <2>1, <2>2
<1> HIDE DEF status
<1>5. row.status = status /\ row.success = c.row.success /\ row.failures = c.row.failures
  BY <1>1 DEF Health
<1> HIDE DEF row, c
<1>6. /\ cycle'[s].row = row /\ cycle'[s].phase = "locked" /\ cycle'[s].alarms = c.alarms
  BY <1>1, <1>2 DEF CycleState
<1>7. c.alarms > 0 => WentDown(s)
  BY <1>1 DEF OutageInv, OutageAt, c
<1>8. s # Syslog => \A r \in Readers : s \notin report[r].passed
  BY <1>1 DEF OutageInv, OutageAt, PolledAt, c
<1>9. OutageAt(s)'
  BY <1>2, <1>4, <1>5, <1>6, <1>7, <1>8 DEF OutageInv, OutageAt, PolledAt, WentDown, Dead
<1>10. \A x \in Source \ {s} : OutageAt(x)'
  BY <1>2, OutageFrame DEF OutageInv
<1>11. QED
  BY <1>9, <1>10 DEF OutageInv

\* The end of a cycle: reports that are open have been passed.
LEMMA CommittedOutage ==
  ASSUME HealthInv, OutageInv, NEW s \in Source, NEW row \in Health, Committed(s, row),
         NEW a \in Nat, alarms' = [alarms EXCEPT ![s] = a],
         a > 0 <=> row.success # None /\ row.failures >= EnvLimits.failures
  PROVE  OutageInv'
<1>1. /\ health'[s] = row /\ cycle'[s].phase = "none" /\ alarms'[s] = a /\ row # None
      /\ \A x \in Source \ {s} : /\ health'[x] = health[x] /\ cycle'[x] = cycle[x]
                                 /\ alarms'[x] = alarms[x]
  BY NoneIsNoRow DEF Committed, HealthInv, Types, NoCycle
<1>2. ASSUME NEW r \in Readers
      PROVE  /\ report'[r].row = report[r].row /\ report'[r].open = report[r].open
             /\ \A x \in Source \ {s} : x \in report'[r].passed <=> x \in report[r].passed
             /\ report[r].open /\ s # Syslog => s \in report'[r].passed
  <2>1. report[r] \in ReportState /\ report'[r] = IF report[r].open /\ s # Syslog
                     THEN [report[r] EXCEPT !.passed = @ \cup {s}] ELSE report[r]
    BY DEF Committed, HealthInv, Types
  <2>2. QED
    BY <2>1 DEF ReportState
<1>3. OutageAt(s)'
  BY <1>1, <1>2 DEF OutageInv, OutageAt, PolledAt, WentDown
<1>4. \A x \in Source \ {s} : OutageAt(x)'
  BY <1>1, <1>2, OutageFrame DEF OutageInv
<1>5. QED
  BY <1>3, <1>4 DEF OutageInv

LEMMA SuccessOutage ==
  ASSUME HealthInv, OutageInv, NEW s \in Source, Success(s)
  PROVE  OutageInv'
<1> DEFINE before == Succeeded(cycle[s].row)
           row == Applied(before, WriterLimits(s), clock)
<1>1. cycle[s].row \in Health /\ clock \in Nat
  BY OpenRows DEF HealthInv, Types, Success
<1>2. before \in Health /\ before.failures = 0
  BY <1>1 DEF Succeeded, Health
<1>3. row \in Health /\ row.failures = 0
  BY <1>2, AppliedType
<1>4. Committed(s, row) /\ alarms' = [alarms EXCEPT ![s] = 0]
  BY DEF Success
<1> HIDE DEF row
<1>5. ~(row.failures >= EnvLimits.failures)
  BY <1>3, SourceHealthAssumption
<1> DEFINE none == 0
<1>6. none \in Nat /\ ~(none > 0) /\ alarms' = [alarms EXCEPT ![s] = none]
  BY <1>4
<1> HIDE DEF none
<1>7. QED
  BY <1>3, <1>4, <1>5, <1>6, CommittedOutage

LEMMA FailureOutage ==
  ASSUME HealthInv, SettledInv, OutageInv, NEW s \in Source, Failure(s)
  PROVE  OutageInv'
<1> DEFINE c == cycle[s]
           failed == [c.row EXCEPT !.failures = @ + 1]
           row == Applied(failed, WriterLimits(s), clock)
           sum == alarms[s] + c.alarms + Alarm(c.row.status, row.status)
           F == EnvLimits.failures
<1>1. c \in CycleState /\ c.row \in Health /\ c.phase # "none" /\ s # Syslog
  BY OpenRows DEF Failure
<1>2. failed \in Health /\ failed.success = c.row.success /\ failed.failures = c.row.failures + 1
      /\ failed.status = c.row.status
  BY <1>1 DEF Health
<1>3. Committed(s, row) /\ alarms' = [alarms EXCEPT ![s] = sum]
  BY DEF Failure, HealthInv, Types
<1> HIDE DEF failed
<1>4. /\ row \in Health /\ row.success = c.row.success /\ row.failures = c.row.failures + 1
      /\ row.status = "down" => row.success = None \/ row.failures >= F
      /\ row.success = None \/ row.failures >= F => row.status = "down"
  <2>1. Evaluated(failed, WriterLimits(s), clock) = "down"
          <=> failed.success = None \/ failed.failures >= F
    BY DEF Evaluated, WriterLimits
  <2>2. row.status = Evaluated(failed, WriterLimits(s), clock)
    BY <1>2 DEF Applied, Health
  <2>3. QED
    BY <1>2, <2>1, <2>2, AppliedType, AppliedSays
<1> HIDE DEF row
<1>5. F \in Nat \ {0} /\ c.row.failures \in Nat /\ alarms[s] \in Nat /\ c.alarms \in Nat
  BY <1>1, SourceHealthAssumption DEF HealthInv, Types, CycleState, Health
<1>6. /\ alarms[s] > 0 <=> WentDown(s)
      /\ c.alarms > 0 => WentDown(s)
      /\ c.row.status = "down" => Dead(c.row)
      /\ c.row.success = None => c.row.status = "down"
  BY <1>1 DEF OutageInv, OutageAt, PolledAt, SettledInv, SettledAt, Settled
<1>7. WentDown(s) <=> health[s] # None /\ c.row.success # None /\ c.row.failures >= F
  BY <1>1 DEF WentDown, SettledInv, SettledAt, HealthInv, CycleCounts, FailuresCounted
<1>8. health[s] = None => c.row.failures = 0
  BY <1>1 DEF HealthInv, CycleCounts, FailuresCounted
<1> HIDE DEF c, F
<1>9. sum \in Nat /\ (sum > 0 <=> row.success # None /\ row.failures >= F)
  BY <1>4, <1>5, <1>6, <1>7, <1>8 DEF Alarm, Dead, F
<1> HIDE DEF sum
<1>10. QED
  BY <1>3, <1>4, <1>9, CommittedOutage DEF F

LEMMA BeginOutage ==
  ASSUME Lax, HealthInv, OutageInv, NEW r \in Readers, ReportBegin(r)
  PROVE  OutageInv'
<1> DEFINE row == [s \in Source |-> Refreshed(r, Selected(r)[s])]
<1>1. ASSUME NEW s \in Source, row[s] # None
      PROVE  row[s].status = "down" => Dead(health[s])
  <2>1. Selected(r)[s] = health[s] /\ health[s] # None
    BY <1>1 DEF Selected, Refreshed
  <2>2. health[s] \in Health /\ row[s] = Applied(health[s], ReaderLimits(r), clock)
    BY <2>1, OpenRows DEF Refreshed
  <2>3. /\ ReaderLimits(r).failures >= EnvLimits.failures
        /\ ReaderLimits(r).failures \in Nat /\ EnvLimits.failures \in Nat
    BY SourceHealthAssumption DEF Lax, ReaderLimits, HealthInv, Types, Limits
  <2>4. health[s].failures \in Nat
    BY <2>2 DEF Health
  <2>5. row[s].status = "down" => health[s].success = None \/ health[s].failures >= ReaderLimits(r).failures
    BY <2>2, AppliedSays
  <2>6. QED
    BY <2>3, <2>4, <2>5 DEF Dead
<1>2. /\ report'[r] = [open |-> TRUE, base |-> Selected(r), row |-> row, passed |-> {}]
      /\ \A q \in Readers \ {r} : report'[q] = report[q]
      /\ UNCHANGED <<clock, health, cycle, alarms>>
  BY DEF ReportBegin, HealthInv, Types
<1>3. report'[r].open /\ report'[r].row = row /\ report'[r].passed = {}
  BY <1>2
<1> HIDE DEF row
<1>4. ASSUME NEW s \in Source PROVE OutageAt(s)'
  BY <1>1, <1>2, <1>3 DEF OutageInv, OutageAt, PolledAt, WentDown, Dead
<1>5. QED
  BY <1>4 DEF OutageInv

LEMMA CommitOutage ==
  ASSUME HealthInv, OutageInv, NEW r \in Readers, ReportCommit(r)
  PROVE  OutageInv'
<1>1. \A s \in Source : report'[r].row[s] = None /\ report'[r].passed = {}
  BY DEF ReportCommit, NoReport, HealthInv, Types
<1>2. \A q \in Readers \ {r} : report'[q] = report[q]
  BY DEF ReportCommit, HealthInv, Types
<1>3. ASSUME NEW s \in Source PROVE OutageAt(s)'
  <2>1. /\ (health'[s] = None) <=> (health[s] = None)
        /\ health[s] # None => /\ health'[s].success = health[s].success
                               /\ health'[s].failures = health[s].failures
        /\ \/ health'[s] = health[s]
           \/ report[r].row[s] # None /\ health'[s].status = report[r].row[s].status
        /\ cycle' = cycle /\ alarms' = alarms
    BY CommitRows
  <2>2. WentDown(s)' <=> WentDown(s)
    BY <2>1 DEF WentDown
  <2>3. health[s] # None => (Dead(health[s])' <=> Dead(health[s]))
    BY <2>1 DEF Dead
  <2>4. \A q \in Readers : report[q].row[s] # None => health[s] # None
    BY DEF HealthInv, ReportReads
  <2>5. cycle[s].phase = "read" /\ cycle[s].base # None => health[s] # None
    BY DEF HealthInv, CycleCounts
  <2>6. ASSUME s # Syslog PROVE PolledAt(s)'
    <3>1. PolledAt(s)
      BY <2>6 DEF OutageInv, OutageAt
    <3>2. ASSUME cycle[s].phase = "read", cycle[s].base # None, cycle[s].base.status # "down",
                 health'[s].status = "down"
          PROVE  Dead(health[s])'
      <4>1. s \notin report[r].passed
        BY <3>1, <3>2 DEF PolledAt
      <4>2. Dead(health[s])
        BY <2>1, <3>1, <3>2, <4>1 DEF PolledAt
      <4>3. QED
        BY <2>3, <2>5, <3>2, <4>2
    <3>3. \A q \in Readers :
            report'[q].row[s] # None =>
              /\ report'[q].open
              /\ s \notin report'[q].passed /\ report'[q].row[s].status = "down" => Dead(health[s])'
      BY <1>1, <1>2, <2>3, <2>4, <3>1 DEF PolledAt
    <3>4. cycle[s].phase # "none" =>
            /\ \A q \in Readers : s \notin report'[q].passed
            /\ cycle[s].row.status = "down" => Dead(cycle[s].row)
      BY <1>1, <1>2, <3>1 DEF PolledAt
    <3>5. QED
      BY <2>1, <3>2, <3>3, <3>4 DEF PolledAt, Dead
  <2>7. QED
    BY <2>1, <2>2, <2>6 DEF OutageInv, OutageAt
<1>4. QED
  BY <1>3 DEF OutageInv

LEMMA NextKeepsOutage ==
  ASSUME Lax PROVE HealthInv /\ SettledInv /\ OutageInv /\ [Next]_vars => OutageInv'
<1> SUFFICES ASSUME HealthInv, SettledInv, OutageInv, [Next]_vars PROVE OutageInv'
  OBVIOUS
<1>1. CASE UNCHANGED <<health, cycle, report, alarms>>
  BY <1>1 DEF OutageInv, OutageAt, PolledAt, WentDown, Dead
<1>2. ASSUME NEW s \in Source, Abort(s) PROVE OutageInv'
  <2>1. /\ cycle'[s].phase = "none" /\ \A x \in Source \ {s} : cycle'[x] = cycle[x]
        /\ UNCHANGED <<health, report, alarms>>
    BY <1>2 DEF Abort, NoCycle, HealthInv, Types
  <2>2. OutageAt(s)'
    BY <2>1 DEF OutageInv, OutageAt, PolledAt, WentDown, Dead
  <2>3. \A x \in Source \ {s} : OutageAt(x)'
    BY <2>1, OutageFrame DEF OutageInv
  <2>4. QED
    BY <2>2, <2>3 DEF OutageInv
<1>3. CASE CycleNext
  BY <1>2, <1>3, AttemptOutage, FlushOutage, SuccessOutage, FailureOutage DEF CycleNext, CycleEnd
<1>4. ASSUME NEW r \in Readers, ReportAbort(r) PROVE OutageInv'
  <2>1. /\ \A s \in Source : report'[r].row[s] = None /\ report'[r].passed = {}
        /\ \A q \in Readers \ {r} : report'[q] = report[q]
        /\ UNCHANGED <<health, cycle, alarms>>
    BY <1>4 DEF ReportAbort, NoReport, HealthInv, Types
  <2>2. QED
    BY <2>1, OutageFrame DEF OutageInv
<1>5. CASE ReportNext
  BY <1>4, <1>5, BeginOutage, CommitOutage DEF ReportNext, Readers
<1>6. QED
  BY <1>1, <1>3, <1>5 DEF Next, Tick, Save, vars

\* If no parent has saved a stricter limit than the worker's, every outage has
\* an event and nothing else has one, however reports overlap the cycles.
THEOREM OutageAlarmedAlways == ASSUME Lax PROVE Spec => []OutageAlarmed
<1>1. Init => OutageInv
  BY DEF Init, OutageInv, OutageAt, PolledAt, WentDown, NoCycle, NoReport, Readers
<1>2. OutageInv => OutageAlarmed
  BY DEF OutageInv, OutageAt, OutageAlarmed
<1>3. Init => SettledInv
  BY SourceHealthAssumption
  DEF Init, SettledInv, SettledAt, Settled, NoCycle, NoReport, Readers
<1>4. QED
  BY <1>1, <1>2, <1>3, InitHealthInv, NextKeepsHealthInv, NextKeepsSettled, NextKeepsOutage,
     PTL DEF Spec
=============================================================================
