------------------------------ MODULE SourceHealth ------------------------------
(***************************************************************************)
(* Ingest health: backend/app/health/source_health.py and its callers.     *)
(*                                                                         *)
(* A source has one writer in the worker, which brackets each cycle with   *)
(* record_attempt and record_success or record_failure in one transaction, *)
(* and readers, dashboards and the worker's syslog check, which derive the *)
(* status again and store it.  Writers judge by the environment's limits,  *)
(* readers by those a parent has saved.  Every flush writes checked_at, so *)
(* it takes the row's lock and holds it to the commit; what was read       *)
(* before the flush may be old by then.                                    *)
(***************************************************************************)
EXTENDS HealthStatus

CONSTANTS
  Source,       \* ingest sources
  Syslog,       \* the source that is listened to instead of polled
  Reader,       \* requests that report health
  Check,        \* the worker's periodic check of the syslog source
  EnvLimits,    \* stale, silent and failures of the environment
  SavedLimits,  \* the limits a parent may save
  MaxTime,      \* bound on the clock
  MaxFailures   \* bound on consecutive failures

Limits == [stale : Nat \ {0}, failures : Nat \ {0}]

ASSUME SourceHealthAssumption ==
  /\ EnvLimits \in [stale : Nat \ {0}, silent : Nat \ {0}, failures : Nat \ {0}]
  /\ SavedLimits \subseteq Limits
  /\ Check \notin Reader
  /\ MaxTime \in Nat /\ MaxFailures \in Nat

VARIABLES
  clock,
  saved,   \* the thresholds row
  health,  \* the committed source_health rows
  cycle,   \* the ingest transaction of each source
  report,  \* the transaction of each reader
  alarms,  \* source-down events committed since the last success
  streak   \* failed cycles committed since the last success

vars == <<clock, saved, health, cycle, report, alarms, streak>>

-----------------------------------------------------------------------------
Applied(row, limits, now) == [row EXCEPT !.status = Evaluated(row, limits, now)]

\* Limits of a writer; syslog_health_settings has a window of its own.
WriterLimits(s) ==
  [stale    |-> IF s = Syslog THEN EnvLimits.silent ELSE EnvLimits.stale,
   failures |-> EnvLimits.failures]

\* _cfg_with_db_thresholds: saved limits, if any, replace the reader's own.
ReaderLimits(r) ==
  IF saved # None THEN saved
  ELSE [stale    |-> IF r = Check THEN EnvLimits.silent ELSE EnvLimits.stale,
        failures |-> EnvLimits.failures]

\* _get_or_create.
Created(row) == IF row = None THEN [success |-> None, failures |-> 0, status |-> "down"] ELSE row

\* Mutant: only a source that was ok can go down.
AlarmFromOk(before, after) == IF after = "down" /\ before = "ok" THEN 1 ELSE 0

\* _emit_source_down_if_needed: how many events a change of status makes.
Alarm(before, after) == IF after = "down" /\ before # "down" THEN 1 ELSE 0

NoCycle == [phase |-> "none", base |-> None, row |-> None, alarms |-> 0]
NoReport == [open |-> FALSE, base |-> [s \in Source |-> None], row |-> [s \in Source |-> None],
             passed |-> {}]

-----------------------------------------------------------------------------
Tick ==
  /\ clock < MaxTime
  /\ clock' = clock + 1
  /\ UNCHANGED <<saved, health, cycle, report, alarms, streak>>

\* update_thresholds.
Save(limits) ==
  /\ saved' = limits
  /\ UNCHANGED <<clock, health, cycle, report, alarms, streak>>

\* A poll begins an interval after the last one ended; no report that read
\* its row before that end is still open.  Syslog lines know no interval.
Paused(s) == s = Syslog \/ \A r \in DOMAIN report : s \notin report[r].passed

\* record_attempt up to its flush.
Attempt(s) ==
  /\ cycle[s].phase = "none" /\ Paused(s)
  /\ LET row == Applied(Created(health[s]), WriterLimits(s), clock)
     IN cycle' = [cycle EXCEPT ![s] =
          [phase |-> "read", base |-> health[s], row |-> row,
           alarms |-> Alarm(Created(health[s]).status, row.status)]]
  /\ UNCHANGED <<clock, saved, health, report, alarms, streak>>

\* The flush: a status that did not change is not written, and the row is
\* locked.
Flush(s) ==
  /\ cycle[s].phase = "read"
  /\ LET c    == cycle[s]
         kept == c.base # None /\ c.row.status = c.base.status
     IN cycle' = [cycle EXCEPT
          ![s].phase = "locked",
          ![s].row.status = IF kept THEN health[s].status ELSE @]
  /\ UNCHANGED <<clock, saved, health, report, alarms, streak>>

Committed(s, row) ==
  /\ health' = [health EXCEPT ![s] = row]
  /\ cycle' = [cycle EXCEPT ![s] = NoCycle]
  /\ report' = [r \in DOMAIN report |->
       IF report[r].open /\ s # Syslog THEN [report[r] EXCEPT !.passed = @ \cup {s}] ELSE report[r]]
  /\ UNCHANGED <<clock, saved>>

\* record_success, before the status is derived.
Succeeded(row) == [row EXCEPT !.success = clock, !.failures = 0]

Success(s) ==
  /\ cycle[s].phase = "locked"
  /\ Committed(s, Applied(Succeeded(cycle[s].row), WriterLimits(s), clock))
  /\ alarms' = [alarms EXCEPT ![s] = 0]
  /\ streak' = [streak EXCEPT ![s] = 0]

\* record_failure; a syslog line that fails is rolled back instead.
Failure(s) ==
  /\ cycle[s].phase = "locked" /\ s # Syslog
  /\ streak[s] < MaxFailures
  /\ LET failed == [cycle[s].row EXCEPT !.failures = @ + 1]
         row    == Applied(failed, WriterLimits(s), clock)
     IN /\ Committed(s, row)
        /\ alarms' = [alarms EXCEPT ![s] =
             @ + cycle[s].alarms + Alarm(cycle[s].row.status, row.status)]
  /\ streak' = [streak EXCEPT ![s] = @ + 1]

Abort(s) ==
  /\ cycle[s].phase # "none"
  /\ cycle' = [cycle EXCEPT ![s] = NoCycle]
  /\ UNCHANGED <<clock, saved, health, report, alarms, streak>>

\* Mutant: the status is reported as it was stored.
RefreshedNever(r, row) == row

Refreshed(r, row) == IF row = None THEN None ELSE Applied(row, ReaderLimits(r), clock)

\* The rows reader r selects: get_source_health for the check,
\* list_source_health for a dashboard.
Selected(r) == [s \in Source |-> IF r = Check /\ s # Syslog THEN None ELSE health[s]]

ReportBegin(r) ==
  /\ ~report[r].open
  /\ report' = [report EXCEPT ![r] =
       [open |-> TRUE, base |-> Selected(r),
        row |-> [s \in Source |-> Refreshed(r, Selected(r)[s])], passed |-> {}]]
  /\ UNCHANGED <<clock, saved, health, cycle, alarms, streak>>

\* Mutant: the whole row is written back.
StoredWhole(r, s) == report[r].row[s]

\* What the flush of reader r makes of the row of s: a changed status.
Stored(r, s) ==
  IF report[r].row[s].status = report[r].base[s].status THEN health[s]
  ELSE [health[s] EXCEPT !.status = report[r].row[s].status]

Touched(r) == {s \in Source : report[r].row[s] # None}

\* A flush that meets a lock waits for it; no timeout is set.
Unblocked(r) == report[r].open /\ \A s \in Touched(r) : cycle[s].phase # "locked"

ReportCommit(r) ==
  /\ Unblocked(r)
  /\ health' = [s \in Source |-> IF s \in Touched(r) THEN Stored(r, s) ELSE health[s]]
  /\ report' = [report EXCEPT ![r] = NoReport]
  /\ UNCHANGED <<clock, saved, cycle, alarms, streak>>

ReportAbort(r) ==
  /\ Unblocked(r)
  /\ report' = [report EXCEPT ![r] = NoReport]
  /\ UNCHANGED <<clock, saved, health, cycle, alarms, streak>>

-----------------------------------------------------------------------------
Init ==
  /\ clock = 0
  /\ saved = None
  /\ health = [s \in Source |-> None]
  /\ cycle = [s \in Source |-> NoCycle]
  /\ report = [r \in Reader \cup {Check} |-> NoReport]
  /\ alarms = [s \in Source |-> 0]
  /\ streak = [s \in Source |-> 0]

CycleEnd(s) == Success(s) \/ Failure(s) \/ Abort(s)
CycleNext == \E s \in Source : Attempt(s) \/ Flush(s) \/ CycleEnd(s)
ReportNext == \E r \in Reader \cup {Check} : ReportBegin(r) \/ ReportCommit(r) \/ ReportAbort(r)

Next == Tick \/ CycleNext \/ ReportNext \/ \E limits \in SavedLimits : Save(limits)

\* An ingest transaction ends.  The check runs at an interval and survives
\* every exception; a database error is not repeated forever.
Fairness ==
  /\ \A s \in Source : WF_vars(CycleEnd(s))
  /\ WF_vars(ReportBegin(Check)) /\ SF_vars(ReportCommit(Check))

Spec == Init /\ [][Next]_vars /\ Fairness

-----------------------------------------------------------------------------
(***************************************************************************)
(* Properties.                                                             *)
(***************************************************************************)

\* Every variable has its type, transactions included, and a source that
\* never succeeded has no other status than down.
HealthTypeOK ==
  /\ clock \in 0..MaxTime
  /\ saved \in {None} \cup SavedLimits
  /\ \A s \in Source :
       /\ health[s] = None \/ health[s] \in Health
       /\ health[s] # None /\ health[s].success = None => health[s].status = "down"
       /\ alarms[s] \in Nat /\ streak[s] \in Nat
       /\ cycle[s].phase \in {"none", "read", "locked"}
       /\ cycle[s].phase # "none" => cycle[s].row \in Health
  /\ \A r \in Reader \cup {Check}, s \in Source :
       report[r].row[s] = None \/ report[r].row[s] \in Health

\* "resets failure streak": the stored count is the number of failed cycles
\* since the last success, whatever readers that overlapped them wrote.
FailuresCounted ==
  \A s \in Source : (IF health[s] = None THEN 0 ELSE health[s].failures) = streak[s]

WentDown(s) ==
  /\ health[s] # None /\ health[s].success # None
  /\ health[s].failures >= EnvLimits.failures

\* "Publish a live event when a previously-working source goes down": there
\* is an event for every outage and for nothing else, while readers that
\* overlap the cycles store statuses by limits laxer than the worker's.
OutageAlarmed == \A s \in Source : alarms[s] > 0 <=> WentDown(s)

\* The event is for the source that goes down, not for one that is: from one
\* success to the next there is at most one.
OneAlarmPerOutage == \A s \in Source : alarms[s] <= 1

\* No line has come for the window of the worker's check.
Silent ==
  /\ health[Syslog] # None /\ health[Syslog].success # None
  /\ clock - health[Syslog].success >= ReaderLimits(Check).stale

\* "so silence becomes degraded": while no line arrives the stored status
\* does not stay ok, once the window in force has passed.  That is
\* UNIFI_SYSLOG_STALE_SECONDS, as its documentation has it, until a parent saves
\* limits; from then on it is their general one, which no document says.
SilenceShows == Silent ~> (~Silent \/ health[Syslog].status # "ok")
=============================================================================
