------------------------------ MODULE HealthStatus ------------------------------
(***************************************************************************)
(* How a source_health row is judged: evaluate_status of                   *)
(* backend/app/health/source_health.py.  Writers, reports and the          *)
(* dashboard summary all derive the status from the same two columns.      *)
(***************************************************************************)
EXTENDS Integers

CONSTANT None  \* no row, no success, no saved limits

Status == {"ok", "degraded", "down"}
Health == [success : Nat \cup {None}, failures : Nat, status : Status]

ASSUME NoneIsNoRow == None \notin Nat /\ None \notin Health

\* Mutant: an old success has a status that the rows do not have.
EvaluatedStale(row, limits, now) ==
  IF row.success = None \/ row.failures >= limits.failures THEN "down"
  ELSE IF now - row.success >= limits.stale THEN "stale"
  ELSE IF row.failures > 0 THEN "degraded" ELSE "ok"

\* evaluate_status.
Evaluated(row, limits, now) ==
  IF row.success = None \/ row.failures >= limits.failures THEN "down"
  ELSE IF now - row.success >= limits.stale \/ row.failures > 0 THEN "degraded"
  ELSE "ok"
=============================================================================
