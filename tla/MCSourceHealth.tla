----------------------------- MODULE MCSourceHealth -----------------------------
(***************************************************************************)
(* A polled source and the syslog source, one dashboard, and the worker's  *)
(* check.  A window is two ticks, an outage two failures.                  *)
(***************************************************************************)
EXTENDS SourceHealth

MCEnvLimits == [stale |-> 2, silent |-> 1, failures |-> 2]

\* What a parent saves who wants to hear of longer outages only.
MCLenient == {[stale |-> 2, failures |-> 3]}
=============================================================================
