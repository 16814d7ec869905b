---------------------------- MODULE FindingLifecycle ----------------------------
(***************************************************************************)
(* What the findings of a household promise to a parent: a finding is      *)
(* raised once, as open, and announced with it; after that only a parent   *)
(* changes its status, and no status leads back to open.                   *)
(***************************************************************************)
EXTENDS Naturals

VARIABLES
  status,    \* of every finding raised so far
  announced  \* how often each has been announced

Judgement == {"acknowledged", "dismissed", "resolved"}

Init == status = << >> /\ announced = << >>

\* New findings S, all at once.
Raise(S) ==
  /\ S # {} /\ S \cap DOMAIN status = {}
  /\ status' = [k \in DOMAIN status \cup S |-> IF k \in S THEN "open" ELSE status[k]]
  /\ announced' = [k \in DOMAIN status \cup S |-> IF k \in S THEN 1 ELSE announced[k]]

Judge(k, s) ==
  /\ status' = [status EXCEPT ![k] = s]
  /\ UNCHANGED announced

Next ==
  \/ Raise(DOMAIN status' \ DOMAIN status)
  \/ \E k \in DOMAIN status, s \in Judgement : Judge(k, s)

Spec == Init /\ [][Next]_<<status, announced>>
=============================================================================
