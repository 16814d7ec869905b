------------------------------ MODULE MCLiveEvents ------------------------------
(***************************************************************************)
(* Three events whose importance is not their order of time, one dashboard *)
(* and buffers of one or two items, so that every one of them overflows.   *)
(***************************************************************************)
EXTENDS LiveEvents

MCRank == [e \in Event |-> IF e = 2 THEN 9 ELSE e]
=============================================================================
