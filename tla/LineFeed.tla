-------------------------------- MODULE LineFeed --------------------------------
(***************************************************************************)
(* What a listener for lines promises to the readers of its table: a line  *)
(* is stored at most once and in the order in which the lines came in.  It *)
(* does not promise to store every line.                                   *)
(***************************************************************************)
EXTENDS Naturals, Sequences

VARIABLES
  taken,   \* the lines taken in, in order
  stored,  \* places in taken of the lines stored, in the order of storing
  handled  \* no line up to this place of taken is stored any more

Init == taken = << >> /\ stored = << >> /\ handled = 0

\* More lines come in.
Take ==
  /\ Len(taken') > Len(taken)
  /\ SubSeq(taken', 1, Len(taken)) = taken
  /\ UNCHANGED <<stored, handled>>

\* A later line is stored, or given up.
Handle(place) ==
  /\ handled' = place
  /\ stored' \in {stored, Append(stored, place)}
  /\ UNCHANGED taken

Next == Take \/ \E place \in (handled + 1)..Len(taken) : Handle(place)

Spec == Init /\ [][Next]_<<taken, stored, handled>>
=============================================================================
