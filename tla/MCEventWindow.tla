--------------------------- MODULE MCEventWindow ---------------------------
(* Instances of EventWindow for TLC. *)
EXTENDS EventWindow

\* One is over within the instance; the other is postponed beyond it.
D1 == [start |-> 1, end |-> 2, over |-> 3]
D2 == [start |-> 0, end |-> 4, over |-> 4]
MCDates == {D1, D2}

\* Publish, open again by hand, close by hand, postpone.
MCPatches == {[draft |-> FALSE], [status |-> Registering], [status |-> Closed], [dates |-> D2]}

\* The limit is lowered, or raised.
LimitPatches == {[limit |-> 1], [limit |-> 2]}
=============================================================================
