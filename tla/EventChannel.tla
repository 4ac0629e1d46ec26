--------------------------- MODULE EventChannel ---------------------------
(***************************************************************************)
(* What the SDK's event batcher promises to the application that calls     *)
(* track(), seen from outside: events are numbered in the order in which   *)
(* they are tracked, and the API receives them in batches, each batch      *)
(* being the oldest events not yet confirmed.  A batch whose confirmation  *)
(* is lost is received again, so delivery is at least once and in order.   *)
(* No event is skipped, and no batch is larger than BatchSize.             *)
(***************************************************************************)
EXTENDS Naturals, Sequences

CONSTANTS BatchSize, MaxEvents

VARIABLES
    pushed,     \* how many events were tracked
    confirmed,  \* the events 1..confirmed are known to have arrived
    received    \* what the API received, in order of arrival

chan == <<pushed, confirmed, received>>

Init == pushed = 0 /\ confirmed = 0 /\ received = <<>>

Track ==
    /\ pushed < MaxEvents
    /\ pushed' = pushed + 1
    /\ UNCHANGED <<confirmed, received>>

\* The next n events arrive; the sender may or may not learn of it.
Arrive(n) ==
    /\ n \in 1..BatchSize
    /\ confirmed + n <= pushed
    /\ received' = received \o [i \in 1..n |-> confirmed + i]
    /\ confirmed' \in {confirmed, confirmed + n}
    /\ UNCHANGED pushed

Next == Track \/ \E n \in 1..BatchSize : Arrive(n)

Spec == Init /\ [][Next]_chan
=============================================================================
