----------------------------- MODULE MCSessions -----------------------------
(* Instances of Sessions for TLC: two tabs, the first of which makes two   *)
(* requests at a time.                                                     *)
EXTENDS Sessions

CONSTANTS a, b, c1, c2, c3

MCOwner == [c \in {c1, c2, c3} |-> IF c = c3 THEN b ELSE a]
=============================================================================
