--------------------------- MODULE MCExperiments ---------------------------
(***************************************************************************)
(* Instances of Experiments for TLC.                                       *)
(***************************************************************************)
EXTENDS Experiments, TLC

CONSTANTS e1, e2, v1, j1

\* e1 has run from the start and may be paused or stopped; e2 may be created and
\* launched.
OneRunning == e1 :> "running" @@ e2 :> "absent"

CountCommands ==
    {[type |-> "create", on |-> e2, winner |-> None],
     [type |-> "launch", on |-> e2, winner |-> None],
     [type |-> "pause",  on |-> e1, winner |-> None],
     [type |-> "stop",   on |-> e1, winner |-> v1]}

\* Events of an experiment that runs and of one that may run.
OneBatch ==
    j1 :> <<[on |-> e1, converts |-> TRUE], [on |-> e2, converts |-> FALSE]>>
=============================================================================
