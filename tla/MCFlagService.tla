--------------------------- MODULE MCFlagService ---------------------------
(***************************************************************************)
(* Instances of FlagService for TLC: the commands that requests may send.  *)
(* Requests are interchangeable, but a liveness property is checked, so    *)
(* symmetry is not used.                                                   *)
(***************************************************************************)
EXTENDS FlagService

CONSTANTS f1, f2, f3, k1, k2, b1, b2, R1, R2

OneSeedKey == [f \in {f1} |-> k1]

\* Edits of one flag by every kind of request, and creations of both keys.
EditCommands ==
    {[type |-> "create", flag |-> None, arg |-> k1],
     [type |-> "create", flag |-> None, arg |-> k2],
     [type |-> "update", flag |-> f1, arg |-> b2],
     [type |-> "status", flag |-> f1, arg |-> "active"],
     [type |-> "status", flag |-> f1, arg |-> "killed"],
     [type |-> "delete", flag |-> f1, arg |-> None],
     [type |-> "rules",  flag |-> f1, arg |-> R1],
     [type |-> "rules",  flag |-> f1, arg |-> R2],
     [type |-> "rules",  flag |-> f1, arg |-> NoRules]}

\* Two administrators change the status of one flag.
StatusCommands ==
    {[type |-> "status", flag |-> f1, arg |-> "active"],
     [type |-> "status", flag |-> f1, arg |-> "killed"]}
=============================================================================
