-------------------------- MODULE MCEventBatcher --------------------------
(* An instance of EventBatcher for TLC; the .cfg files give the bounds.    *)
EXTENDS EventBatcher
=============================================================================
