---------------------------- MODULE MCSdkClient ----------------------------
(* Instances of SdkClient for TLC; the .cfg files give the bounds.  f1     *)
(* exists from the start, f2 may be created.                               *)
EXTENDS SdkClient

CONSTANTS f1, f2
=============================================================================
