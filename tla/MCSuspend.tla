----------------------------- MODULE MCSuspend -----------------------------
(* Instances of SuspendProtocol for TLC; the cfg files give the constants. *)
EXTENDS SuspendRefinement
=============================================================================
