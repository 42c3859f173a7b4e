----------------------------- MODULE MCResolver -----------------------------
(* HostResolver for TLC; the cfg file gives the constants. *)
EXTENDS HostResolver
=============================================================================
