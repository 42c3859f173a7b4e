------------------------------- MODULE MCIdle -------------------------------
(* IdleMonitor for TLC; the cfg file gives the constants. *)
EXTENDS IdleMonitor
=============================================================================
