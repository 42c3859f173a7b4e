----------------------------- MODULE MCSleeper -----------------------------
(***************************************************************************)
(* SleeperSystem for TLC: the processes of jm commands are interchangeable,*)
(* and so are the clients.                                                 *)
(***************************************************************************)
EXTENDS SleeperSystem, TLC

Symmetry == Permutations(Pids) \cup Permutations(Clients)
=============================================================================
