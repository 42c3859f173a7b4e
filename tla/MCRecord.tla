------------------------------ MODULE MCRecord ------------------------------
(* MachineRecord for TLC; commands are interchangeable. *)
EXTENDS RecordInvariant, TLC

Symmetry == Permutations(Procs)
=============================================================================
