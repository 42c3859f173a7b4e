------------------------- MODULE SuspendRefinement -------------------------
(***************************************************************************)
(* SuspendProtocol implements GuestMemory as long as the host keeps power. *)
(***************************************************************************)
EXTENDS SuspendInvariant

\* A complete image that the command in charge is about to commit; it is
\* still the live copy, even when QEMU has exited in the meantime.
BeingCommitted ==
    \/ pc = "durable" /\ tmp \in Versions
    \/ pc \in {"durableSync", "commitWrite"}

HeldVersion ==
    CASE validImage -> image
      [] ~validImage /\ BeingCommitted -> IF tmp \in Versions THEN tmp ELSE image
      [] OTHER -> qemu.mem

Holder ==
    CASE validImage -> "saved"
      [] ~validImage /\ HeldVersion # Absent -> "live"
      [] OTHER -> "none"

Memory == INSTANCE GuestMemory
    WITH holder <- Holder, content <- HeldVersion, latest <- ver

\* The directory, the process and the recovery together keep a single copy
\* of the guest's memory.
ImplementsGuestMemory == Memory!Spec
=============================================================================
