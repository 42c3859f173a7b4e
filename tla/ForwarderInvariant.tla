------------------------- MODULE ForwarderInvariant -------------------------
(***************************************************************************)
(* The inductive invariant behind RecordedBeforeExposed and OthersStay:    *)
(* how far forwards.json, what the forwarder remembers and the provider's  *)
(* table may be apart at each place of a pass and of a release.            *)
(***************************************************************************)
EXTENDS Forwarder

Ours == {k \in Keys : prov.table[k] = "ours"}

\* Places between two passes' changes of the record.
Between == {"ps", "inspect", "apply", "list", "wait"}

Converging == {"stale", "save", "expose"}

PassInv ==
    /\ fw.pc = "load" => fw.owned = NoEntries
    /\ fw.pc \in Between => fw.owned = file
    /\ fw.pc \in Converging /\ ~fw.dirty => fw.owned = file
    /\ fw.pc \in {"stale", "save"} => Ours \subseteq fw.live \cap Recorded(fw.owned)
    /\ fw.pc = "stale" => fw.todo \subseteq Recorded(file)
    /\ fw.pc \in {"save", "expose"} => fw.todo \subseteq Recorded(fw.owned)
    /\ fw.pc = "expose" => Recorded(fw.owned) = Recorded(file)

ReleaseInv ==
    /\ cmd.pc # "off" => fw.pc = "dead"
    /\ cmd.pc = "release" => Ours \subseteq cmd.todo /\ cmd.todo \subseteq Recorded(file)
    /\ ~prov.up => InTable = {}

RecordInv == PassInv /\ ReleaseInv /\ RecordedBeforeExposed
=============================================================================
