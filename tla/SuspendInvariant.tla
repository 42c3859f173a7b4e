-------------------------- MODULE SuspendInvariant --------------------------
(***************************************************************************)
(* The inductive invariant behind OneHypervisor, SavedNeverRuns and        *)
(* NeverStale: what the command's position tells about the journal, the    *)
(* hypervisor and the images.                                              *)
(***************************************************************************)
EXTENDS SuspendProtocol

\* Positions between the freeze and the end of the process.
Frozen == {"save", "poll", "durable", "durableSync", "commitWrite",
           "commitSync", "quit", "quitUnsynced"}

\* Positions that are only reached with QEMU gone.
Gone == {"repair", "repairSuspend", "savedFp", "savedFpSync", "fpWrite",
         "fpSync", "coldRemove", "coldLaunch", "killedImages"}

\* Positions at which the journal is not committed.
Uncommitted ==
    {"prepareSync", "quiesce", "commit", "save", "poll", "durable",
     "durableSync", "commitWrite", "refused", "rollback", "rbImages", "rbCont",
     "asideSync", "recoverSaving", "savingCont", "coldLaunch"}

\* Positions at which there is no journal.
Removed == {"discardSync", "discardImages", "incomingSync", "incomingCont",
            "incomingImages", "incomingKill", "killedImages",
            "resumeSync", "resumeCont", "resumeImages", "resumeLeft"}

\* Positions at which the journal is committed.
Committed == {"commitSync", "quit", "quitUnsynced", "fpWrite", "fpSync", "recoverSaved",
              "savedFp", "savedFpSync"}

\* Positions inside Recover before it hands over to the repair.
InRecover == {"recover", "recoverSaved", "savedFp", "savedFpSync", "asideSync",
              "recoverSaving", "savingCont", "incomingSync", "incomingCont",
              "incomingImages", "incomingKill", "killedImages"}

Discarding == {"repair", "repairSuspend",
               "discardJournal", "discardSync", "discardImages"}

PositionInv ==
    /\ pc \in Frozen => qemu.st \notin {"starting", "running"}
    /\ pc \in Gone => qemu.st = "none"
    /\ pc \in Uncommitted => journal.phase # "saved"
    /\ pc \in Removed => journal.phase = "none"
    /\ pc \in Committed => journal.phase = "saved"
    /\ pc \in InRecover => ret.ok \in {"dispatch", "cancel"}
    /\ pc \in Discarding /\ ret.ok \in {"coldStart", "coldRemove"} => qemu.st = "none"
    /\ pc = "coldRemove" => journal.phase = "none" \/ validImage

\* Only its launcher waits for a QEMU without a pid file, and one that will
\* run the guest at once comes up beside no committed journal.
Tracked ==
    /\ qemu.st # "none" =>
         \/ pidfile
         \/ qemu.st = "starting" /\ pc \in {"idle", "coldWait", "load", "rejected", "transient"}
    /\ qemu.st = "starting" /\ ~incoming => journal.phase # "saved"

\* SavedNeverRuns and OneHypervisor with what makes them inductive.
ControlInv == PositionInv /\ Tracked /\ SavedNeverRuns

\* Where the newest version of the guest is, as long as the power holds.
VersionInv ==
    /\ qemu.st \in {"running", "paused", "migrating", "postmigrate"} => qemu.mem = ver
    /\ qemu.st \in {"inmigrate", "loading"} \/ (qemu.st = "starting" /\ incoming)
           => image \in {Absent, ver}
    /\ pc \in {"poll", "durable"} /\ tmp \in Versions => tmp = ver
    /\ pc \in {"durableSync", "commitWrite"} => image = ver
    /\ SavedIsNewest

-----------------------------------------------------------------------------
(* Where the guest's memory is while a command hands it over. *)

\* Run states of a QEMU that holds no guest memory, and of one that holds a
\* guest which does not execute.
Empty == {"none", "starting", "inmigrate", "loading", "loadfailed"}
Still == {"paused", "migrating", "postmigrate"}

\* Positions of a suspend between its first journal and its commit.
Saving == {"prepareSync", "quiesce", "commit", "save", "poll", "durable",
           "durableSync", "commitWrite", "refused", "rollback", "rbImages",
           "rbCont", "crashed"}

\* Positions of a resume that still has the saved state to fall back on.
Loading == {"load", "waitLoaded", "resumeUnlink"}

HandoverInv ==
    /\ qemu.st \in Empty => qemu.mem = Absent
    /\ pc \in Saving => journal.phase = "saving"
    /\ pc \in {"discardJournal", "prepareSync", "quiesce", "commit", "refused"}
           => qemu.st \in {"running", "none"}
    /\ pc = "cancel" => journal.phase \in {"none", "saved"} \/ qemu.st \in {"running", "none"}
    /\ pc = "crashed" => qemu.st = "none"
    /\ pc \in {"durable", "durableSync", "commitWrite"} => qemu.st \in {"postmigrate", "none"}
    /\ pc \in {"durableSync", "commitWrite"} => tmp = Absent /\ image # Absent
    /\ pc \in Loading \cup {"rejected", "transient"} => journal.phase = "saved"
    /\ pc \in Loading => incoming
    /\ pc \in Loading => qemu.st \in Empty \/ (qemu.st = "paused" /\ qemu.mem = image)
    /\ pc = "resumeUnlink" => qemu.st \in {"none", "paused"}

\* RecoverResolves; only a forced stop goes on after a Recover that failed.
RecoverInv ==
    /\ ret.err = "dispatch" => cmd = "kill"
    /\ RecoverResolves

\* RestoredNeverResurrected, from the removal of the journal on: whoever may
\* come to continue a restored guest finds no saved journal to bring back.
ResurrectInv ==
    incoming /\ \/ journal.phase \in {"saving", "bad"}
                \/ pc \in {"asideSync", "recoverSaving", "savingCont",
                           "incomingCont", "resumeCont"}
                \/ qemu.st = "running"
        => \A j \in jdur : j.phase # "saved"

\* QuitIsDurable, with what the rename and its sync leave behind.
DurableInv ==
    /\ pc = "commitWrite" => idur = {image}
    /\ pc = "commitSync" => image # Absent
    /\ QuitIsDurable

\* NoStrandedGuest at every position, when no journal turns unparseable.
StrandInv ==
    /\ \A j \in {journal} \cup jdur : j.phase # "bad"
    /\ qemu.st \in Still => journal.phase # "none" \/ incoming
    /\ qemu.st \in Empty \ {"none", "starting"} => incoming

\* SuspendKeepsSaved: who may be discarding a saved state, when an existing
\* journal can be read.
DiscardInv ==
    /\ cmd = "none" => pc = "idle"
    /\ pc \in {"restate", "stopQemu"} \/ ret.ok = "restate" => cmd # "suspend"
    /\ pc \in Loading \cup {"resume", "rejected"} => cmd \in {"start", "stop"}
    /\ ret.ok = "coldStart" => cmd = "start"
    /\ pc = "discardJournal" => ~validImage \/ cmd \in {"stop", "kill"} \/ ret.ok = "coldStart"

\* The copies of the newest guest, across power losses and failed syncs.
CopiesInv ==
    /\ journal.phase = "saved" /\ qemu.mem = ver => image = ver
    /\ pc \in {"poll", "durable"} /\ tmp \in Versions => tmp = qemu.mem \/ qemu.st = "none"
    /\ pc \in {"durableSync", "commitWrite"} => image = qemu.mem \/ qemu.st = "none"
    /\ qemu.st \in Empty \ {"none"} => journal.phase = "saved" \/ (qemu.st = "starting" /\ ~incoming)
    /\ pc # "incomingKill"
=============================================================================
