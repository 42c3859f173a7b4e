-------------------------- MODULE SuspendProtocol --------------------------
(***************************************************************************)
(* The suspend and resume protocol of the QEMU backend (backend/qemu) as   *)
(* the jm commands drive it (package cli): suspend, start (which wakes a   *)
(* suspended machine), stop, and stop --force ("kill").                    *)
(*                                                                         *)
(* One command at a time holds the machine lock.  It may be killed between *)
(* any two steps, QEMU may die at any time, and the host may lose power,   *)
(* which keeps or loses each unsynced directory change on its own.         *)
(***************************************************************************)
EXTENDS SuspendRecovery

-----------------------------------------------------------------------------
(* A command takes the lock, recovers, then reads the machine's state. *)

\* A forced stop goes on when Recover fails; every other command gives up.
Begin(c) ==
    /\ pc = "idle"
    /\ LaunchGap \/ qemu.st # "starting" \/ pidfile
    /\ cmd' = c
    /\ pc' = "recover"
    /\ ret' = [ok |-> "dispatch", err |-> IF c = "kill" THEN "dispatch" ELSE "idle"]
    /\ UNCHANGED <<files, guest>>

\* Where a stop or a start goes from a machine that is not running.
FromState ==
    \/ /\ State = "stopped"
       /\ Goto(IF cmd = "start" THEN "coldStart" ELSE "idle")
    \/ /\ State = "stopped" /\ cmd = "start"   \* a wake never boots
       /\ Goto("idle")
    \/ /\ State = "suspended" /\ cmd # "kill"
       /\ Goto("resume")
    \/ /\ State = "suspended" /\ cmd = "kill"
       /\ Call("discardJournal", "idle", "idle")

dispatch ==
    /\ pc = "dispatch"
    /\ \/ /\ cmd = "suspend" /\ State = "running" /\ journal.phase = "none"
          /\ Goto("prepare")
       \/ /\ cmd = "suspend"          \* not running, busy, or cancelled
          /\ Goto("idle")
       \/ /\ cmd = "start" /\ State = "running"
          /\ Goto("idle")             \* the remaining stages, or an error
       \/ /\ cmd # "suspend" /\ State = "running"
          /\ Goto("stopQemu")         \* a stop, or the provider is gone
       \/ /\ cmd # "suspend"
          /\ FromState
       \/ /\ cmd # "suspend" /\ State # "running"
          /\ Call("repair", "restate", "idle")  \* it or its provider is broken
    /\ UNCHANGED <<files, guest>>

\* The state read again after a repair; a journal that cannot be read makes
\* it broken.
restate ==
    /\ pc = "restate"
    /\ \/ FromState
       \/ State \in {"running", "broken"} /\ Goto("idle")
       \/ Unreadable /\ Goto("idle")
    /\ UNCHANGED <<files, guest>>

\* Backend.Stop: the process is gone before its runtime files are.  After a
\* repair the state is read again.
stopQemu ==
    /\ pc = "stopQemu"
    /\ \E next \in IF cmd = "start" THEN {"restate"} ELSE {"restate", "idle"} :
       \/ Alive /\ Killed /\ Goto(next)
       \/ Alive /\ KillFails /\ Goto("idle")
       \/ ~Alive /\ UNCHANGED <<qemu, pidfile>> /\ Call("repair", next, "idle")
    /\ UNCHANGED <<journal, jdur, image, idur, tmp, incoming, ver, disk>>

-----------------------------------------------------------------------------
(* Suspend. *)

\* PrepareSuspend: the guest runs, so it is only journalled as "saving".
PrepareSuspend ==
    /\ pc = "prepare"
    /\ \/ /\ Alive /\ journal.phase = "none" /\ qemu.st = "running"
          /\ writeJournal(Journal("saving", Absent))
          /\ Goto("prepareSync")
       \/ UNCHANGED <<journal, jdur>> /\ Goto("idle")
    /\ UNCHANGED <<image, idur, tmp, pidfile, incoming, guest>>

prepareSync ==
    /\ pc = "prepareSync"
    /\ syncDir("quiesce", "idle")
    /\ UNCHANGED <<journal, image, tmp, pidfile, incoming, guest>>

\* S5 to S9: endpoints taken, guest quiesced, or a client cancels.
quiesce ==
    /\ pc = "quiesce"
    /\ Goto("commit") \/ Goto("cancel")
    /\ UNCHANGED <<files, guest>>

\* CommitSuspend, S10 and S11: refused or cancelled before the freeze, or
\* the guest is stopped.
CommitSuspend ==
    /\ pc = "commit"
    /\ \/ ~Alive /\ Goto("crashed") /\ UNCHANGED qemu
       \/ Alive /\ Goto("refused") /\ UNCHANGED qemu
       \/ Unreadable /\ Goto("afterCommit") /\ UNCHANGED qemu
       \/ /\ Alive /\ qemu.st = "running"
          /\ SetRunState("paused")
          /\ Goto("save") \/ Goto("rollback")
       \/ Goto("rollback") /\ UNCHANGED qemu          \* stop failed
    /\ UNCHANGED <<files, ver, disk>>

\* S12: the image is created empty and QEMU starts writing it.
save ==
    /\ pc = "save"
    /\ \/ /\ qemu.st = "paused"
          /\ SetRunState("migrating")
          /\ tmp' = Partial
          /\ Goto("poll")
       \/ /\ tmp' \in {tmp, Partial}
          /\ Goto("rollback")
          /\ UNCHANGED qemu
    /\ UNCHANGED <<journal, jdur, image, idur, pidfile, incoming, ver, disk>>

\* Mutant: the save is watched without a deadline.
pollForever ==
    /\ pc = "poll"
    /\ \/ qemu.st = "postmigrate" /\ Goto("durable")
       \/ qemu.st = "paused" /\ Goto("rollback")
       \/ ~Alive /\ Goto("crashed")
    /\ UNCHANGED <<files, guest>>

poll ==
    /\ pc = "poll"
    /\ \/ qemu.st = "postmigrate" /\ Goto("durable")
       \/ ~Alive /\ Goto("crashed")
       \/ Goto("rollback")            \* failed, cancelled or out of time
    /\ UNCHANGED <<files, guest>>

\* S13, makeDurable: the synced image is renamed into place.
makeDurable ==
    /\ pc = "durable"
    /\ \/ /\ tmp \in Versions         \* at least the guest's memory
          /\ image' = tmp
          /\ idur' = idur \cup {tmp}
          /\ tmp' = Absent
          /\ Goto("durableSync")
       \/ /\ Goto("rollback")
          /\ UNCHANGED <<image, idur, tmp>>
    /\ UNCHANGED <<journal, jdur, pidfile, incoming, guest>>

durableSync ==
    /\ pc = "durableSync"
    /\ syncDir("commitWrite", "rollback")
    /\ UNCHANGED <<journal, image, tmp, pidfile, incoming, guest>>

\* Mutant: the committed phase is one that no reader knows.
commitWriteUnknownPhase ==
    /\ pc = "commitWrite"
    /\ writeJournal(Journal("committed", Absent))
    /\ Goto("commitSync")
    /\ UNCHANGED <<image, idur, tmp, pidfile, incoming, guest>>

\* The commit point: the journal is renamed to "saved".
commitWrite ==
    /\ pc = "commitWrite"
    /\ \/ writeJournal(Journal("saved", Absent)) /\ Goto("commitSync")
       \/ UNCHANGED <<journal, jdur>> /\ Goto("rollback")
       \/ Unreadable /\ UNCHANGED <<journal, jdur>> /\ Goto("afterCommit")
    /\ UNCHANGED <<image, idur, tmp, pidfile, incoming, guest>>

\* Mutants: a failed sync after the rename rolls back; there is no sync.
commitSyncRollsBack ==
    /\ pc = "commitSync"
    /\ syncDir("quit", "rollback")
    /\ UNCHANGED <<journal, image, tmp, pidfile, incoming, guest>>

commitSyncSkipped ==
    /\ pc = "commitSync"
    /\ Goto("quit")
    /\ UNCHANGED <<files, guest>>

\* A failed sync after the rename is a commit; an unreadable journal after
\* it leaves the guest paused for recovery.
commitSync ==
    /\ pc = "commitSync"
    /\ \/ syncDir("quit", "quitUnsynced")
       \/ /\ DirSyncFails /\ Unreadable
          /\ Goto("afterCommit")
          /\ UNCHANGED <<jdur, idur>>
    /\ UNCHANGED <<journal, image, tmp, pidfile, incoming, guest>>

\* Mutant: a QEMU that is already gone counts as a crash of the save.
quitGoneIsCrash ==
    /\ pc \in {"quit", "quitUnsynced"}
    /\ \/ Alive /\ Killed /\ Goto("fpWrite")
       \/ ~Alive /\ UNCHANGED <<qemu, pidfile>> /\ Goto("crashed")
    /\ UNCHANGED <<journal, jdur, image, idur, tmp, incoming, ver, disk>>

\* S14: end QEMU, then add the disk's fingerprint.
quit ==
    /\ pc \in {"quit", "quitUnsynced"}
    /\ \/ KilledBestEffort /\ Goto("fpWrite")
       \/ Alive /\ UNCHANGED <<qemu, pidfile>> /\ Goto("idle")
    /\ UNCHANGED <<journal, jdur, image, idur, tmp, incoming, ver, disk>>

fpWrite ==
    /\ pc = "fpWrite"
    /\ \/ writeJournal(Journal("saved", disk)) /\ Goto("fpSync")
       \/ UNCHANGED <<journal, jdur>> /\ Goto("idle")
    /\ UNCHANGED <<image, idur, tmp, pidfile, incoming, guest>>

fpSync ==
    /\ pc = "fpSync"
    /\ syncDirBestEffort("idle")
    /\ UNCHANGED <<journal, image, tmp, pidfile, incoming, guest>>

\* R-B: cancel the migration, drop the images, continue the guest.
rollback ==
    /\ pc = "rollback"
    /\ \/ /\ ~Alive
          /\ Goto("crashed")
          /\ UNCHANGED qemu
       \/ /\ Alive
          /\ SetRunState(IF qemu.st = "migrating" THEN "paused" ELSE qemu.st)
          /\ Goto("rbImages")
       \/ /\ Alive                    \* no monitor, or cancelling failed
          /\ Goto("afterCommit")
          /\ UNCHANGED qemu
    /\ UNCHANGED <<files, ver, disk>>

rbImages ==
    /\ pc = "rbImages"
    /\ removeImagesThen("rbCont", "rbCont")
    /\ UNCHANGED <<journal, jdur, pidfile, incoming, guest>>

rbCont ==
    /\ pc = "rbCont"
    /\ \/ contAndConfirm("afterCommit", "afterCommit")
       \/ ~Alive /\ Goto("crashed") /\ UNCHANGED qemu
    /\ UNCHANGED <<files, ver, disk>>

\* R-C: QEMU died before the commit.
crashed ==
    /\ pc = "crashed"
    /\ tmp' \in {tmp, Absent}
    /\ UNCHANGED pidfile \/ (qemu.st = "none" /\ pidfile' = FALSE)
    /\ Call("discardJournal", "idle", "idle")
    /\ UNCHANGED <<journal, jdur, image, idur, incoming, guest>>

\* afterCommitError for a CommitSuspend that was refused before the freeze.
afterRefusal ==
    /\ pc = "refused"
    /\ \/ Alive /\ Goto("cancel")
       \/ Alive /\ Unreadable /\ Goto("idle")
       \/ ~Alive /\ Call("discardJournal", "idle", "idle")
    /\ UNCHANGED <<files, guest>>

\* Mutant: the journal is cancelled without making sure that the guest runs.
afterCommitErrorNoRecover ==
    /\ pc = "afterCommit"
    /\ Goto(IF journal.phase = "saved" THEN "idle" ELSE "cancel")
    /\ UNCHANGED <<files, guest>>

\* afterCommitError for a save that failed: committed anyway, QEMU dead, or
\* recovery makes sure that the guest runs before the journal is cancelled.
afterCommitError ==
    /\ pc = "afterCommit"
    /\ \/ journal.phase = "saved" /\ Goto("idle")
       \/ journal.phase # "saved" /\ Alive /\ Call("recover", "cancel", "idle")
       \/ Alive /\ Unreadable /\ Goto("idle")
       \/ /\ ~Alive /\ (journal.phase # "saved" \/ Unreadable)
          /\ Call("discardJournal", "idle", "idle")          \* hypervisorDied
    /\ UNCHANGED <<files, guest>>

CancelSuspend ==
    /\ pc = "cancel"
    /\ \/ journal.phase \in {"none", "saved"} /\ Goto("idle")
       \/ journal.phase \in {"saving", "bad"} /\ Call("discardJournal", "idle", "idle")
       \/ Unreadable /\ Goto("idle")
    /\ UNCHANGED <<files, guest>>

SuspendStep ==
    \/ PrepareSuspend \/ prepareSync \/ quiesce
    \/ CommitSuspend \/ save \/ poll \/ makeDurable \/ durableSync
    \/ commitWrite \/ commitSync \/ quit \/ fpWrite \/ fpSync
    \/ rollback \/ rbImages \/ rbCont \/ crashed
    \/ afterRefusal \/ afterCommitError \/ CancelSuspend

-----------------------------------------------------------------------------
(* Resume, the backend half of a wake. *)

\* An incompatible saved state is discarded, and a start boots from disk.
Incompatible ==
    Call("discardJournal", IF cmd = "start" THEN "coldStart" ELSE "idle", "idle")

\* The fingerprint, when the journal has one, must match the disk.
FingerprintMatches == journal.fp = Absent \/ journal.fp = disk

\* The process is there; it writes its pid file itself, later.
Launched == qemu' = [st |-> "starting", mem |-> Absent]

\* W0 and W3: validate from files, then launch the saved argv waiting for a
\* migration.
Resume ==
    /\ pc = "resume"
    /\ \/ /\ Goto("idle")            \* not suspended, or a transient failure
          /\ UNCHANGED <<pidfile, incoming, qemu>>
       \/ /\ ~Alive /\ journal.phase = "saved"   \* image, hardware or argv
          /\ Incompatible
          /\ UNCHANGED <<pidfile, incoming, qemu>>
       \/ /\ ~Alive /\ validImage /\ FingerprintMatches
          /\ pidfile' = FALSE
          /\ \/ incoming' = TRUE /\ Launched /\ Goto("load")
             \/ /\ UNCHANGED incoming \/ incoming' = TRUE  \* the launch failed
                /\ UNCHANGED qemu
                /\ Goto("idle")
    /\ UNCHANGED <<journal, jdur, image, idur, tmp, ver, disk>>

\* waitIncoming, then W4: the load is started.
load ==
    /\ pc = "load"
    /\ \/ qemu.st = "inmigrate" /\ pidfile /\ SetRunState("loading") /\ Goto("waitLoaded")
       \/ UNCHANGED qemu /\ (Goto("rejected") \/ Goto("transient"))
    /\ UNCHANGED <<files, ver, disk>>

waitLoaded ==
    /\ pc = "waitLoaded"
    /\ \/ qemu.st \in {"paused", "running"} /\ Goto("resumeUnlink")
       \/ qemu.st \in {"loadfailed", "none"} /\ Goto("rejected")
       \/ Goto("transient")           \* out of time
    /\ UNCHANGED <<files, guest>>

\* The state can never be loaded: QEMU is killed and the state discarded,
\* unless QEMU survived and still has the disk open.
rejected ==
    /\ pc = "rejected"
    /\ \/ KilledBestEffort /\ Incompatible
       \/ Survives /\ Goto("idle")
    /\ UNCHANGED <<journal, jdur, image, idur, tmp, incoming, ver, disk>>

\* Mutant: the pid file of a QEMU that survived SIGKILL is removed.
transientForgetsSurvivor ==
    /\ pc = "transient"
    /\ qemu' \in {qemu, Dead}
    /\ pidfile' = FALSE
    /\ Goto("idle")
    /\ UNCHANGED <<journal, jdur, image, idur, tmp, incoming, ver, disk>>

transient ==
    /\ pc = "transient"
    /\ KilledBestEffort \/ Survives
    /\ Goto("idle")
    /\ UNCHANGED <<journal, jdur, image, idur, tmp, incoming, ver, disk>>

\* Mutant: the guest is continued with its journal still there.
resumeUnlinkSkipped ==
    /\ pc = "resumeUnlink"
    /\ Goto("resumeSync")
    /\ UNCHANGED <<files, guest>>

\* W5: the journal is removed, durably, before the guest runs.
resumeUnlink ==
    /\ pc = "resumeUnlink"
    /\ \/ writeJournal(NoJournal) /\ Goto("resumeSync")
       \/ UNCHANGED <<journal, jdur>> /\ Goto("transient")
    /\ UNCHANGED <<image, idur, tmp, pidfile, incoming, guest>>

\* Mutant: the removal's sync is best effort.
resumeSyncBestEffort ==
    /\ pc = "resumeSync"
    /\ syncDirBestEffort("resumeCont")
    /\ UNCHANGED <<journal, image, tmp, pidfile, incoming, guest>>

resumeSync ==
    /\ pc = "resumeSync"
    /\ syncDir("resumeCont", "resumeLeft")
    /\ UNCHANGED <<journal, image, tmp, pidfile, incoming, guest>>

resumeCont ==
    /\ pc = "resumeCont"
    /\ contAndConfirm("resumeImages", "resumeLeft")
    /\ UNCHANGED <<files, ver, disk>>

resumeImages ==
    /\ pc = "resumeImages"
    /\ LET next == IF cmd = "stop" THEN "stopQemu" ELSE "idle" IN
       removeImagesThen(next, next)
    /\ UNCHANGED <<journal, jdur, pidfile, incoming, guest>>

\* Restored, but not continued: a stop shuts it down, a wake leaves it to
\* recovery.
resumeLeft ==
    /\ pc = "resumeLeft"
    /\ Goto(IF cmd = "stop" /\ Alive THEN "stopQemu" ELSE "idle")
    /\ UNCHANGED <<files, guest>>

ResumeStep ==
    \/ Resume \/ load \/ waitLoaded \/ rejected \/ transient
    \/ resumeUnlink \/ resumeSync \/ resumeCont \/ resumeImages \/ resumeLeft

-----------------------------------------------------------------------------
(* Start, the cold boot. *)

Start ==
    /\ pc = "coldStart"
    /\ \/ State \in {"running", "suspended"} /\ Goto("idle")
       \/ State = "broken" /\ Call("repair", "coldRemove", "idle")
       \/ State = "stopped" /\ Goto("coldRemove")
    /\ UNCHANGED <<files, guest>>

\* An image without a journal is an orphan.
coldRemove ==
    /\ pc = "coldRemove"
    /\ \/ /\ State = "suspended"
          /\ Goto("idle")
          /\ UNCHANGED <<image, idur, tmp>>
       \/ /\ State # "suspended" /\ journal.phase = "none"
          /\ removeImagesThen("coldLaunch", "idle")
       \/ /\ State # "suspended" /\ journal.phase # "none"
          /\ Goto("coldLaunch")
          /\ UNCHANGED <<image, idur, tmp>>
    /\ UNCHANGED <<journal, jdur, pidfile, incoming, guest>>

coldLaunch ==
    /\ pc = "coldLaunch"
    /\ \/ incoming' = FALSE /\ Launched /\ Goto("coldWait")
       \/ /\ UNCHANGED incoming \/ incoming' = FALSE
          /\ Goto("idle")
          /\ UNCHANGED qemu
    /\ UNCHANGED <<journal, jdur, image, idur, tmp, pidfile, ver, disk>>

\* waitLaunched: ready, or exited, or killed.
waitLaunched ==
    /\ pc = "coldWait"
    /\ \/ qemu.st = "running" /\ pidfile /\ UNCHANGED <<qemu, pidfile>>
       \/ KilledBestEffort
       \/ Survives
    /\ Goto("idle")
    /\ UNCHANGED <<journal, jdur, image, idur, tmp, incoming, ver, disk>>

StartStep == Start \/ coldRemove \/ coldLaunch \/ waitLaunched

LifecycleStep == dispatch \/ restate \/ stopQemu

JmStep == RecoverStep \/ LifecycleStep \/ SuspendStep \/ ResumeStep \/ StartStep

-----------------------------------------------------------------------------
(* QEMU and the guest, as the backend uses them. *)

\* A launched QEMU writes its pid file, then runs the guest or waits for its
\* migration.
QemuStarts ==
    /\ qemu.st = "starting"
    /\ pidfile' = TRUE
    /\ qemu' = IF incoming THEN [st |-> "inmigrate", mem |-> Absent]
               ELSE [st |-> "running", mem |-> ver]
    /\ UNCHANGED <<journal, jdur, image, idur, tmp, incoming, ver, disk, ctl>>

GuestExecutes ==
    /\ qemu.st = "running"
    /\ ver < MaxVer
    /\ ver' = ver + 1
    /\ qemu' = [qemu EXCEPT !.mem = ver + 1]
    /\ disk' \in {disk, ver + 1}
    /\ UNCHANGED <<files, ctl>>

MigrationEnds ==
    /\ qemu.st = "migrating"
    /\ \/ SetRunState("postmigrate") /\ tmp' = qemu.mem
       \/ SetRunState("paused") /\ UNCHANGED tmp
    /\ UNCHANGED <<journal, jdur, image, idur, pidfile, incoming, ver, disk, ctl>>

LoadEnds ==
    /\ qemu.st = "loading"
    /\ \/ image # Absent /\ qemu' = [qemu EXCEPT !.st = "paused", !.mem = image]
       \/ SetRunState("loadfailed")
    /\ UNCHANGED <<files, ver, disk, ctl>>

\* A crash, the host killing it, or the guest powering off; a clean exit
\* removes the pid file.
QemuDies ==
    /\ qemu.st # "none"
    /\ KilledBestEffort
    /\ UNCHANGED <<journal, jdur, image, idur, tmp, incoming, ver, disk, ctl>>

QemuStep == QemuStarts \/ GuestExecutes \/ MigrationEnds \/ LoadEnds \/ QemuDies

-----------------------------------------------------------------------------
(* Faults. *)

\* The command is killed; the kernel drops its lock.
JmKilled ==
    /\ pc # "idle"
    /\ Goto("idle")
    /\ UNCHANGED <<files, guest>>

PowerFails ==
    /\ PowerLoss
    /\ journal' \in jdur
    /\ jdur' = {journal'}
    /\ image' \in idur
    /\ idur' = {image'}
    /\ tmp' \in {tmp, Absent}
    /\ KilledBestEffort
    /\ Goto("idle")
    /\ UNCHANGED <<incoming, ver, disk>>

\* The journal a command finds is not one it can parse: written by another
\* version of jm, or damaged.
JournalTurnsBad ==
    /\ BadJournals
    /\ pc = "idle"
    /\ journal.phase \in {"saving", "saved"}
    /\ journal' = Journal("bad", Absent)
    /\ jdur' = {journal'}
    /\ UNCHANGED <<image, idur, tmp, pidfile, incoming, guest, ctl>>

Fault == JmKilled \/ PowerFails \/ JournalTurnsBad

-----------------------------------------------------------------------------
Init ==
    /\ journal = NoJournal /\ jdur = {NoJournal}
    /\ image = Absent /\ idur = {Absent} /\ tmp = Absent
    /\ pidfile = FALSE /\ incoming = FALSE
    /\ qemu = Dead /\ ver = 1 /\ disk = 1
    /\ pc = "idle" /\ cmd = "none" /\ ret = [ok |-> "idle", err |-> "idle"]

Next ==
    \/ \E c \in Commands : Begin(c)
    \/ JmStep
    \/ QemuStep
    \/ Fault

Spec == Init /\ [][Next]_vars

\* Every wait of a command is bounded by a deadline of its own, so a running
\* command keeps taking steps whatever QEMU does.
FairSpec == Spec /\ WF_vars(JmStep)

-----------------------------------------------------------------------------
(* Properties. *)

FilesOK ==
    /\ journal \in Journals /\ jdur \in SUBSET Journals
    /\ image \in {Absent} \cup Versions /\ idur \in SUBSET ({Absent} \cup Versions)
    /\ tmp \in {Absent, Partial} \cup Versions
    /\ pidfile \in BOOLEAN /\ incoming \in BOOLEAN

GuestOK == qemu \in Qemus /\ ver \in Versions /\ disk \in Versions

ControlOK ==
    /\ pc \in Labels /\ cmd \in Commands \cup {"none"}
    /\ ret \in [ok: Returns, err: {"idle", "dispatch"}]

\* Types of the directory, the hypervisor and the command.
TypeOK == FilesOK /\ GuestOK /\ ControlOK

\* A QEMU that has come up can always be found through its pid file, and no
\* second one is launched beside it, however the first one is doing.
OneHypervisor ==
    /\ qemu.st \in {"none", "starting"} \/ pidfile
    /\ pc = "coldLaunch" \/ (pc = "resume" /\ ~Alive) => qemu.st = "none"

\* A guest whose saved state is committed is never continued.
SavedNeverRuns == journal.phase = "saved" => qemu.st # "running"

\* A saved state is never loaded twice: the guest that runs is always the
\* newest one, never an older memory image continued after it ran on.
NeverStale == qemu.st = "running" => qemu.mem = ver

\* What never loading a saved state twice is for: the memory of the guest
\* that runs is at least as new as the last write to its disk.
DiskNeverDiverges == qemu.st = "running" => disk <= qemu.mem

\* A restored guest runs only once the removal of its journal is durable: no
\* power loss can bring the saved state back beside it.
RestoredNeverResurrected ==
    qemu.st = "running" /\ incoming => \A j \in jdur : j.phase # "saved"

\* The image is durable before the journal commits it, and the guest's
\* process is only ended once both survive a power loss, unless the journal's
\* sync has failed: the commit then stands for as long as the power does.
QuitIsDurable ==
    /\ pc = "commitSync" => idur = {image}
    /\ pc \in {"quit", "quitUnsynced"} => idur = {image} /\ validImage
    /\ pc = "quit" => jdur = {journal}

\* A journal that State reads as suspended points at a complete image of
\* the newest guest.
SavedIsNewest == validImage => image = ver

\* A guest that stands still is one that the next command's recovery will
\* continue or end, as long as no journal is set aside as unparseable.
NoStrandedGuest ==
    pc = "idle" /\ qemu.st \in {"paused", "migrating", "postmigrate"}
        => journal.phase # "none" \/ incoming

\* A command that got past recovery finds no half-done suspend.
RecoverResolves ==
    pc = "dispatch" /\ cmd # "kill"
        => /\ journal.phase \in {"none", "saved"}
           /\ journal.phase = "saved" => qemu.st = "none"

\* The newest guest state exists in memory or in a committed image.
Kept == qemu.mem = ver \/ (validImage /\ image = ver)

\* A guest that can be continued is never killed, and a saved state never
\* dropped: jm does not destroy the newest guest state, except for a stop, a
\* boot that failed, a broken network, a saved state that cannot be restored
\* or a restored guest that died before its journal went.
GuestNeverLost ==
    [][JmStep /\ Kept /\ ~Kept'
        => \/ cmd \in {"stop", "kill"}
           \/ pc \in {"stopQemu", "coldWait"}
           \/ pc = "discardJournal" /\ ret.ok = "coldStart"
           \/ pc = "resumeUnlink" /\ qemu.st = "none"]_vars

\* A suspend never discards a saved state that can be resumed, as long as the
\* journal can be read when its outcome is looked at (afterCommitError).
SuspendKeepsSaved == pc = "discardJournal" /\ cmd = "suspend" => ~validImage

\* A command ends, whatever QEMU does.
Terminates == pc # "idle" ~> pc = "idle"

=============================================================================
