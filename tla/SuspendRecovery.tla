-------------------------- MODULE SuspendRecovery --------------------------
(***************************************************************************)
(* Recover and Repair of the QEMU backend: how a command that takes the    *)
(* machine lock resolves the suspend or resume a killed command left half  *)
(* done, before it does anything of its own.  Every file operation, QMP    *)
(* command and directory sync that a crash could separate is a step.       *)
(***************************************************************************)
EXTENDS SuspendDir

Commands == {"suspend", "start", "stop", "kill"}

Labels ==
    {"idle", "dispatch",
     "recover", "recoverSaved", "savedFp", "savedFpSync", "asideSync",
     "recoverSaving", "savingCont", "incomingSync", "incomingCont",
     "incomingImages", "incomingKill", "killedImages",
     "repair", "repairSuspend", "discardJournal", "discardSync", "discardImages",
     "prepare", "prepareSync", "quiesce", "commit", "save", "poll", "durable",
     "durableSync", "commitWrite", "commitSync", "quit", "quitUnsynced", "fpWrite", "fpSync",
     "refused", "rollback", "rbImages", "rbCont", "crashed", "afterCommit", "cancel",
     "restate", "resume", "load", "waitLoaded", "rejected", "transient",
     "resumeUnlink", "resumeSync", "resumeCont", "resumeImages", "resumeLeft",
     "coldStart", "coldRemove", "coldLaunch", "coldWait",
     "stopQemu"}

Returns == {"idle", "dispatch", "cancel", "restate", "coldStart", "coldRemove"}

SetRunState(s) == qemu' = [qemu EXCEPT !.st = s]

\* A QEMU that was ended, and its runtime files removed.
Killed == qemu' = Dead /\ pidfile' = FALSE

\* The same when the caller ignores that the files could not be removed.
KilledBestEffort == qemu' = Dead /\ (UNCHANGED pidfile \/ pidfile' = FALSE)

\* It survived SIGKILL, or its runtime files cannot be removed.
KillFails == qemu' \in {qemu, Dead} /\ UNCHANGED pidfile

\* It survived SIGKILL while it was being launched: jm records its pid, if it
\* can, where QEMU has not.
Survives == qemu.st # "none" /\ UNCHANGED qemu /\ (UNCHANGED pidfile \/ pidfile' = TRUE)

\* cont, then waiting for "running".  The confirmation may fail after the
\* guest was continued; a QEMU that cannot take the command fails it.
contAndConfirm(ok, err) ==
    \/ /\ qemu.st \in {"paused", "migrating", "postmigrate", "running"}
       /\ SetRunState("running")
       /\ Goto(ok) \/ Goto(err)
    \/ /\ UNCHANGED qemu
       /\ Goto(err)

\* removeImages whose error is ignored, or not.
removeImagesThen(ok, err) ==
    \/ removeImages /\ Goto(ok)
    \/ UNCHANGED <<image, idur, tmp>> /\ Goto(err)

-----------------------------------------------------------------------------
(* discardJournalThenImage: the journal goes durably, then the images. *)

discardJournal ==
    /\ pc = "discardJournal"
    /\ \/ writeJournal(NoJournal) /\ Goto("discardSync")
       \/ journal.phase # "none" /\ UNCHANGED <<journal, jdur>> /\ Goto(ret.err)
    /\ UNCHANGED <<image, idur, tmp, pidfile, incoming, guest>>

discardSync ==
    /\ pc = "discardSync"
    /\ syncDir("discardImages", ret.err)
    /\ UNCHANGED <<journal, image, tmp, pidfile, incoming, guest>>

discardImages ==
    /\ pc = "discardImages"
    /\ removeImagesThen(ret.ok, ret.err)
    /\ UNCHANGED <<journal, jdur, pidfile, incoming, guest>>

-----------------------------------------------------------------------------
(* Repair: stale runtime files go, a valid saved pair stays. *)

Repair ==
    /\ pc = "repair"
    /\ \/ pidfile' = FALSE /\ Goto("repairSuspend")
       \/ pidfile /\ UNCHANGED pidfile /\ Goto(ret.err)
    /\ UNCHANGED <<journal, jdur, image, idur, tmp, incoming, guest>>

repairSuspend ==
    /\ pc = "repairSuspend"
    /\ \/ /\ journal.phase = "none"
          /\ removeImagesThen(ret.ok, ret.err)
       \/ /\ validImage
          /\ tmp' = Absent
          /\ Goto(ret.ok)
          /\ UNCHANGED <<image, idur>>
       \/ /\ journal.phase # "none" /\ ~validImage
          /\ Goto("discardJournal")   \* a bad journal is renamed aside
          /\ UNCHANGED <<image, idur, tmp>>
       \/ /\ Unreadable              \* nothing is changed
          /\ Goto(ret.err)
          /\ UNCHANGED <<image, idur, tmp>>
    /\ UNCHANGED <<journal, jdur, pidfile, incoming, guest>>

-----------------------------------------------------------------------------
(* Recover: resolves what a killed command left half done. *)

\* The query-status answer jm sees (settledStatus).
Status ==
    CASE qemu.st = "migrating" -> "paused"
      [] qemu.st \in {"loading", "loadfailed"} -> "inmigrate"
      [] OTHER -> qemu.st

Transition == journal.phase \in {"saving", "bad"} \/ (journal.phase = "none" /\ incoming)

Recover ==
    /\ pc = "recover"
    /\ \/ /\ Unreadable              \* decide nothing on it
          /\ Goto(ret.err)
          /\ UNCHANGED files
       \/ /\ ~Alive
          /\ Goto(IF journal.phase = "none" THEN ret.ok ELSE "repair")
          /\ UNCHANGED files
       \/ /\ Alive /\ journal.phase = "saved"
          /\ Goto("recoverSaved")
          /\ UNCHANGED files
       \/ /\ Alive /\ journal.phase = "none" /\ ~incoming
          /\ removeImagesThen(ret.ok, ret.ok)
          /\ UNCHANGED <<journal, jdur, pidfile, incoming>>
       \/ /\ Alive /\ Transition      \* the monitor does not answer
          /\ Goto(IF journal.phase = "none" THEN ret.ok ELSE ret.err)
          /\ UNCHANGED files
       \/ /\ Alive /\ journal.phase = "none" /\ incoming
          /\ \/ /\ Status = "paused"
                /\ Goto("incomingSync")
             \/ /\ Status = "inmigrate"
                /\ Goto("incomingKill")
             \/ /\ Status \notin {"paused", "inmigrate", "starting"}
                /\ Goto("incomingImages")
          /\ UNCHANGED files
       \/ /\ Alive /\ journal.phase = "saving"
          /\ Goto("recoverSaving")
          /\ UNCHANGED files
       \/ /\ Alive /\ journal.phase = "bad"
          /\ writeJournal(NoJournal)
          /\ Goto("asideSync")
          /\ UNCHANGED <<image, idur, tmp, pidfile, incoming>>
    /\ UNCHANGED guest

asideSync ==
    /\ pc = "asideSync"
    /\ syncDirBestEffort("recoverSaving")
    /\ UNCHANGED <<journal, image, tmp, pidfile, incoming, guest>>

\* Mutant: a committed guest found paused is continued.
recoverSavedContinues ==
    /\ pc = "recoverSaved"
    /\ contAndConfirm("repairSuspend", ret.err)
    /\ UNCHANGED <<files, ver, disk>>

recoverSaved ==
    /\ pc = "recoverSaved"
    /\ \/ /\ Status = "running"       \* never with a saved journal
          /\ Goto("discardJournal")
          /\ UNCHANGED <<qemu, pidfile>>
       \/ /\ Status # "running"
          /\ Killed
          /\ Goto("savedFp")
       \/ /\ Status # "running"
          /\ KillFails
          /\ Goto(ret.err)
    /\ UNCHANGED <<journal, jdur, image, idur, tmp, incoming, ver, disk>>

savedFp ==
    /\ pc = "savedFp"
    /\ \/ /\ journal.fp = Absent
          /\ writeJournal(Journal("saved", disk))
          /\ Goto("savedFpSync")
       \/ /\ UNCHANGED <<journal, jdur>>
          /\ Goto("repairSuspend")
    /\ UNCHANGED <<image, idur, tmp, pidfile, incoming, guest>>

savedFpSync ==
    /\ pc = "savedFpSync"
    /\ syncDirBestEffort("repairSuspend")
    /\ UNCHANGED <<journal, image, tmp, pidfile, incoming, guest>>

\* Mutant: a guest found running keeps its journal.
recoverSavingKeepsJournal ==
    /\ pc = "recoverSaving"
    /\ Goto(IF Status = "running" THEN ret.ok ELSE ret.err)
    /\ UNCHANGED <<files, guest>>

recoverSaving ==
    /\ pc = "recoverSaving"
    /\ \/ /\ Status = "running"
          /\ Goto("discardJournal")
          /\ UNCHANGED <<tmp, qemu, pidfile>>
       \/ /\ Status \in {"paused", "postmigrate"}  \* cancelMigration
          /\ SetRunState(Status)
          /\ tmp' \in {tmp, Absent}
          /\ Goto("savingCont")
          /\ UNCHANGED pidfile
       \/ /\ Status = "inmigrate"
          /\ Killed
          /\ Goto("discardJournal")
          /\ UNCHANGED tmp
       \/ /\ Status = "inmigrate"
          /\ KillFails
          /\ Goto(ret.err)
          /\ UNCHANGED tmp
       \/ /\ Status # "running"       \* QMP failed, or an unexpected status
          /\ Goto(ret.err)
          /\ UNCHANGED <<tmp, qemu, pidfile>>
    /\ UNCHANGED <<journal, jdur, image, idur, incoming, ver, disk>>

savingCont ==
    /\ pc = "savingCont"
    /\ contAndConfirm("discardJournal", ret.err)
    /\ UNCHANGED <<files, ver, disk>>

incomingSync ==
    /\ pc = "incomingSync"
    /\ syncDir("incomingCont", ret.err)
    /\ UNCHANGED <<journal, image, tmp, pidfile, incoming, guest>>

\* Mutant: a restored guest is killed instead of continued.
incomingContKills ==
    /\ pc = "incomingCont"
    /\ Killed
    /\ Goto("incomingImages")
    /\ UNCHANGED <<journal, jdur, image, idur, tmp, incoming, ver, disk>>

incomingCont ==
    /\ pc = "incomingCont"
    /\ contAndConfirm("incomingImages", ret.err)
    /\ UNCHANGED <<files, ver, disk>>

incomingImages ==
    /\ pc = "incomingImages"
    /\ removeImagesThen(ret.ok, ret.ok)
    /\ UNCHANGED <<journal, jdur, pidfile, incoming, guest>>

incomingKill ==
    /\ pc = "incomingKill"
    /\ \/ Killed /\ Goto("killedImages")
       \/ KillFails /\ Goto(ret.err)
    /\ UNCHANGED <<journal, jdur, image, idur, tmp, incoming, ver, disk>>

killedImages ==
    /\ pc = "killedImages"
    /\ removeImagesThen(ret.ok, ret.err)
    /\ UNCHANGED <<journal, jdur, pidfile, incoming, guest>>

RecoverStep ==
    \/ Recover \/ asideSync
    \/ recoverSaved \/ savedFp \/ savedFpSync
    \/ recoverSaving \/ savingCont
    \/ incomingSync \/ incomingCont \/ incomingImages
    \/ incomingKill \/ killedImages
    \/ Repair \/ repairSuspend
    \/ discardJournal \/ discardSync \/ discardImages
=============================================================================
