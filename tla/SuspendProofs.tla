--------------------------- MODULE SuspendProofs ---------------------------
(***************************************************************************)
(* The suspend protocol keeps one hypervisor, never continues a committed  *)
(* guest and, while the host keeps power, never runs a stale one: for      *)
(* every bound on guest execution and every other combination of faults.   *)
(*                                                                         *)
(* Every theorem but TypeCorrect takes a command to begin only once a QEMU *)
(* that was launched has written its pid file (~LaunchGap): without that,  *)
(* two hypervisors are what the code can end up with.                      *)
(*                                                                         *)
(* TypeOK is inductive by itself, ControlInv relative to it, VersionInv    *)
(* relative to both when there is no power loss.                           *)
(*                                                                         *)
(* The second half is about the handover of the guest between QEMU and     *)
(* the machine's directory: recovery resolves what a killed command left,  *)
(* a restored guest cannot meet its saved state again, nothing is ended    *)
(* before it is durable, and no guest is left standing.                    *)
(***************************************************************************)
EXTENDS SuspendInvariant, TLAPS

\* The journals that jm writes or finds are of the journal's type.
LEMMA JournalTypes ==
    /\ NoJournal \in Journals
    /\ \A p \in {"saving", "saved", "bad"}, f \in {Absent} \cup Versions :
           Journal(p, f) \in Journals
  BY DEF NoJournal, Journals, Phases, Journal


\* RecoverStep keeps the types.
LEMMA RecoverStepTypes == TypeOK /\ RecoverStep => TypeOK'
<1> SUFFICES ASSUME TypeOK, RecoverStep PROVE TypeOK'
    OBVIOUS
<1>1. CASE Recover
  <2>1. FilesOK'
    BY <1>1, JournalTypes
    DEF TypeOK, FilesOK, Recover, writeJournal, removeImages,
        removeImagesThen, files, Absent, Partial
  <2>2. ControlOK'
    BY <1>1
    DEF TypeOK, ControlOK, Recover, Goto, removeImagesThen, Labels, Returns
  <2> QED BY <1>1, <2>1, <2>2
    DEF TypeOK, Recover, GuestOK, guest
<1>2. CASE asideSync
  <2>1. FilesOK'
    BY <1>2
    DEF TypeOK, FilesOK, asideSync, syncDir, syncDirBestEffort
  <2>2. ControlOK'
    BY <1>2
    DEF TypeOK, ControlOK, asideSync, Goto, syncDir, syncDirBestEffort,
        Labels, Returns
  <2> QED BY <1>2, <2>1, <2>2
    DEF TypeOK, asideSync, GuestOK, guest
<1>3. CASE recoverSaved
  <2>1. FilesOK'
    BY <1>3
    DEF TypeOK, FilesOK, recoverSaved, Killed, KillFails
  <2>2. GuestOK'
    BY <1>3
    DEF TypeOK, GuestOK, recoverSaved, Killed, KillFails, Dead, Status, Qemus,
        RunStates, Absent, Versions
  <2>3. ControlOK'
    BY <1>3
    DEF TypeOK, ControlOK, recoverSaved, Goto, Labels, Returns
  <2> QED BY <2>1, <2>2, <2>3
    DEF TypeOK
<1>4. CASE savedFp
  <2>1. FilesOK'
    BY <1>4, JournalTypes
    DEF TypeOK, FilesOK, savedFp, writeJournal, GuestOK
  <2>2. ControlOK'
    BY <1>4
    DEF TypeOK, ControlOK, savedFp, Goto, Labels, Returns
  <2> QED BY <1>4, <2>1, <2>2
    DEF TypeOK, savedFp, GuestOK, guest
<1>5. CASE savedFpSync
  <2>1. FilesOK'
    BY <1>5
    DEF TypeOK, FilesOK, savedFpSync, syncDir, syncDirBestEffort
  <2>2. ControlOK'
    BY <1>5
    DEF TypeOK, ControlOK, savedFpSync, Goto, syncDir, syncDirBestEffort,
        Labels, Returns
  <2> QED BY <1>5, <2>1, <2>2
    DEF TypeOK, savedFpSync, GuestOK, guest
<1>6. CASE recoverSaving
  <2>1. FilesOK'
    BY <1>6
    DEF TypeOK, FilesOK, recoverSaving, Killed, KillFails, Absent, Partial
  <2>2. GuestOK'
    BY <1>6
    DEF TypeOK, GuestOK, recoverSaving, SetRunState, Killed, KillFails, Dead,
        Status, Qemus, RunStates, Absent, Versions
  <2>3. ControlOK'
    BY <1>6
    DEF TypeOK, ControlOK, recoverSaving, Goto, Labels, Returns
  <2> QED BY <2>1, <2>2, <2>3
    DEF TypeOK
<1>7. CASE savingCont
  <2>1. GuestOK'
    BY <1>7
    DEF TypeOK, GuestOK, savingCont, SetRunState, contAndConfirm, Qemus,
        RunStates, Absent, Versions
  <2>2. ControlOK'
    BY <1>7
    DEF TypeOK, ControlOK, savingCont, Goto, contAndConfirm, Labels, Returns
  <2> QED BY <1>7, <2>1, <2>2
    DEF TypeOK, savingCont, FilesOK, files
<1>8. CASE incomingSync
  <2>1. FilesOK'
    BY <1>8
    DEF TypeOK, FilesOK, incomingSync, syncDir
  <2>2. ControlOK'
    BY <1>8
    DEF TypeOK, ControlOK, incomingSync, Goto, syncDir, Labels, Returns
  <2> QED BY <1>8, <2>1, <2>2
    DEF TypeOK, incomingSync, GuestOK, guest
<1>9. CASE incomingCont
  <2>1. GuestOK'
    BY <1>9
    DEF TypeOK, GuestOK, incomingCont, SetRunState, contAndConfirm, Qemus,
        RunStates, Absent, Versions
  <2>2. ControlOK'
    BY <1>9
    DEF TypeOK, ControlOK, incomingCont, Goto, contAndConfirm, Labels, Returns
  <2> QED BY <1>9, <2>1, <2>2
    DEF TypeOK, incomingCont, FilesOK, files
<1>10. CASE incomingImages
  <2>1. FilesOK'
    BY <1>10
    DEF TypeOK, FilesOK, incomingImages, removeImages, removeImagesThen,
        Absent, Partial
  <2>2. ControlOK'
    BY <1>10
    DEF TypeOK, ControlOK, incomingImages, Goto, removeImagesThen, Labels,
        Returns
  <2> QED BY <1>10, <2>1, <2>2
    DEF TypeOK, incomingImages, GuestOK, guest
<1>11. CASE incomingKill
  <2>1. FilesOK'
    BY <1>11
    DEF TypeOK, FilesOK, incomingKill, Killed, KillFails
  <2>2. GuestOK'
    BY <1>11
    DEF TypeOK, GuestOK, incomingKill, Killed, KillFails, Dead, Qemus,
        RunStates, Absent, Versions
  <2>3. ControlOK'
    BY <1>11
    DEF TypeOK, ControlOK, incomingKill, Goto, Labels, Returns
  <2> QED BY <2>1, <2>2, <2>3
    DEF TypeOK
<1>12. CASE killedImages
  <2>1. FilesOK'
    BY <1>12
    DEF TypeOK, FilesOK, killedImages, removeImages, removeImagesThen, Absent,
        Partial
  <2>2. ControlOK'
    BY <1>12
    DEF TypeOK, ControlOK, killedImages, Goto, removeImagesThen, Labels,
        Returns
  <2> QED BY <1>12, <2>1, <2>2
    DEF TypeOK, killedImages, GuestOK, guest
<1>13. CASE Repair
  <2>1. FilesOK'
    BY <1>13
    DEF TypeOK, FilesOK, Repair
  <2>2. ControlOK'
    BY <1>13
    DEF TypeOK, ControlOK, Repair, Goto, Labels, Returns
  <2> QED BY <1>13, <2>1, <2>2
    DEF TypeOK, Repair, GuestOK, guest
<1>14. CASE repairSuspend
  <2>1. FilesOK'
    BY <1>14
    DEF TypeOK, FilesOK, repairSuspend, removeImages, removeImagesThen,
        Absent, Partial
  <2>2. GuestOK'
    BY <1>14
    DEF TypeOK, GuestOK, repairSuspend, guest
  <2>3. ControlOK'
    BY <1>14
    DEF TypeOK, ControlOK, repairSuspend, Goto, removeImagesThen, Labels,
        Returns
  <2> QED BY <2>1, <2>2, <2>3
    DEF TypeOK
<1>15. CASE discardJournal
  <2>1. FilesOK'
    BY <1>15, JournalTypes
    DEF TypeOK, FilesOK, discardJournal, writeJournal
  <2>2. ControlOK'
    BY <1>15
    DEF TypeOK, ControlOK, discardJournal, Goto, Labels, Returns
  <2> QED BY <1>15, <2>1, <2>2
    DEF TypeOK, discardJournal, GuestOK, guest
<1>16. CASE discardSync
  <2>1. FilesOK'
    BY <1>16
    DEF TypeOK, FilesOK, discardSync, syncDir
  <2>2. ControlOK'
    BY <1>16
    DEF TypeOK, ControlOK, discardSync, Goto, syncDir, Labels, Returns
  <2> QED BY <1>16, <2>1, <2>2
    DEF TypeOK, discardSync, GuestOK, guest
<1>17. CASE discardImages
  <2>1. FilesOK'
    BY <1>17
    DEF TypeOK, FilesOK, discardImages, removeImages, removeImagesThen,
        Absent, Partial
  <2>2. GuestOK'
    BY <1>17
    DEF TypeOK, GuestOK, discardImages, guest
  <2>3. ControlOK'
    BY <1>17
    DEF TypeOK, ControlOK, discardImages, Goto, removeImagesThen, Labels,
        Returns
  <2> QED BY <2>1, <2>2, <2>3
    DEF TypeOK
<1> QED BY <1>1, <1>2, <1>3, <1>4, <1>5, <1>6, <1>7, <1>8, <1>9, <1>10, <1>11,
       <1>12, <1>13, <1>14, <1>15, <1>16, <1>17
    DEF RecoverStep

\* LifecycleStep keeps the types.
LEMMA LifecycleStepTypes == TypeOK /\ LifecycleStep => TypeOK'
<1> SUFFICES ASSUME TypeOK, LifecycleStep PROVE TypeOK'
    OBVIOUS
<1>1. CASE dispatch
  <2>1. ControlOK'
    BY <1>1
    DEF TypeOK, ControlOK, dispatch, Goto, Call, FromState, Labels, Returns
  <2> QED BY <1>1, <2>1
    DEF TypeOK, dispatch, FilesOK, files, GuestOK, guest
<1>2. CASE restate
  <2>1. ControlOK'
    BY <1>2
    DEF TypeOK, ControlOK, restate, Goto, Call, FromState, Labels, Returns
  <2> QED BY <1>2, <2>1
    DEF TypeOK, restate, FilesOK, files, GuestOK, guest
<1>3. CASE stopQemu
  <2>1. FilesOK'
    BY <1>3
    DEF TypeOK, FilesOK, stopQemu, Killed, KillFails
  <2>2. GuestOK'
    BY <1>3
    DEF TypeOK, GuestOK, stopQemu, Killed, KillFails, Dead, Qemus, RunStates,
        Absent, Versions
  <2>3. ControlOK'
    BY <1>3
    DEF TypeOK, ControlOK, stopQemu, Goto, Call, Labels, Returns
  <2> QED BY <2>1, <2>2, <2>3
    DEF TypeOK
<1> QED BY <1>1, <1>2, <1>3
    DEF LifecycleStep

\* SuspendStep keeps the types.
LEMMA SuspendStepTypes == TypeOK /\ SuspendStep => TypeOK'
<1> SUFFICES ASSUME TypeOK, SuspendStep PROVE TypeOK'
    OBVIOUS
<1>1. CASE PrepareSuspend
  <2>1. FilesOK'
    BY <1>1, JournalTypes
    DEF TypeOK, FilesOK, PrepareSuspend, writeJournal
  <2>2. ControlOK'
    BY <1>1
    DEF TypeOK, ControlOK, PrepareSuspend, Goto, Labels, Returns
  <2> QED BY <1>1, <2>1, <2>2
    DEF TypeOK, PrepareSuspend, GuestOK, guest
<1>2. CASE prepareSync
  <2>1. FilesOK'
    BY <1>2
    DEF TypeOK, FilesOK, prepareSync, syncDir
  <2>2. ControlOK'
    BY <1>2
    DEF TypeOK, ControlOK, prepareSync, Goto, syncDir, Labels, Returns
  <2> QED BY <1>2, <2>1, <2>2
    DEF TypeOK, prepareSync, GuestOK, guest
<1>3. CASE quiesce
  <2>1. ControlOK'
    BY <1>3
    DEF TypeOK, ControlOK, quiesce, Goto, Labels, Returns
  <2> QED BY <1>3, <2>1
    DEF TypeOK, quiesce, FilesOK, files, GuestOK, guest
<1>4. CASE CommitSuspend
  <2>1. GuestOK'
    BY <1>4
    DEF TypeOK, GuestOK, CommitSuspend, SetRunState, Qemus, RunStates, Absent,
        Versions
  <2>2. ControlOK'
    BY <1>4
    DEF TypeOK, ControlOK, CommitSuspend, Goto, Labels, Returns
  <2> QED BY <1>4, <2>1, <2>2
    DEF TypeOK, CommitSuspend, FilesOK, files
<1>5. CASE save
  <2>1. FilesOK'
    BY <1>5
    DEF TypeOK, FilesOK, save, Absent, Partial
  <2>2. GuestOK'
    BY <1>5
    DEF TypeOK, GuestOK, save, SetRunState, Qemus, RunStates, Absent, Versions
  <2>3. ControlOK'
    BY <1>5
    DEF TypeOK, ControlOK, save, Goto, Labels, Returns
  <2> QED BY <2>1, <2>2, <2>3
    DEF TypeOK
<1>6. CASE poll
  <2>1. ControlOK'
    BY <1>6
    DEF TypeOK, ControlOK, poll, Goto, Labels, Returns
  <2> QED BY <1>6, <2>1
    DEF TypeOK, poll, FilesOK, files, GuestOK, guest
<1>7. CASE makeDurable
  <2>1. FilesOK'
    BY <1>7
    DEF TypeOK, FilesOK, makeDurable
  <2>2. ControlOK'
    BY <1>7
    DEF TypeOK, ControlOK, makeDurable, Goto, Labels, Returns
  <2> QED BY <1>7, <2>1, <2>2
    DEF TypeOK, makeDurable, GuestOK, guest
<1>8. CASE durableSync
  <2>1. FilesOK'
    BY <1>8
    DEF TypeOK, FilesOK, durableSync, syncDir
  <2>2. ControlOK'
    BY <1>8
    DEF TypeOK, ControlOK, durableSync, Goto, syncDir, Labels, Returns
  <2> QED BY <1>8, <2>1, <2>2
    DEF TypeOK, durableSync, GuestOK, guest
<1>9. CASE commitWrite
  <2>1. FilesOK'
    BY <1>9, JournalTypes
    DEF TypeOK, FilesOK, commitWrite, writeJournal
  <2>2. ControlOK'
    BY <1>9
    DEF TypeOK, ControlOK, commitWrite, Goto, Labels, Returns
  <2> QED BY <1>9, <2>1, <2>2
    DEF TypeOK, commitWrite, GuestOK, guest
<1>10. CASE commitSync
  <2>1. FilesOK'
    BY <1>10
    DEF TypeOK, FilesOK, commitSync, syncDir
  <2>2. ControlOK'
    BY <1>10
    DEF TypeOK, ControlOK, commitSync, Goto, syncDir, Labels, Returns
  <2> QED BY <1>10, <2>1, <2>2
    DEF TypeOK, commitSync, GuestOK, guest
<1>11. CASE quit
  <2>1. FilesOK'
    BY <1>11
    DEF TypeOK, FilesOK, quit, KilledBestEffort
  <2>2. GuestOK'
    BY <1>11
    DEF TypeOK, GuestOK, quit, KilledBestEffort, Dead, Qemus, RunStates,
        Absent, Versions
  <2>3. ControlOK'
    BY <1>11
    DEF TypeOK, ControlOK, quit, Goto, Labels, Returns
  <2> QED BY <2>1, <2>2, <2>3
    DEF TypeOK
<1>12. CASE fpWrite
  <2>1. FilesOK'
    BY <1>12, JournalTypes
    DEF TypeOK, FilesOK, fpWrite, writeJournal, GuestOK
  <2>2. ControlOK'
    BY <1>12
    DEF TypeOK, ControlOK, fpWrite, Goto, Labels, Returns
  <2> QED BY <1>12, <2>1, <2>2
    DEF TypeOK, fpWrite, GuestOK, guest
<1>13. CASE fpSync
  <2>1. FilesOK'
    BY <1>13
    DEF TypeOK, FilesOK, fpSync, syncDir, syncDirBestEffort
  <2>2. ControlOK'
    BY <1>13
    DEF TypeOK, ControlOK, fpSync, Goto, syncDir, syncDirBestEffort, Labels,
        Returns
  <2> QED BY <1>13, <2>1, <2>2
    DEF TypeOK, fpSync, GuestOK, guest
<1>14. CASE rollback
  <2>1. GuestOK'
    BY <1>14
    DEF TypeOK, GuestOK, rollback, SetRunState, Qemus, RunStates, Absent,
        Versions
  <2>2. ControlOK'
    BY <1>14
    DEF TypeOK, ControlOK, rollback, Goto, Labels, Returns
  <2> QED BY <1>14, <2>1, <2>2
    DEF TypeOK, rollback, FilesOK, files
<1>15. CASE rbImages
  <2>1. FilesOK'
    BY <1>15
    DEF TypeOK, FilesOK, rbImages, removeImages, removeImagesThen, Absent,
        Partial
  <2>2. ControlOK'
    BY <1>15
    DEF TypeOK, ControlOK, rbImages, Goto, removeImagesThen, Labels, Returns
  <2> QED BY <1>15, <2>1, <2>2
    DEF TypeOK, rbImages, GuestOK, guest
<1>16. CASE rbCont
  <2>1. GuestOK'
    BY <1>16
    DEF TypeOK, GuestOK, rbCont, SetRunState, contAndConfirm, Qemus,
        RunStates, Absent, Versions
  <2>2. ControlOK'
    BY <1>16
    DEF TypeOK, ControlOK, rbCont, Goto, contAndConfirm, Labels, Returns
  <2> QED BY <1>16, <2>1, <2>2
    DEF TypeOK, rbCont, FilesOK, files
<1>17. CASE crashed
  <2>1. FilesOK'
    BY <1>17
    DEF TypeOK, FilesOK, crashed, Absent, Partial
  <2>2. ControlOK'
    BY <1>17
    DEF TypeOK, ControlOK, crashed, Call, Labels, Returns
  <2> QED BY <1>17, <2>1, <2>2
    DEF TypeOK, crashed, GuestOK, guest
<1>18. CASE afterRefusal
  <2>1. ControlOK'
    BY <1>18
    DEF TypeOK, ControlOK, afterRefusal, Goto, Call, Labels, Returns
  <2> QED BY <1>18, <2>1
    DEF TypeOK, afterRefusal, FilesOK, files, GuestOK, guest
<1>19. CASE afterCommitError
  <2>1. ControlOK'
    BY <1>19
    DEF TypeOK, ControlOK, afterCommitError, Goto, Call, Labels, Returns
  <2> QED BY <1>19, <2>1
    DEF TypeOK, afterCommitError, FilesOK, files, GuestOK, guest
<1>20. CASE CancelSuspend
  <2>1. ControlOK'
    BY <1>20
    DEF TypeOK, ControlOK, CancelSuspend, Goto, Call, Labels, Returns
  <2> QED BY <1>20, <2>1
    DEF TypeOK, CancelSuspend, FilesOK, files, GuestOK, guest
<1> QED BY <1>1, <1>2, <1>3, <1>4, <1>5, <1>6, <1>7, <1>8, <1>9, <1>10, <1>11,
       <1>12, <1>13, <1>14, <1>15, <1>16, <1>17, <1>18, <1>19, <1>20
    DEF SuspendStep

\* ResumeStep keeps the types.
LEMMA ResumeStepTypes == TypeOK /\ ResumeStep => TypeOK'
<1> SUFFICES ASSUME TypeOK, ResumeStep PROVE TypeOK'
    OBVIOUS
<1>1. CASE Resume
  <2>1. FilesOK'
    BY <1>1
    DEF TypeOK, FilesOK, Resume, Launched
  <2>2. GuestOK'
    BY <1>1
    DEF TypeOK, GuestOK, Resume, Qemus, RunStates, Absent, Versions, Launched
  <2>3. ControlOK'
    BY <1>1
    DEF TypeOK, ControlOK, Resume, Goto, Call, Incompatible, Labels, Returns, Launched
  <2> QED BY <2>1, <2>2, <2>3
    DEF TypeOK
<1>2. CASE load
  <2>1. GuestOK'
    BY <1>2
    DEF TypeOK, GuestOK, load, SetRunState, Qemus, RunStates, Absent, Versions
  <2>2. ControlOK'
    BY <1>2
    DEF TypeOK, ControlOK, load, Goto, Labels, Returns
  <2> QED BY <1>2, <2>1, <2>2
    DEF TypeOK, load, FilesOK, files
<1>3. CASE waitLoaded
  <2>1. ControlOK'
    BY <1>3
    DEF TypeOK, ControlOK, waitLoaded, Goto, Labels, Returns
  <2> QED BY <1>3, <2>1
    DEF TypeOK, waitLoaded, FilesOK, files, GuestOK, guest
<1>4. CASE rejected
  <2>1. FilesOK'
    BY <1>4
    DEF TypeOK, FilesOK, rejected, KilledBestEffort, Survives
  <2>2. GuestOK'
    BY <1>4
    DEF TypeOK, GuestOK, rejected, KilledBestEffort, Dead, Qemus, RunStates,
        Absent, Versions, Survives
  <2>3. ControlOK'
    BY <1>4
    DEF TypeOK, ControlOK, rejected, Goto, Call, Incompatible, Labels, Returns, Survives
  <2> QED BY <2>1, <2>2, <2>3
    DEF TypeOK
<1>5. CASE transient
  <2>1. FilesOK'
    BY <1>5
    DEF TypeOK, FilesOK, transient, KilledBestEffort, Survives
  <2>2. GuestOK'
    BY <1>5
    DEF TypeOK, GuestOK, transient, KilledBestEffort, Dead, Qemus, RunStates,
        Absent, Versions, Survives
  <2>3. ControlOK'
    BY <1>5
    DEF TypeOK, ControlOK, transient, Goto, Labels, Returns, Survives
  <2> QED BY <2>1, <2>2, <2>3
    DEF TypeOK
<1>6. CASE resumeUnlink
  <2>1. FilesOK'
    BY <1>6, JournalTypes
    DEF TypeOK, FilesOK, resumeUnlink, writeJournal
  <2>2. ControlOK'
    BY <1>6
    DEF TypeOK, ControlOK, resumeUnlink, Goto, Labels, Returns
  <2> QED BY <1>6, <2>1, <2>2
    DEF TypeOK, resumeUnlink, GuestOK, guest
<1>7. CASE resumeSync
  <2>1. FilesOK'
    BY <1>7
    DEF TypeOK, FilesOK, resumeSync, syncDir
  <2>2. ControlOK'
    BY <1>7
    DEF TypeOK, ControlOK, resumeSync, Goto, syncDir, Labels, Returns
  <2> QED BY <1>7, <2>1, <2>2
    DEF TypeOK, resumeSync, GuestOK, guest
<1>8. CASE resumeCont
  <2>1. GuestOK'
    BY <1>8
    DEF TypeOK, GuestOK, resumeCont, SetRunState, contAndConfirm, Qemus,
        RunStates, Absent, Versions
  <2>2. ControlOK'
    BY <1>8
    DEF TypeOK, ControlOK, resumeCont, Goto, contAndConfirm, Labels, Returns
  <2> QED BY <1>8, <2>1, <2>2
    DEF TypeOK, resumeCont, FilesOK, files
<1>9. CASE resumeImages
  <2>1. FilesOK'
    BY <1>9
    DEF TypeOK, FilesOK, resumeImages, removeImages, removeImagesThen, Absent,
        Partial
  <2>2. ControlOK'
    BY <1>9
    DEF TypeOK, ControlOK, resumeImages, Goto, removeImagesThen, Labels,
        Returns
  <2> QED BY <1>9, <2>1, <2>2
    DEF TypeOK, resumeImages, GuestOK, guest
<1>10. CASE resumeLeft
  <2>1. ControlOK'
    BY <1>10
    DEF TypeOK, ControlOK, resumeLeft, Goto, Labels, Returns
  <2> QED BY <1>10, <2>1
    DEF TypeOK, resumeLeft, FilesOK, files, GuestOK, guest
<1> QED BY <1>1, <1>2, <1>3, <1>4, <1>5, <1>6, <1>7, <1>8, <1>9, <1>10
    DEF ResumeStep

\* StartStep keeps the types.
LEMMA StartStepTypes == TypeOK /\ StartStep => TypeOK'
<1> SUFFICES ASSUME TypeOK, StartStep PROVE TypeOK'
    OBVIOUS
<1>1. CASE Start
  <2>1. ControlOK'
    BY <1>1
    DEF TypeOK, ControlOK, Start, Goto, Call, Labels, Returns
  <2> QED BY <1>1, <2>1
    DEF TypeOK, Start, FilesOK, files, GuestOK, guest
<1>2. CASE coldRemove
  <2>1. FilesOK'
    BY <1>2
    DEF TypeOK, FilesOK, coldRemove, removeImages, removeImagesThen, Absent,
        Partial
  <2>2. ControlOK'
    BY <1>2
    DEF TypeOK, ControlOK, coldRemove, Goto, removeImagesThen, Labels, Returns
  <2> QED BY <1>2, <2>1, <2>2
    DEF TypeOK, coldRemove, GuestOK, guest
<1>3. CASE coldLaunch
  <2>1. FilesOK'
    BY <1>3
    DEF TypeOK, FilesOK, coldLaunch, Launched
  <2>2. GuestOK'
    BY <1>3
    DEF TypeOK, GuestOK, coldLaunch, Qemus, RunStates, Absent, Versions, Launched
  <2>3. ControlOK'
    BY <1>3
    DEF TypeOK, ControlOK, coldLaunch, Goto, Labels, Returns, Launched
  <2> QED BY <2>1, <2>2, <2>3
    DEF TypeOK
<1>4. CASE waitLaunched
  <2>1. FilesOK'
    BY <1>4
    DEF TypeOK, FilesOK, waitLaunched, KilledBestEffort, Survives
  <2>2. GuestOK'
    BY <1>4
    DEF TypeOK, GuestOK, waitLaunched, KilledBestEffort, Dead, Qemus,
        RunStates, Absent, Versions, Survives
  <2>3. ControlOK'
    BY <1>4
    DEF TypeOK, ControlOK, waitLaunched, Goto, Labels, Returns, Survives
  <2> QED BY <2>1, <2>2, <2>3
    DEF TypeOK
<1> QED BY <1>1, <1>2, <1>3, <1>4
    DEF StartStep

\* QemuStep keeps the types.
LEMMA QemuStepTypes == TypeOK /\ QemuStep => TypeOK'
<1> SUFFICES ASSUME TypeOK, QemuStep PROVE TypeOK'
    OBVIOUS
<1>1. CASE GuestExecutes
  <2>1. GuestOK'
    BY <1>1, ConstantsAssumption
    DEF TypeOK, GuestOK, GuestExecutes, Qemus, RunStates, Absent, Versions
  <2> QED BY <1>1, <2>1
    DEF TypeOK, GuestExecutes, FilesOK, files, ControlOK, ctl
<1>2. CASE MigrationEnds
  <2>1. FilesOK'
    BY <1>2
    DEF TypeOK, FilesOK, MigrationEnds, GuestOK, Qemus, Absent
  <2>2. GuestOK'
    BY <1>2
    DEF TypeOK, GuestOK, MigrationEnds, SetRunState, Qemus, RunStates, Absent,
        Versions
  <2> QED BY <1>2, <2>1, <2>2
    DEF TypeOK, MigrationEnds, ControlOK, ctl
<1>3. CASE LoadEnds
  <2>1. GuestOK'
    BY <1>3
    DEF TypeOK, GuestOK, LoadEnds, SetRunState, FilesOK, Qemus, RunStates,
        Absent, Versions
  <2> QED BY <1>3, <2>1
    DEF TypeOK, LoadEnds, FilesOK, files, ControlOK, ctl
<1>4. CASE QemuDies
  <2>1. FilesOK'
    BY <1>4
    DEF TypeOK, FilesOK, QemuDies, KilledBestEffort
  <2>2. GuestOK'
    BY <1>4
    DEF TypeOK, GuestOK, QemuDies, KilledBestEffort, Dead, Qemus, RunStates,
        Absent, Versions
  <2> QED BY <1>4, <2>1, <2>2
    DEF TypeOK, QemuDies, ControlOK, ctl
<1>5. CASE QemuStarts
  <2>1. FilesOK'
    BY <1>5
    DEF TypeOK, FilesOK, QemuStarts
  <2>2. GuestOK'
    BY <1>5
    DEF TypeOK, GuestOK, QemuStarts, Qemus, RunStates,
        Absent, Versions
  <2> QED BY <1>5, <2>1, <2>2
    DEF TypeOK, QemuStarts, ControlOK, ctl
<1> QED BY <1>1, <1>2, <1>3, <1>4, <1>5
    DEF QemuStep

\* Fault keeps the types.
LEMMA FaultTypes == TypeOK /\ Fault => TypeOK'
<1> SUFFICES ASSUME TypeOK, Fault PROVE TypeOK'
    OBVIOUS
<1>1. CASE JmKilled
  <2>1. ControlOK'
    BY <1>1
    DEF TypeOK, ControlOK, JmKilled, Goto, Labels, Returns
  <2> QED BY <1>1, <2>1
    DEF TypeOK, JmKilled, FilesOK, files, GuestOK, guest
<1>2. CASE PowerFails
  <2>1. FilesOK'
    BY <1>2
    DEF TypeOK, FilesOK, PowerFails, KilledBestEffort, Absent, Partial
  <2>2. GuestOK'
    BY <1>2
    DEF TypeOK, GuestOK, PowerFails, KilledBestEffort, Dead, Qemus, RunStates,
        Absent, Versions
  <2>3. ControlOK'
    BY <1>2
    DEF TypeOK, ControlOK, PowerFails, Goto, Labels, Returns
  <2> QED BY <2>1, <2>2, <2>3
    DEF TypeOK
<1>3. CASE JournalTurnsBad
  <2>1. FilesOK'
    BY <1>3, JournalTypes
    DEF TypeOK, FilesOK, JournalTurnsBad
  <2> QED BY <1>3, <2>1
    DEF TypeOK, JournalTurnsBad, GuestOK, guest, ControlOK, ctl
<1> QED BY <1>1, <1>2, <1>3
    DEF Fault

\* The initial state has the types.
LEMMA InitTypes == Init => TypeOK
<1> SUFFICES ASSUME Init PROVE TypeOK
    OBVIOUS
<1>1. FilesOK
  BY JournalTypes DEF Init, FilesOK
<1>2. GuestOK
  BY ConstantsAssumption
  DEF Init, GuestOK, Qemus, Dead, RunStates, Versions, Absent
<1>3. ControlOK
  BY DEF Init, ControlOK, Labels, Returns
<1> QED BY <1>1, <1>2, <1>3 DEF TypeOK

\* Taking the lock keeps the types.
LEMMA BeginTypes == TypeOK /\ (\E c \in Commands : Begin(c)) => TypeOK'
<1> SUFFICES ASSUME TypeOK, NEW c \in Commands, Begin(c) PROVE TypeOK'
    OBVIOUS
<1>1. FilesOK'
  BY DEF TypeOK, FilesOK, Begin, files
<1>2. GuestOK'
  BY DEF TypeOK, GuestOK, Begin, guest
<1>3. ControlOK'
  BY DEF TypeOK, ControlOK, Begin, Labels, Returns, Commands
<1> QED BY <1>1, <1>2, <1>3 DEF TypeOK

\* Every variable of SuspendProtocol keeps its type, whatever faults occur:
\* in particular the phase of the journal is one that readJournal knows and a
\* command is always at a known step.
THEOREM TypeCorrect == Spec => []TypeOK
<1>1. TypeOK /\ [Next]_vars => TypeOK'
  <2> SUFFICES ASSUME TypeOK, [Next]_vars PROVE TypeOK'
      OBVIOUS
  <2>1. CASE UNCHANGED vars
    BY <2>1 DEF vars, TypeOK, FilesOK, GuestOK, ControlOK
  <2>2. CASE Next
    BY <2>2, BeginTypes, RecoverStepTypes, LifecycleStepTypes,
       SuspendStepTypes, ResumeStepTypes, StartStepTypes, QemuStepTypes,
       FaultTypes
    DEF Next, JmStep
  <2> QED BY <2>1, <2>2
<1> QED BY <1>1, InitTypes, PTL DEF Spec


\* What RecoverStep keeps of the positions, the hypervisor and the journal.
LEMMA RecoverStepControl ==
    TypeOK /\ ControlInv /\ RecoverStep
        => ControlInv'
<1> SUFFICES ASSUME TypeOK, ControlInv, RecoverStep
             PROVE  ControlInv'
    OBVIOUS
<1> USE DEF ControlInv, PositionInv, Tracked, SavedNeverRuns, Frozen,
            Gone, Uncommitted, Removed, Committed, InRecover, Discarding,
            TypeOK, ControlOK, Returns, validImage
<1>1. CASE Recover
  BY <1>1
  DEF Recover, Goto, removeImagesThen, writeJournal, NoJournal, Alive, files,
      guest
<1>2. CASE asideSync
  BY <1>2
  DEF asideSync, Goto, syncDir, syncDirBestEffort, guest
<1>3. CASE recoverSaved
  BY <1>3
  DEF recoverSaved, Goto, Killed, KillFails, Dead
<1>4. CASE savedFp
  BY <1>4
  DEF savedFp, Goto, writeJournal, Journal, guest
<1>5. CASE savedFpSync
  BY <1>5
  DEF savedFpSync, Goto, syncDir, syncDirBestEffort, guest
<1>6. CASE recoverSaving
  BY <1>6
  DEF recoverSaving, Goto, Killed, KillFails, Dead, Status
<1>7. CASE savingCont
  BY <1>7
  DEF savingCont, Goto, contAndConfirm, files
<1>8. CASE incomingSync
  BY <1>8
  DEF incomingSync, Goto, syncDir, guest
<1>9. CASE incomingCont
  BY <1>9
  DEF incomingCont, Goto, contAndConfirm, files
<1>10. CASE incomingImages
  BY <1>10
  DEF incomingImages, Goto, removeImagesThen, guest
<1>11. CASE incomingKill
  BY <1>11
  DEF incomingKill, Goto, Killed, KillFails, Dead
<1>12. CASE killedImages
  BY <1>12
  DEF killedImages, Goto, removeImagesThen, guest
<1>13. CASE Repair
  BY <1>13
  DEF Repair, Goto, guest
<1>14. CASE repairSuspend
  BY <1>14
  DEF repairSuspend, Goto, removeImagesThen, guest
<1>15. CASE discardJournal
  BY <1>15
  DEF discardJournal, Goto, writeJournal, NoJournal, guest
<1>16. CASE discardSync
  BY <1>16
  DEF discardSync, Goto, syncDir, guest
<1>17. CASE discardImages
  BY <1>17
  DEF discardImages, Goto, removeImagesThen, guest
<1> QED BY <1>1, <1>2, <1>3, <1>4, <1>5, <1>6, <1>7, <1>8, <1>9, <1>10, <1>11,
       <1>12, <1>13, <1>14, <1>15, <1>16, <1>17
    DEF RecoverStep

\* What LifecycleStep keeps of the positions, the hypervisor and the journal.
LEMMA LifecycleStepControl ==
    TypeOK /\ ControlInv /\ LifecycleStep
        => ControlInv'
<1> SUFFICES ASSUME TypeOK, ControlInv, LifecycleStep
             PROVE  ControlInv'
    OBVIOUS
<1> USE DEF ControlInv, PositionInv, Tracked, SavedNeverRuns, Frozen,
            Gone, Uncommitted, Removed, Committed, InRecover, Discarding,
            TypeOK, ControlOK, Returns, validImage
<1>1. CASE dispatch
  BY <1>1
  DEF dispatch, Goto, Call, FromState, Alive, State, files, guest
<1>2. CASE restate
  BY <1>2
  DEF restate, Goto, Call, FromState, files, guest
<1>3. CASE stopQemu
  BY <1>3
  DEF stopQemu, Goto, Call, Killed, KillFails, Dead, Alive
<1> QED BY <1>1, <1>2, <1>3
    DEF LifecycleStep

\* What SuspendStep keeps of the positions, the hypervisor and the journal.
LEMMA SuspendStepControl ==
    TypeOK /\ ControlInv /\ SuspendStep
        => ControlInv'
<1> SUFFICES ASSUME TypeOK, ControlInv, SuspendStep
             PROVE  ControlInv'
    OBVIOUS
<1> USE DEF ControlInv, PositionInv, Tracked, SavedNeverRuns, Frozen,
            Gone, Uncommitted, Removed, Committed, InRecover, Discarding,
            TypeOK, ControlOK, Returns, validImage
<1>1. CASE PrepareSuspend
  BY <1>1
  DEF PrepareSuspend, Goto, writeJournal, Journal, guest
<1>2. CASE prepareSync
  BY <1>2
  DEF prepareSync, Goto, syncDir, guest
<1>3. CASE quiesce
  BY <1>3
  DEF quiesce, Goto, files, guest
<1>4. CASE CommitSuspend
  BY <1>4
  DEF CommitSuspend, Goto, SetRunState, files, GuestOK, Qemus
<1>5. CASE save
  BY <1>5
  DEF save, Goto, SetRunState, GuestOK, Qemus
<1>6. CASE poll
  BY <1>6
  DEF poll, Goto, files, guest
<1>7. CASE makeDurable
  BY <1>7
  DEF makeDurable, Goto, guest
<1>8. CASE durableSync
  BY <1>8
  DEF durableSync, Goto, syncDir, guest
<1>9. CASE commitWrite
  BY <1>9
  DEF commitWrite, Goto, writeJournal, Journal, guest
<1>10. CASE commitSync
  BY <1>10
  DEF commitSync, Goto, syncDir, guest
<1>11. CASE quit
  BY <1>11
  DEF quit, Goto, KilledBestEffort, Dead
<1>12. CASE fpWrite
  BY <1>12
  DEF fpWrite, Goto, writeJournal, Journal, guest
<1>13. CASE fpSync
  BY <1>13
  DEF fpSync, Goto, syncDir, syncDirBestEffort, guest
<1>14. CASE rollback
  BY <1>14
  DEF rollback, Goto, Alive, files
<1>15. CASE rbImages
  BY <1>15
  DEF rbImages, Goto, removeImagesThen, guest
<1>16. CASE rbCont
  BY <1>16
  DEF rbCont, Goto, contAndConfirm, files
<1>17. CASE crashed
  BY <1>17
  DEF crashed, Call, guest
<1>18. CASE afterRefusal
  BY <1>18
  DEF afterRefusal, Goto, Call, files, guest
<1>19. CASE afterCommitError
  BY <1>19
  DEF afterCommitError, Goto, Call, files, guest
<1>20. CASE CancelSuspend
  BY <1>20
  DEF CancelSuspend, Goto, Call, files, guest
<1> QED BY <1>1, <1>2, <1>3, <1>4, <1>5, <1>6, <1>7, <1>8, <1>9, <1>10, <1>11,
       <1>12, <1>13, <1>14, <1>15, <1>16, <1>17, <1>18, <1>19, <1>20
    DEF SuspendStep

\* What ResumeStep keeps of the positions, the hypervisor and the journal.
LEMMA ResumeStepControl ==
    TypeOK /\ ControlInv /\ ResumeStep
        => ControlInv'
<1> SUFFICES ASSUME TypeOK, ControlInv, ResumeStep
             PROVE  ControlInv'
    OBVIOUS
<1> USE DEF ControlInv, PositionInv, Tracked, SavedNeverRuns, Frozen,
            Gone, Uncommitted, Removed, Committed, InRecover, Discarding,
            TypeOK, ControlOK, Returns, validImage
<1>1. CASE Resume
  BY <1>1
  DEF Resume, Goto, Call, Incompatible, Alive, Launched
<1>2. CASE load
  BY <1>2
  DEF load, Goto, SetRunState, files, GuestOK, Qemus
<1>3. CASE waitLoaded
  BY <1>3
  DEF waitLoaded, Goto, files, guest
<1>4. CASE rejected
  BY <1>4
  DEF rejected, Goto, Call, Incompatible, KilledBestEffort, Dead, Survives
<1>5. CASE transient
  BY <1>5
  DEF transient, Goto, KilledBestEffort, Dead, Survives
<1>6. CASE resumeUnlink
  BY <1>6
  DEF resumeUnlink, Goto, writeJournal, NoJournal, guest
<1>7. CASE resumeSync
  BY <1>7
  DEF resumeSync, Goto, syncDir, guest
<1>8. CASE resumeCont
  BY <1>8
  DEF resumeCont, Goto, contAndConfirm, files
<1>9. CASE resumeImages
  BY <1>9
  DEF resumeImages, Goto, removeImagesThen, guest
<1>10. CASE resumeLeft
  BY <1>10
  DEF resumeLeft, Goto, files, guest
<1> QED BY <1>1, <1>2, <1>3, <1>4, <1>5, <1>6, <1>7, <1>8, <1>9, <1>10
    DEF ResumeStep

\* What StartStep keeps of the positions, the hypervisor and the journal.
LEMMA StartStepControl ==
    TypeOK /\ ControlInv /\ StartStep
        => ControlInv'
<1> SUFFICES ASSUME TypeOK, ControlInv, StartStep
             PROVE  ControlInv'
    OBVIOUS
<1> USE DEF ControlInv, PositionInv, Tracked, SavedNeverRuns, Frozen,
            Gone, Uncommitted, Removed, Committed, InRecover, Discarding,
            TypeOK, ControlOK, Returns, validImage
<1>1. CASE Start
  BY <1>1
  DEF Start, Goto, Call, Alive, State, files, guest
<1>2. CASE coldRemove
  BY <1>2
  DEF coldRemove, Goto, removeImagesThen, Alive, State, guest
<1>3. CASE coldLaunch
  BY <1>3
  DEF coldLaunch, Goto, Launched
<1>4. CASE waitLaunched
  BY <1>4
  DEF waitLaunched, Goto, KilledBestEffort, Dead, Survives
<1> QED BY <1>1, <1>2, <1>3, <1>4
    DEF StartStep

\* What QemuStep keeps of the positions, the hypervisor and the journal.
LEMMA QemuStepControl ==
    TypeOK /\ ControlInv /\ QemuStep
        => ControlInv'
<1> SUFFICES ASSUME TypeOK, ControlInv, QemuStep
             PROVE  ControlInv'
    OBVIOUS
<1> USE DEF ControlInv, PositionInv, Tracked, SavedNeverRuns, Frozen,
            Gone, Uncommitted, Removed, Committed, InRecover, Discarding,
            TypeOK, ControlOK, Returns, validImage
<1>1. CASE GuestExecutes
  BY <1>1
  DEF GuestExecutes, files, ctl
<1>2. CASE MigrationEnds
  BY <1>2
  DEF MigrationEnds, SetRunState, ctl, GuestOK, Qemus
<1>3. CASE LoadEnds
  BY <1>3
  DEF LoadEnds, SetRunState, files, ctl, GuestOK, Qemus
<1>4. CASE QemuDies
  BY <1>4
  DEF QemuDies, KilledBestEffort, Dead, ctl
<1>5. CASE QemuStarts
  BY <1>5
  DEF QemuStarts, ctl
<1> QED BY <1>1, <1>2, <1>3, <1>4, <1>5
    DEF QemuStep

\* What Fault keeps of the positions, the hypervisor and the journal.
LEMMA FaultControl ==
    TypeOK /\ ControlInv /\ Fault
        => ControlInv'
<1> SUFFICES ASSUME TypeOK, ControlInv, Fault
             PROVE  ControlInv'
    OBVIOUS
<1> USE DEF ControlInv, PositionInv, Tracked, SavedNeverRuns, Frozen,
            Gone, Uncommitted, Removed, Committed, InRecover, Discarding,
            TypeOK, ControlOK, Returns, validImage
<1>1. CASE JmKilled
  BY <1>1
  DEF JmKilled, Goto, files, guest
<1>2. CASE PowerFails
  BY <1>2
  DEF PowerFails, Goto, KilledBestEffort, Dead
<1>3. CASE JournalTurnsBad
  BY <1>3
  DEF JournalTurnsBad, Journal, guest, ctl
<1> QED BY <1>1, <1>2, <1>3
    DEF Fault

\* Taking the lock decides nothing.
LEMMA BeginControl ==
    ~LaunchGap /\ TypeOK /\ ControlInv /\ (\E c \in Commands : Begin(c)) => ControlInv'
  BY DEF Begin, files, guest, ControlInv, PositionInv, Tracked,
         SavedNeverRuns, Frozen, Gone, Uncommitted, Removed, Committed,
         InRecover, Discarding, validImage

\* The command's position always tells where the hypervisor and the journal
\* are: the inductive invariant behind the two theorems that follow.
THEOREM ControlInvariant ==
    ASSUME ~LaunchGap PROVE Spec => []ControlInv
<1>1. Init => ControlInv
  BY DEF Init, Dead, NoJournal, ControlInv, PositionInv, Tracked,
         SavedNeverRuns, Frozen, Gone, Uncommitted, Removed, Committed,
         InRecover, Discarding
<1>2. TypeOK /\ ControlInv /\ [Next]_vars => ControlInv'
  <2> SUFFICES ASSUME TypeOK, ControlInv, [Next]_vars PROVE ControlInv'
      OBVIOUS
  <2>1. CASE UNCHANGED vars
    BY <2>1 DEF vars, ControlInv, PositionInv, Tracked, SavedNeverRuns,
                validImage
  <2>2. CASE Next
    BY <2>2, BeginControl, RecoverStepControl, LifecycleStepControl,
       SuspendStepControl, ResumeStepControl, StartStepControl,
       QemuStepControl, FaultControl
    DEF Next, JmStep
  <2> QED BY <2>1, <2>2
<1> QED BY <1>1, <1>2, TypeCorrect, PTL DEF Spec

\* A guest whose saved state is committed is never continued, through any
\* sequence of crashes, failed syncs, unreadable or damaged journals and power
\* losses.
THEOREM SavedStateNeverRuns ==
    ASSUME ~LaunchGap PROVE Spec => []SavedNeverRuns
  BY ControlInvariant, PTL DEF ControlInv

\* As long as no command begins before a launched QEMU has its pid file or is
\* gone, a QEMU that has come up is named by its pid file, and neither a cold
\* boot nor a resume launches a second one on the same disk.
THEOREM SingleHypervisor ==
    ASSUME ~LaunchGap PROVE Spec => []OneHypervisor
<1>1. ControlInv => OneHypervisor
  BY DEF ControlInv, PositionInv, Gone, Tracked, OneHypervisor, Alive
<1> QED BY <1>1, ControlInvariant, PTL


\* Where RecoverStep leaves the newest version of the guest.
LEMMA RecoverStepVersion ==
    TypeOK /\ ControlInv /\ VersionInv /\ ~PowerLoss /\ RecoverStep
        => VersionInv'
<1> SUFFICES ASSUME TypeOK, ControlInv, VersionInv, ~PowerLoss, RecoverStep
             PROVE  VersionInv'
    OBVIOUS
<1> USE DEF VersionInv, SavedIsNewest, validImage, ControlInv, PositionInv,
            SavedNeverRuns, Frozen, Committed, Removed, TypeOK, ControlOK,
            Returns
<1>1. CASE Recover
  BY <1>1
  DEF Recover, Goto, removeImages, removeImagesThen, writeJournal, NoJournal,
      files, guest
<1>2. CASE asideSync
  BY <1>2
  DEF asideSync, Goto, syncDir, syncDirBestEffort, guest
<1>3. CASE recoverSaved
  BY <1>3
  DEF recoverSaved, Goto, Killed, KillFails, Dead
<1>4. CASE savedFp
  BY <1>4
  DEF savedFp, Goto, writeJournal, guest
<1>5. CASE savedFpSync
  BY <1>5
  DEF savedFpSync, Goto, syncDir, syncDirBestEffort, guest
<1>6. CASE recoverSaving
  BY <1>6
  DEF recoverSaving, Goto, SetRunState, Killed, KillFails, Dead, Status,
      GuestOK, Qemus
<1>7. CASE savingCont
  BY <1>7
  DEF savingCont, Goto, contAndConfirm, SetRunState, files, GuestOK, Qemus
<1>8. CASE incomingSync
  BY <1>8
  DEF incomingSync, Goto, syncDir, guest
<1>9. CASE incomingCont
  BY <1>9
  DEF incomingCont, Goto, contAndConfirm, SetRunState, files, GuestOK, Qemus
<1>10. CASE incomingImages
  BY <1>10
  DEF incomingImages, Goto, removeImages, removeImagesThen, guest
<1>11. CASE incomingKill
  BY <1>11
  DEF incomingKill, Goto, Killed, KillFails, Dead
<1>12. CASE killedImages
  BY <1>12
  DEF killedImages, Goto, removeImages, removeImagesThen, guest
<1>13. CASE Repair
  BY <1>13
  DEF Repair, Goto, guest
<1>14. CASE repairSuspend
  BY <1>14
  DEF repairSuspend, Goto, removeImages, removeImagesThen, guest
<1>15. CASE discardJournal
  BY <1>15
  DEF discardJournal, Goto, writeJournal, NoJournal, guest
<1>16. CASE discardSync
  BY <1>16
  DEF discardSync, Goto, syncDir, guest
<1>17. CASE discardImages
  BY <1>17
  DEF discardImages, Goto, removeImages, removeImagesThen, guest
<1> QED BY <1>1, <1>2, <1>3, <1>4, <1>5, <1>6, <1>7, <1>8, <1>9, <1>10, <1>11,
       <1>12, <1>13, <1>14, <1>15, <1>16, <1>17
    DEF RecoverStep

\* Where LifecycleStep leaves the newest version of the guest.
LEMMA LifecycleStepVersion ==
    TypeOK /\ ControlInv /\ VersionInv /\ ~PowerLoss /\ LifecycleStep
        => VersionInv'
<1> SUFFICES ASSUME TypeOK, ControlInv, VersionInv, ~PowerLoss, LifecycleStep
             PROVE  VersionInv'
    OBVIOUS
<1> USE DEF VersionInv, SavedIsNewest, validImage, ControlInv, PositionInv,
            SavedNeverRuns, Frozen, Committed, Removed, TypeOK, ControlOK,
            Returns
<1>1. CASE dispatch
  BY <1>1
  DEF dispatch, Goto, Call, FromState, files, guest
<1>2. CASE restate
  BY <1>2
  DEF restate, Goto, Call, FromState, files, guest
<1>3. CASE stopQemu
  BY <1>3
  DEF stopQemu, Goto, Call, Killed, KillFails, Dead
<1> QED BY <1>1, <1>2, <1>3
    DEF LifecycleStep

\* Where SuspendStep leaves the newest version of the guest.
LEMMA SuspendStepVersion ==
    TypeOK /\ ControlInv /\ VersionInv /\ ~PowerLoss /\ SuspendStep
        => VersionInv'
<1> SUFFICES ASSUME TypeOK, ControlInv, VersionInv, ~PowerLoss, SuspendStep
             PROVE  VersionInv'
    OBVIOUS
<1> USE DEF VersionInv, SavedIsNewest, validImage, ControlInv, PositionInv,
            SavedNeverRuns, Frozen, Committed, Removed, TypeOK, ControlOK,
            Returns
<1>1. CASE PrepareSuspend
  BY <1>1
  DEF PrepareSuspend, Goto, writeJournal, Journal, guest
<1>2. CASE prepareSync
  BY <1>2
  DEF prepareSync, Goto, syncDir, guest
<1>3. CASE quiesce
  BY <1>3
  DEF quiesce, Goto, files, guest
<1>4. CASE CommitSuspend
  BY <1>4
  DEF CommitSuspend, Goto, SetRunState, files, GuestOK, Qemus
<1>5. CASE save
  BY <1>5, ConstantsAssumption
  DEF save, Goto, SetRunState, GuestOK, Qemus, Partial, Versions
<1>6. CASE poll
  BY <1>6
  DEF poll, Goto, files, guest
<1>7. CASE makeDurable
  BY <1>7
  DEF makeDurable, Goto, guest
<1>8. CASE durableSync
  BY <1>8
  DEF durableSync, Goto, syncDir, guest
<1>9. CASE commitWrite
  BY <1>9
  DEF commitWrite, Goto, writeJournal, guest
<1>10. CASE commitSync
  BY <1>10
  DEF commitSync, Goto, syncDir, guest
<1>11. CASE quit
  BY <1>11
  DEF quit, Goto, KilledBestEffort, Dead
<1>12. CASE fpWrite
  BY <1>12
  DEF fpWrite, Goto, writeJournal, guest
<1>13. CASE fpSync
  BY <1>13
  DEF fpSync, Goto, syncDir, syncDirBestEffort, guest
<1>14. CASE rollback
  BY <1>14
  DEF rollback, Goto, SetRunState, files, GuestOK, Qemus
<1>15. CASE rbImages
  BY <1>15
  DEF rbImages, Goto, removeImages, removeImagesThen, guest
<1>16. CASE rbCont
  BY <1>16
  DEF rbCont, Goto, contAndConfirm, SetRunState, files, GuestOK, Qemus
<1>17. CASE crashed
  BY <1>17
  DEF crashed, Call, guest
<1>18. CASE afterRefusal
  BY <1>18
  DEF afterRefusal, Goto, Call, files, guest
<1>19. CASE afterCommitError
  BY <1>19
  DEF afterCommitError, Goto, Call, files, guest
<1>20. CASE CancelSuspend
  BY <1>20
  DEF CancelSuspend, Goto, Call, files, guest
<1> QED BY <1>1, <1>2, <1>3, <1>4, <1>5, <1>6, <1>7, <1>8, <1>9, <1>10, <1>11,
       <1>12, <1>13, <1>14, <1>15, <1>16, <1>17, <1>18, <1>19, <1>20
    DEF SuspendStep

\* Where ResumeStep leaves the newest version of the guest.
LEMMA ResumeStepVersion ==
    TypeOK /\ ControlInv /\ VersionInv /\ ~PowerLoss /\ ResumeStep
        => VersionInv'
<1> SUFFICES ASSUME TypeOK, ControlInv, VersionInv, ~PowerLoss, ResumeStep
             PROVE  VersionInv'
    OBVIOUS
<1> USE DEF VersionInv, SavedIsNewest, validImage, ControlInv, PositionInv,
            SavedNeverRuns, Frozen, Committed, Removed, TypeOK, ControlOK,
            Returns
<1>1. CASE Resume
  BY <1>1
  DEF Resume, Goto, Call, Incompatible, Launched
<1>2. CASE load
  BY <1>2
  DEF load, Goto, SetRunState, files, GuestOK, Qemus
<1>3. CASE waitLoaded
  BY <1>3
  DEF waitLoaded, Goto, files, guest
<1>4. CASE rejected
  BY <1>4
  DEF rejected, Goto, Call, Incompatible, KilledBestEffort, Dead, Survives
<1>5. CASE transient
  BY <1>5
  DEF transient, Goto, KilledBestEffort, Dead, Survives
<1>6. CASE resumeUnlink
  BY <1>6
  DEF resumeUnlink, Goto, writeJournal, NoJournal, guest
<1>7. CASE resumeSync
  BY <1>7
  DEF resumeSync, Goto, syncDir, guest
<1>8. CASE resumeCont
  BY <1>8
  DEF resumeCont, Goto, contAndConfirm, SetRunState, files, GuestOK, Qemus
<1>9. CASE resumeImages
  BY <1>9
  DEF resumeImages, Goto, removeImages, removeImagesThen, guest
<1>10. CASE resumeLeft
  BY <1>10
  DEF resumeLeft, Goto, files, guest
<1> QED BY <1>1, <1>2, <1>3, <1>4, <1>5, <1>6, <1>7, <1>8, <1>9, <1>10
    DEF ResumeStep

\* Where StartStep leaves the newest version of the guest.
LEMMA StartStepVersion ==
    TypeOK /\ ControlInv /\ VersionInv /\ ~PowerLoss /\ StartStep
        => VersionInv'
<1> SUFFICES ASSUME TypeOK, ControlInv, VersionInv, ~PowerLoss, StartStep
             PROVE  VersionInv'
    OBVIOUS
<1> USE DEF VersionInv, SavedIsNewest, validImage, ControlInv, PositionInv,
            SavedNeverRuns, Frozen, Committed, Removed, TypeOK, ControlOK,
            Returns
<1>1. CASE Start
  BY <1>1
  DEF Start, Goto, Call, files, guest
<1>2. CASE coldRemove
  BY <1>2
  DEF coldRemove, Goto, removeImages, removeImagesThen, guest
<1>3. CASE coldLaunch
  BY <1>3
  DEF coldLaunch, Goto, Launched
<1>4. CASE waitLaunched
  BY <1>4
  DEF waitLaunched, Goto, KilledBestEffort, Dead, Survives
<1> QED BY <1>1, <1>2, <1>3, <1>4
    DEF StartStep

\* Where QemuStep leaves the newest version of the guest.
LEMMA QemuStepVersion ==
    TypeOK /\ ControlInv /\ VersionInv /\ ~PowerLoss /\ QemuStep
        => VersionInv'
<1> SUFFICES ASSUME TypeOK, ControlInv, VersionInv, ~PowerLoss, QemuStep
             PROVE  VersionInv'
    OBVIOUS
<1> USE DEF VersionInv, SavedIsNewest, validImage, ControlInv, PositionInv,
            SavedNeverRuns, Frozen, Committed, Removed, TypeOK, ControlOK,
            Returns
<1>1. CASE GuestExecutes
  BY <1>1
  DEF GuestExecutes, files, ctl
<1>2. CASE MigrationEnds
  BY <1>2
  DEF MigrationEnds, SetRunState, ctl, GuestOK, Qemus
<1>3. CASE LoadEnds
  BY <1>3
  DEF LoadEnds, SetRunState, files, ctl, GuestOK, Qemus
<1>4. CASE QemuDies
  BY <1>4
  DEF QemuDies, KilledBestEffort, Dead, ctl
<1>5. CASE QemuStarts
  BY <1>5
  DEF QemuStarts, ctl
<1> QED BY <1>1, <1>2, <1>3, <1>4, <1>5
    DEF QemuStep

\* Where Fault leaves the newest version of the guest.
LEMMA FaultVersion ==
    TypeOK /\ ControlInv /\ VersionInv /\ ~PowerLoss /\ Fault
        => VersionInv'
<1> SUFFICES ASSUME TypeOK, ControlInv, VersionInv, ~PowerLoss, Fault
             PROVE  VersionInv'
    OBVIOUS
<1> USE DEF VersionInv, SavedIsNewest, validImage, ControlInv, PositionInv,
            SavedNeverRuns, Frozen, Committed, Removed, TypeOK, ControlOK,
            Returns
<1>1. CASE JmKilled
  BY <1>1
  DEF JmKilled, Goto, files, guest
<1>2. CASE PowerFails
  BY <1>2
  DEF PowerFails, Goto, KilledBestEffort
<1>3. CASE JournalTurnsBad
  BY <1>3
  DEF JournalTurnsBad, Journal, guest, ctl
<1> QED BY <1>1, <1>2, <1>3
    DEF Fault

\* Taking the lock touches no version.
LEMMA BeginVersion ==
    VersionInv /\ (\E c \in Commands : Begin(c)) => VersionInv'
  BY DEF Begin, files, guest, VersionInv, SavedIsNewest, validImage

\* As long as the host keeps power, the newest version of the guest is where
\* the command's position says: in QEMU, in the image being committed, or in
\* the committed image.
THEOREM VersionInvariant ==
    ASSUME ~LaunchGap, ~PowerLoss PROVE Spec => []VersionInv
<1>1. Init => VersionInv
  BY DEF Init, Dead, NoJournal, VersionInv, SavedIsNewest, validImage
<1>2. TypeOK /\ ControlInv /\ VersionInv /\ [Next]_vars => VersionInv'
  <2> SUFFICES ASSUME TypeOK, ControlInv, VersionInv, [Next]_vars
               PROVE VersionInv'
      OBVIOUS
  <2>1. CASE UNCHANGED vars
    BY <2>1 DEF vars, VersionInv, SavedIsNewest, validImage
  <2>2. CASE Next
    BY <2>2, BeginVersion, RecoverStepVersion, LifecycleStepVersion,
       SuspendStepVersion, ResumeStepVersion, StartStepVersion,
       QemuStepVersion, FaultVersion
    DEF Next, JmStep
  <2> QED BY <2>1, <2>2
<1> QED BY <1>1, <1>2, TypeCorrect, ControlInvariant, PTL DEF Spec

\* A saved state is never loaded twice, and a guest that runs is the newest
\* one, as long as the host keeps power.
THEOREM RunningGuestIsNewest ==
    ASSUME ~LaunchGap, ~PowerLoss PROVE Spec => []NeverStale
<1>1. VersionInv => NeverStale
  BY DEF VersionInv, NeverStale
<1> QED BY <1>1, VersionInvariant, PTL

\* A machine that reads suspended has a complete image of its newest guest.
THEOREM SavedStateIsNewest ==
    ASSUME ~LaunchGap, ~PowerLoss PROVE Spec => []SavedIsNewest
<1>1. VersionInv => SavedIsNewest
  BY DEF VersionInv
<1> QED BY <1>1, VersionInvariant, PTL

-----------------------------------------------------------------------------
\* Where recovery and the repair leaves the guest's memory.
LEMMA RecoverStepHandover ==
    TypeOK /\ ControlInv /\ HandoverInv /\ RecoverStep
        => HandoverInv'
<1> SUFFICES ASSUME TypeOK, ControlInv, HandoverInv, RecoverStep
             PROVE  HandoverInv'
    OBVIOUS
<1> USE DEF HandoverInv, Saving, Loading, Empty, ControlInv, PositionInv,
            Tracked, Gone, Removed, TypeOK, ControlOK, Returns,
            validImage, GuestOK, Qemus, Absent
<1>1. CASE Recover
  BY <1>1 DEF Recover, Goto, files, removeImagesThen, guest
<1>2. CASE asideSync
  BY <1>2 DEF asideSync, syncDirBestEffort, syncDir, Goto, guest
<1>3. CASE recoverSaved
  BY <1>3 DEF recoverSaved, Status, Goto, Killed, Dead, KillFails
<1>4. CASE savedFp
  BY <1>4 DEF savedFp, Goto, guest
<1>5. CASE savedFpSync
  BY <1>5 DEF savedFpSync, syncDirBestEffort, syncDir, Goto, guest
<1>6. CASE recoverSaving
  BY <1>6
  DEF recoverSaving, Status, Goto, SetRunState, Killed, Dead, KillFails
<1>7. CASE savingCont
  BY <1>7 DEF savingCont, contAndConfirm, SetRunState, Goto, files
<1>8. CASE incomingSync
  BY <1>8 DEF incomingSync, syncDir, Goto, guest
<1>9. CASE incomingCont
  BY <1>9 DEF incomingCont, contAndConfirm, SetRunState, Goto, files
<1>10. CASE incomingImages
  BY <1>10 DEF incomingImages, removeImagesThen, Goto, guest
<1>11. CASE incomingKill
  BY <1>11 DEF incomingKill, Killed, Dead, Goto, KillFails
<1>12. CASE killedImages
  BY <1>12 DEF killedImages, removeImagesThen, Goto, guest
<1>13. CASE Repair
  BY <1>13 DEF Repair, Goto, guest
<1>14. CASE repairSuspend
  BY <1>14 DEF repairSuspend, removeImagesThen, Goto, guest
<1>15. CASE discardJournal
  BY <1>15 DEF discardJournal, Goto, guest
<1>16. CASE discardSync
  BY <1>16 DEF discardSync, syncDir, Goto, guest
<1>17. CASE discardImages
  BY <1>17 DEF discardImages, removeImagesThen, Goto, guest
<1> QED BY <1>1, <1>2, <1>3, <1>4, <1>5, <1>6, <1>7, <1>8, <1>9, <1>10, <1>11,
       <1>12, <1>13, <1>14, <1>15, <1>16, <1>17
    DEF RecoverStep

\* Where the dispatch of a command leaves the guest's memory.
LEMMA LifecycleStepHandover ==
    TypeOK /\ ControlInv /\ HandoverInv /\ LifecycleStep
        => HandoverInv'
<1> SUFFICES ASSUME TypeOK, ControlInv, HandoverInv, LifecycleStep
             PROVE  HandoverInv'
    OBVIOUS
<1> USE DEF HandoverInv, Saving, Loading, Empty, ControlInv, PositionInv,
            Tracked, Gone, Removed, TypeOK, ControlOK, Returns,
            validImage, GuestOK, Qemus, Absent
<1>1. CASE dispatch
  BY <1>1 DEF dispatch, State, Alive, Goto, FromState, Call, files, guest
<1>2. CASE restate
  BY <1>2 DEF restate, FromState, State, Alive, Goto, Call, files, guest
<1>3. CASE stopQemu
  BY <1>3 DEF stopQemu, Killed, Dead, Goto, KillFails, Call
<1> QED BY <1>1, <1>2, <1>3 DEF LifecycleStep

\* Where a suspend leaves the guest's memory.
LEMMA SuspendStepHandover ==
    TypeOK /\ ControlInv /\ HandoverInv /\ SuspendStep
        => HandoverInv'
<1> SUFFICES ASSUME TypeOK, ControlInv, HandoverInv, SuspendStep
             PROVE  HandoverInv'
    OBVIOUS
<1> USE DEF HandoverInv, Saving, Loading, Empty, ControlInv, PositionInv,
            Tracked, Gone, Removed, TypeOK, ControlOK, Returns,
            validImage, GuestOK, Qemus, Absent
<1>1. CASE PrepareSuspend
  BY <1>1 DEF PrepareSuspend, writeJournal, Journal, Goto, guest
<1>2. CASE prepareSync
  BY <1>2 DEF prepareSync, syncDir, Goto, guest
<1>3. CASE quiesce
  BY <1>3 DEF quiesce, Goto, files, guest
<1>4. CASE CommitSuspend
  BY <1>4 DEF CommitSuspend, Alive, Goto, SetRunState, files
<1>5. CASE save
  BY <1>5 DEF save, SetRunState, Goto
<1>6. CASE poll
  BY <1>6 DEF poll, Goto, Alive, files, guest
<1>7. CASE makeDurable
  BY <1>7, ConstantsAssumption DEF makeDurable, Goto, guest, Versions
<1>8. CASE durableSync
  BY <1>8 DEF durableSync, syncDir, Goto, guest
<1>9. CASE commitWrite
  BY <1>9 DEF commitWrite, Goto, guest
<1>10. CASE commitSync
  BY <1>10 DEF commitSync, syncDir, Goto, guest
<1>11. CASE quit
  BY <1>11 DEF quit, KilledBestEffort, Dead, Goto
<1>12. CASE fpWrite
  BY <1>12 DEF fpWrite, Goto, guest
<1>13. CASE fpSync
  BY <1>13 DEF fpSync, syncDirBestEffort, syncDir, Goto, guest
<1>14. CASE rollback
  BY <1>14 DEF rollback, Alive, Goto, SetRunState, files
<1>15. CASE rbImages
  BY <1>15 DEF rbImages, removeImagesThen, Goto, guest
<1>16. CASE rbCont
  BY <1>16 DEF rbCont, contAndConfirm, SetRunState, Goto, Alive, files
<1>17. CASE crashed
  BY <1>17 DEF crashed, Call, guest
<1>18. CASE afterRefusal
  BY <1>18 DEF afterRefusal, Goto, Call, files, guest
<1>19. CASE afterCommitError
  BY <1>19 DEF afterCommitError, Goto, Alive, Call, files, guest
<1>20. CASE CancelSuspend
  BY <1>20 DEF CancelSuspend, Goto, Call, files, guest
<1> QED BY <1>1, <1>2, <1>3, <1>4, <1>5, <1>6, <1>7, <1>8, <1>9, <1>10, <1>11,
       <1>12, <1>13, <1>14, <1>15, <1>16, <1>17, <1>18, <1>19, <1>20
    DEF SuspendStep

\* Where a resume leaves the guest's memory.
LEMMA ResumeStepHandover ==
    TypeOK /\ ControlInv /\ HandoverInv /\ ResumeStep
        => HandoverInv'
<1> SUFFICES ASSUME TypeOK, ControlInv, HandoverInv, ResumeStep
             PROVE  HandoverInv'
    OBVIOUS
<1> USE DEF HandoverInv, Saving, Loading, Empty, ControlInv, PositionInv,
            Tracked, Gone, Removed, TypeOK, ControlOK, Returns,
            validImage, GuestOK, Qemus, Absent
<1>1. CASE Resume
  BY <1>1 DEF Resume, Goto, Alive, Incompatible, Call, Launched
<1>2. CASE load
  BY <1>2 DEF load, SetRunState, Goto, files
<1>3. CASE waitLoaded
  BY <1>3 DEF waitLoaded, Goto, files, guest
<1>4. CASE rejected
  BY <1>4 DEF rejected, KilledBestEffort, Dead, Incompatible, Call, Goto, Survives
<1>5. CASE transient
  BY <1>5 DEF transient, KilledBestEffort, Dead, Goto, Survives
<1>6. CASE resumeUnlink
  BY <1>6 DEF resumeUnlink, Goto, guest
<1>7. CASE resumeSync
  BY <1>7 DEF resumeSync, syncDir, Goto, guest
<1>8. CASE resumeCont
  BY <1>8 DEF resumeCont, contAndConfirm, SetRunState, Goto, files
<1>9. CASE resumeImages
  BY <1>9 DEF resumeImages, removeImagesThen, Goto, guest
<1>10. CASE resumeLeft
  BY <1>10 DEF resumeLeft, Goto, files, guest
<1> QED BY <1>1, <1>2, <1>3, <1>4, <1>5, <1>6, <1>7, <1>8, <1>9, <1>10
    DEF ResumeStep

\* Where a cold boot leaves the guest's memory.
LEMMA StartStepHandover ==
    TypeOK /\ ControlInv /\ HandoverInv /\ StartStep
        => HandoverInv'
<1> SUFFICES ASSUME TypeOK, ControlInv, HandoverInv, StartStep
             PROVE  HandoverInv'
    OBVIOUS
<1> USE DEF HandoverInv, Saving, Loading, Empty, ControlInv, PositionInv,
            Tracked, Gone, Removed, TypeOK, ControlOK, Returns,
            validImage, GuestOK, Qemus, Absent
<1>1. CASE Start
  BY <1>1 DEF Start, Goto, Call, files, guest
<1>2. CASE coldRemove
  BY <1>2 DEF coldRemove, Goto, removeImagesThen, guest
<1>3. CASE coldLaunch
  BY <1>3 DEF coldLaunch, Goto, Launched
<1>4. CASE waitLaunched
  BY <1>4 DEF waitLaunched, KilledBestEffort, Dead, Goto, Survives
<1> QED BY <1>1, <1>2, <1>3, <1>4 DEF StartStep

\* Where QEMU on its own leaves the guest's memory.
LEMMA QemuStepHandover ==
    TypeOK /\ ControlInv /\ HandoverInv /\ QemuStep
        => HandoverInv'
<1> SUFFICES ASSUME TypeOK, ControlInv, HandoverInv, QemuStep
             PROVE  HandoverInv'
    OBVIOUS
<1> USE DEF HandoverInv, Saving, Loading, Empty, ControlInv, PositionInv,
            Tracked, Gone, Removed, TypeOK, ControlOK, Returns,
            validImage, GuestOK, Qemus, Absent
<1>1. CASE GuestExecutes
  BY <1>1 DEF GuestExecutes, files, ctl
<1>2. CASE MigrationEnds
  BY <1>2 DEF MigrationEnds, SetRunState, ctl
<1>3. CASE LoadEnds
  BY <1>3 DEF LoadEnds, SetRunState, files, ctl
<1>4. CASE QemuDies
  BY <1>4 DEF QemuDies, KilledBestEffort, Dead, ctl
<1>5. CASE QemuStarts
  BY <1>5 DEF QemuStarts, ctl
<1> QED BY <1>1, <1>2, <1>3, <1>4, <1>5 DEF QemuStep

\* Where a killed command, a power loss or a damaged journal leaves the
\* guest's memory.
LEMMA FaultHandover ==
    TypeOK /\ ControlInv /\ HandoverInv /\ Fault
        => HandoverInv'
<1> SUFFICES ASSUME TypeOK, ControlInv, HandoverInv, Fault
             PROVE  HandoverInv'
    OBVIOUS
<1> USE DEF HandoverInv, Saving, Loading, Empty, ControlInv, PositionInv,
            Tracked, Gone, Removed, TypeOK, ControlOK, Returns,
            validImage, GuestOK, Qemus, Absent
<1>1. CASE JmKilled
  BY <1>1 DEF JmKilled, Goto, files, guest
<1>2. CASE PowerFails
  BY <1>2 DEF PowerFails, KilledBestEffort, Dead, Goto
<1>3. CASE JournalTurnsBad
  BY <1>3 DEF JournalTurnsBad, guest, ctl
<1> QED BY <1>1, <1>2, <1>3 DEF Fault

\* Taking the lock hands nothing over.
LEMMA BeginHandover ==
    HandoverInv /\ (\E c \in Commands : Begin(c)) => HandoverInv'
  BY DEF Begin, files, guest, HandoverInv, Saving, Loading

\* Where the guest's memory is while a command hands it over, with every
\* fault: a saved journal only points at an image once the process is frozen,
\* a save only fails into a running guest or a dead one.
THEOREM HandoverInvariant ==
    ASSUME ~LaunchGap PROVE Spec => []HandoverInv
<1>1. Init => HandoverInv
  BY DEF Init, Dead, NoJournal, HandoverInv, Saving, Loading
<1>2. TypeOK /\ ControlInv /\ HandoverInv /\ [Next]_vars => HandoverInv'
  <2> SUFFICES ASSUME TypeOK, ControlInv, HandoverInv, [Next]_vars
               PROVE  HandoverInv'
      OBVIOUS
  <2>1. CASE UNCHANGED vars
    BY <2>1 DEF vars, HandoverInv
  <2>2. CASE Next
    BY <2>2, BeginHandover, RecoverStepHandover, LifecycleStepHandover,
       SuspendStepHandover, ResumeStepHandover, StartStepHandover,
       QemuStepHandover, FaultHandover
    DEF Next, JmStep
  <2> QED BY <2>1, <2>2
<1> QED BY <1>1, <1>2, TypeCorrect, ControlInvariant, PTL DEF Spec

-----------------------------------------------------------------------------
(* Recovery. *)

\* What recovery and the repair leaves to a command past its recovery.
LEMMA RecoverStepRecover ==
    TypeOK /\ ControlInv /\ HandoverInv /\ RecoverInv /\ RecoverStep
        => RecoverInv'
<1> SUFFICES ASSUME TypeOK, ControlInv, HandoverInv, RecoverInv, RecoverStep
             PROVE  RecoverInv'
    OBVIOUS
<1> USE DEF RecoverInv, RecoverResolves, HandoverInv, ControlInv, PositionInv,
            Gone, Removed, TypeOK, validImage
<1>1. CASE Recover
  BY <1>1 DEF Recover, Goto, files, removeImagesThen, guest
<1>2. CASE asideSync
  BY <1>2 DEF asideSync, syncDirBestEffort, syncDir, Goto, guest
<1>3. CASE recoverSaved
  BY <1>3 DEF recoverSaved, Goto, Killed
<1>4. CASE savedFp
  BY <1>4 DEF savedFp, Goto, guest
<1>5. CASE savedFpSync
  BY <1>5 DEF savedFpSync, syncDirBestEffort, syncDir, Goto, guest
<1>6. CASE recoverSaving
  BY <1>6 DEF recoverSaving, Goto, Killed
<1>7. CASE savingCont
  BY <1>7 DEF savingCont, contAndConfirm, Goto, files
<1>8. CASE incomingSync
  BY <1>8 DEF incomingSync, syncDir, Goto, guest
<1>9. CASE incomingCont
  BY <1>9 DEF incomingCont, contAndConfirm, Goto, files
<1>10. CASE incomingImages
  BY <1>10 DEF incomingImages, removeImagesThen, Goto, guest
<1>11. CASE incomingKill
  BY <1>11 DEF incomingKill, Killed, Goto
<1>12. CASE killedImages
  BY <1>12 DEF killedImages, removeImagesThen, Goto, guest
<1>13. CASE Repair
  BY <1>13 DEF Repair, Goto, guest
<1>14. CASE repairSuspend
  BY <1>14 DEF repairSuspend, removeImagesThen, Goto, guest
<1>15. CASE discardJournal
  BY <1>15 DEF discardJournal, Goto, guest
<1>16. CASE discardSync
  BY <1>16 DEF discardSync, syncDir, Goto, guest
<1>17. CASE discardImages
  BY <1>17 DEF discardImages, removeImagesThen, Goto, guest
<1> QED BY <1>1, <1>2, <1>3, <1>4, <1>5, <1>6, <1>7, <1>8, <1>9, <1>10, <1>11,
       <1>12, <1>13, <1>14, <1>15, <1>16, <1>17
    DEF RecoverStep

\* What the dispatch of a command leaves to a command past its recovery.
LEMMA LifecycleStepRecover ==
    TypeOK /\ ControlInv /\ HandoverInv /\ RecoverInv /\ LifecycleStep
        => RecoverInv'
<1> SUFFICES ASSUME TypeOK, ControlInv, HandoverInv, RecoverInv, LifecycleStep
             PROVE  RecoverInv'
    OBVIOUS
<1> USE DEF RecoverInv, RecoverResolves, HandoverInv, ControlInv, PositionInv,
            Gone, Removed, TypeOK, validImage
<1>1. CASE dispatch
  BY <1>1 DEF dispatch, Goto, FromState, Call, files, guest
<1>2. CASE restate
  BY <1>2 DEF restate, FromState, Goto, Call, files, guest
<1>3. CASE stopQemu
  BY <1>3 DEF stopQemu, Killed, Goto, Call
<1> QED BY <1>1, <1>2, <1>3 DEF LifecycleStep

\* What a suspend leaves to a command past its recovery.
LEMMA SuspendStepRecover ==
    TypeOK /\ ControlInv /\ HandoverInv /\ RecoverInv /\ SuspendStep
        => RecoverInv'
<1> SUFFICES ASSUME TypeOK, ControlInv, HandoverInv, RecoverInv, SuspendStep
             PROVE  RecoverInv'
    OBVIOUS
<1> USE DEF RecoverInv, RecoverResolves, HandoverInv, ControlInv, PositionInv,
            Gone, Removed, TypeOK, validImage
<1>1. CASE PrepareSuspend
  BY <1>1 DEF PrepareSuspend, Goto, guest
<1>2. CASE prepareSync
  BY <1>2 DEF prepareSync, syncDir, Goto, guest
<1>3. CASE quiesce
  BY <1>3 DEF quiesce, Goto, files, guest
<1>4. CASE CommitSuspend
  BY <1>4 DEF CommitSuspend, Goto, files
<1>5. CASE save
  BY <1>5 DEF save, Goto
<1>6. CASE poll
  BY <1>6 DEF poll, Goto, files, guest
<1>7. CASE makeDurable
  BY <1>7 DEF makeDurable, Goto, guest
<1>8. CASE durableSync
  BY <1>8 DEF durableSync, syncDir, Goto, guest
<1>9. CASE commitWrite
  BY <1>9 DEF commitWrite, Goto, guest
<1>10. CASE commitSync
  BY <1>10 DEF commitSync, syncDir, Goto, guest
<1>11. CASE quit
  BY <1>11 DEF quit, KilledBestEffort, Goto
<1>12. CASE fpWrite
  BY <1>12 DEF fpWrite, Goto, guest
<1>13. CASE fpSync
  BY <1>13 DEF fpSync, syncDirBestEffort, syncDir, Goto, guest
<1>14. CASE rollback
  BY <1>14 DEF rollback, Goto, files
<1>15. CASE rbImages
  BY <1>15 DEF rbImages, removeImagesThen, Goto, guest
<1>16. CASE rbCont
  BY <1>16 DEF rbCont, contAndConfirm, Goto, files
<1>17. CASE crashed
  BY <1>17 DEF crashed, Call, guest
<1>18. CASE afterRefusal
  BY <1>18 DEF afterRefusal, Goto, Call, files, guest
<1>19. CASE afterCommitError
  BY <1>19 DEF afterCommitError, Goto, Call, files, guest
<1>20. CASE CancelSuspend
  BY <1>20 DEF CancelSuspend, Goto, Call, files, guest
<1> QED BY <1>1, <1>2, <1>3, <1>4, <1>5, <1>6, <1>7, <1>8, <1>9, <1>10, <1>11,
       <1>12, <1>13, <1>14, <1>15, <1>16, <1>17, <1>18, <1>19, <1>20
    DEF SuspendStep

\* What a resume leaves to a command past its recovery.
LEMMA ResumeStepRecover ==
    TypeOK /\ ControlInv /\ HandoverInv /\ RecoverInv /\ ResumeStep
        => RecoverInv'
<1> SUFFICES ASSUME TypeOK, ControlInv, HandoverInv, RecoverInv, ResumeStep
             PROVE  RecoverInv'
    OBVIOUS
<1> USE DEF RecoverInv, RecoverResolves, HandoverInv, ControlInv, PositionInv,
            Gone, Removed, TypeOK, validImage
<1>1. CASE Resume
  BY <1>1 DEF Resume, Goto, Incompatible, Call, Launched
<1>2. CASE load
  BY <1>2 DEF load, Goto, files
<1>3. CASE waitLoaded
  BY <1>3 DEF waitLoaded, Goto, files, guest
<1>4. CASE rejected
  BY <1>4 DEF rejected, KilledBestEffort, Incompatible, Call, Goto, Survives
<1>5. CASE transient
  BY <1>5 DEF transient, KilledBestEffort, Goto, Survives
<1>6. CASE resumeUnlink
  BY <1>6 DEF resumeUnlink, Goto, guest
<1>7. CASE resumeSync
  BY <1>7 DEF resumeSync, syncDir, Goto, guest
<1>8. CASE resumeCont
  BY <1>8 DEF resumeCont, contAndConfirm, Goto, files
<1>9. CASE resumeImages
  BY <1>9 DEF resumeImages, removeImagesThen, Goto, guest
<1>10. CASE resumeLeft
  BY <1>10 DEF resumeLeft, Goto, files, guest
<1> QED BY <1>1, <1>2, <1>3, <1>4, <1>5, <1>6, <1>7, <1>8, <1>9, <1>10
    DEF ResumeStep

\* What a cold boot leaves to a command past its recovery.
LEMMA StartStepRecover ==
    TypeOK /\ ControlInv /\ HandoverInv /\ RecoverInv /\ StartStep
        => RecoverInv'
<1> SUFFICES ASSUME TypeOK, ControlInv, HandoverInv, RecoverInv, StartStep
             PROVE  RecoverInv'
    OBVIOUS
<1> USE DEF RecoverInv, RecoverResolves, HandoverInv, ControlInv, PositionInv,
            Gone, Removed, TypeOK, validImage
<1>1. CASE Start
  BY <1>1 DEF Start, Goto, Call, files, guest
<1>2. CASE coldRemove
  BY <1>2 DEF coldRemove, Goto, removeImagesThen, guest
<1>3. CASE coldLaunch
  BY <1>3 DEF coldLaunch, Goto, Launched
<1>4. CASE waitLaunched
  BY <1>4 DEF waitLaunched, KilledBestEffort, Goto, Survives
<1> QED BY <1>1, <1>2, <1>3, <1>4 DEF StartStep

\* What QEMU on its own leaves to a command past its recovery.
LEMMA QemuStepRecover ==
    TypeOK /\ ControlInv /\ HandoverInv /\ RecoverInv /\ QemuStep
        => RecoverInv'
<1> SUFFICES ASSUME TypeOK, ControlInv, HandoverInv, RecoverInv, QemuStep
             PROVE  RecoverInv'
    OBVIOUS
<1> USE DEF RecoverInv, RecoverResolves, HandoverInv, ControlInv, PositionInv,
            Gone, Removed, TypeOK, validImage
<1>1. CASE GuestExecutes
  BY <1>1 DEF GuestExecutes, files, ctl
<1>2. CASE MigrationEnds
  BY <1>2 DEF MigrationEnds, ctl
<1>3. CASE LoadEnds
  BY <1>3 DEF LoadEnds, files, ctl
<1>4. CASE QemuDies
  BY <1>4 DEF QemuDies, KilledBestEffort, ctl
<1>5. CASE QemuStarts
  BY <1>5 DEF QemuStarts, ctl
<1> QED BY <1>1, <1>2, <1>3, <1>4, <1>5 DEF QemuStep

\* What a killed command, a power loss or a damaged journal leaves to a
\* command past its recovery.
LEMMA FaultRecover ==
    TypeOK /\ ControlInv /\ HandoverInv /\ RecoverInv /\ Fault
        => RecoverInv'
<1> SUFFICES ASSUME TypeOK, ControlInv, HandoverInv, RecoverInv, Fault
             PROVE  RecoverInv'
    OBVIOUS
<1> USE DEF RecoverInv, RecoverResolves, HandoverInv, ControlInv, PositionInv,
            Gone, Removed, TypeOK, validImage
<1>1. CASE JmKilled
  BY <1>1 DEF JmKilled, Goto, files, guest
<1>2. CASE PowerFails
  BY <1>2 DEF PowerFails, KilledBestEffort, Goto
<1>3. CASE JournalTurnsBad
  BY <1>3 DEF JournalTurnsBad, guest, ctl
<1> QED BY <1>1, <1>2, <1>3 DEF Fault

\* A command that begins has its recovery before it; only a forced stop goes
\* on when that fails.
LEMMA BeginRecover ==
    RecoverInv /\ (\E c \in Commands : Begin(c)) => RecoverInv'
  BY DEF Begin, RecoverInv, RecoverResolves

\* Recovery leaves no half-done suspend, with every fault.
THEOREM RecoverInvariant ==
    ASSUME ~LaunchGap PROVE Spec => []RecoverInv
<1>1. Init => RecoverInv
  BY DEF Init, RecoverInv, RecoverResolves
<1>2. TypeOK /\ ControlInv /\ HandoverInv /\ RecoverInv /\ [Next]_vars => RecoverInv'
  <2> SUFFICES ASSUME TypeOK, ControlInv, HandoverInv, RecoverInv, [Next]_vars
               PROVE  RecoverInv'
      OBVIOUS
  <2>1. CASE UNCHANGED vars
    BY <2>1 DEF vars, RecoverInv, RecoverResolves
  <2>2. CASE Next
    BY <2>2, BeginRecover, RecoverStepRecover, LifecycleStepRecover,
       SuspendStepRecover, ResumeStepRecover, StartStepRecover,
       QemuStepRecover, FaultRecover
    DEF Next, JmStep
  <2> QED BY <2>1, <2>2
<1> QED BY <1>1, <1>2, TypeCorrect, ControlInvariant, HandoverInvariant, PTL
    DEF Spec

\* A command that got past recovery finds no half-done suspend, and a saved
\* state only beside a QEMU that is gone, with every fault the model has.
THEOREM RecoveryResolves ==
    ASSUME ~LaunchGap PROVE Spec => []RecoverResolves
<1>1. RecoverInv => RecoverResolves
  BY DEF RecoverInv
<1> QED BY <1>1, RecoverInvariant, PTL

-----------------------------------------------------------------------------
(* Restored guests. *)

\* What Recover finds to continue has no saved journal to bring back.
LEMMA RecoverResurrect ==
    ASSUME TypeOK, ControlInv, HandoverInv, ResurrectInv, Recover
    PROVE  ResurrectInv'
<1> USE DEF ResurrectInv
<1>1. UNCHANGED <<qemu, incoming>>
  BY DEF Recover, files, guest
<1>2. CASE journal.phase = "bad" /\ writeJournal(NoJournal)
  BY <1>1, <1>2 DEF Recover, writeJournal, NoJournal
<1>3. CASE UNCHANGED <<journal, jdur>>
  <2>1. pc' \in {"recoverSaving"} => journal.phase = "saving"
    BY <1>3 DEF Recover, Goto, removeImagesThen, ControlInv, PositionInv,
                InRecover, TypeOK, ControlOK, writeJournal, NoJournal
  <2>2. pc' \in {"asideSync", "savingCont", "incomingCont", "resumeCont"}
            => journal.phase = "bad"
    BY <1>3 DEF Recover, Goto, removeImagesThen, ControlInv, PositionInv,
                InRecover, TypeOK, ControlOK
  <2> QED BY <2>1, <2>2, <1>1, <1>3
<1> QED BY <1>2, <1>3 DEF Recover, files

\* A resume leaves a guest that does not run beside its saved journal.
LEMMA ResumeResurrect ==
    ASSUME TypeOK, ControlInv, HandoverInv, ResurrectInv, Resume
    PROVE  ResurrectInv'
<1>1. UNCHANGED <<journal, jdur>> /\ pc' \in {"idle", "discardJournal", "load"}
  BY DEF Resume, Goto, Incompatible, Call, Launched
<1>2. \/ incoming' = incoming /\ qemu' = qemu
      \/ journal.phase = "saved" /\ qemu'.st # "running"
  <2>1. ~Alive => qemu.st = "none"
    BY DEF Alive, ControlInv, Tracked, Resume
  <2> QED BY <2>1 DEF Resume, validImage, Launched
<1>3. CASE incoming' = incoming /\ qemu' = qemu
  BY <1>1, <1>3 DEF ResurrectInv
<1>4. CASE journal.phase = "saved" /\ qemu'.st # "running"
  BY <1>1, <1>4 DEF ResurrectInv
<1> QED BY <1>2, <1>3, <1>4

\* A restored guest and the journals a power loss may bring back, over
\* recovery and the repair.
LEMMA RecoverStepResurrect ==
    TypeOK /\ ControlInv /\ HandoverInv /\ ResurrectInv /\ RecoverStep
        => ResurrectInv'
<1> SUFFICES ASSUME TypeOK, ControlInv, HandoverInv, ResurrectInv, RecoverStep
             PROVE  ResurrectInv'
    OBVIOUS
<1> USE DEF ResurrectInv, HandoverInv, Saving, ControlInv, PositionInv,
            SavedNeverRuns, Gone, Uncommitted, Removed, TypeOK, ControlOK,
            Returns, GuestOK, Qemus
<1>1. CASE Recover
  BY <1>1, RecoverResurrect
<1>2. CASE asideSync
  BY <1>2 DEF asideSync, syncDirBestEffort, syncDir, Goto, guest
<1>3. CASE recoverSaved
  BY <1>3 DEF recoverSaved, Goto, Killed, Dead, KillFails
<1>4. CASE savedFp
  BY <1>4 DEF savedFp, writeJournal, Journal, Goto, guest
<1>5. CASE savedFpSync
  BY <1>5 DEF savedFpSync, syncDirBestEffort, syncDir, Goto, guest
<1>6. CASE recoverSaving
  BY <1>6 DEF recoverSaving, Goto, Killed
<1>7. CASE savingCont
  BY <1>7 DEF savingCont, contAndConfirm, Goto, files
<1>8. CASE incomingSync
  BY <1>8 DEF incomingSync, syncDir, Goto, guest
<1>9. CASE incomingCont
  BY <1>9 DEF incomingCont, contAndConfirm, Goto, files
<1>10. CASE incomingImages
  BY <1>10 DEF incomingImages, removeImagesThen, Goto, guest
<1>11. CASE incomingKill
  BY <1>11 DEF incomingKill, Killed, Dead, Goto, KillFails
<1>12. CASE killedImages
  BY <1>12 DEF killedImages, removeImagesThen, Goto, guest
<1>13. CASE Repair
  BY <1>13 DEF Repair, Goto, guest
<1>14. CASE repairSuspend
  BY <1>14 DEF repairSuspend, removeImagesThen, Goto, guest
<1>15. CASE discardJournal
  BY <1>15 DEF discardJournal, writeJournal, NoJournal, Goto, guest
<1>16. CASE discardSync
  BY <1>16 DEF discardSync, syncDir, Goto, guest
<1>17. CASE discardImages
  BY <1>17 DEF discardImages, removeImagesThen, Goto, guest
<1> QED BY <1>1, <1>2, <1>3, <1>4, <1>5, <1>6, <1>7, <1>8, <1>9, <1>10, <1>11,
       <1>12, <1>13, <1>14, <1>15, <1>16, <1>17
    DEF RecoverStep

\* A restored guest and the journals a power loss may bring back, over the
\* dispatch of a command.
LEMMA LifecycleStepResurrect ==
    TypeOK /\ ControlInv /\ HandoverInv /\ ResurrectInv /\ LifecycleStep
        => ResurrectInv'
<1> SUFFICES ASSUME TypeOK, ControlInv, HandoverInv, ResurrectInv,
                    LifecycleStep
             PROVE  ResurrectInv'
    OBVIOUS
<1> USE DEF ResurrectInv, HandoverInv, Saving, ControlInv, PositionInv,
            SavedNeverRuns, Gone, Uncommitted, Removed, TypeOK, ControlOK,
            Returns, GuestOK, Qemus
<1>1. CASE dispatch
  BY <1>1 DEF dispatch, Goto, FromState, Call, files, guest
<1>2. CASE restate
  BY <1>2 DEF restate, FromState, Goto, Call, files, guest
<1>3. CASE stopQemu
  BY <1>3 DEF stopQemu, Killed, Dead, Goto, KillFails, Call
<1> QED BY <1>1, <1>2, <1>3 DEF LifecycleStep

\* A restored guest and the journals a power loss may bring back, over a
\* suspend.
LEMMA SuspendStepResurrect ==
    TypeOK /\ ControlInv /\ HandoverInv /\ ResurrectInv /\ SuspendStep
        => ResurrectInv'
<1> SUFFICES ASSUME TypeOK, ControlInv, HandoverInv, ResurrectInv, SuspendStep
             PROVE  ResurrectInv'
    OBVIOUS
<1> USE DEF ResurrectInv, HandoverInv, Saving, ControlInv, PositionInv,
            SavedNeverRuns, Gone, Uncommitted, Removed, TypeOK, ControlOK,
            Returns, GuestOK, Qemus
<1>1. CASE PrepareSuspend
  BY <1>1 DEF PrepareSuspend, writeJournal, Journal, Goto, guest
<1>2. CASE prepareSync
  BY <1>2 DEF prepareSync, syncDir, Goto, guest
<1>3. CASE quiesce
  BY <1>3 DEF quiesce, Goto, files, guest
<1>4. CASE CommitSuspend
  BY <1>4 DEF CommitSuspend, Goto, files
<1>5. CASE save
  BY <1>5 DEF save, Goto
<1>6. CASE poll
  BY <1>6 DEF poll, Goto, files, guest
<1>7. CASE makeDurable
  BY <1>7 DEF makeDurable, Goto, guest
<1>8. CASE durableSync
  BY <1>8 DEF durableSync, syncDir, Goto, guest
<1>9. CASE commitWrite
  BY <1>9 DEF commitWrite, writeJournal, Goto, guest
<1>10. CASE commitSync
  BY <1>10 DEF commitSync, syncDir, Goto, guest
<1>11. CASE quit
  BY <1>11 DEF quit, KilledBestEffort, Dead, Goto
<1>12. CASE fpWrite
  BY <1>12 DEF fpWrite, writeJournal, Journal, Goto, guest
<1>13. CASE fpSync
  BY <1>13 DEF fpSync, syncDirBestEffort, syncDir, Goto, guest
<1>14. CASE rollback
  BY <1>14 DEF rollback, Goto, files
<1>15. CASE rbImages
  BY <1>15 DEF rbImages, removeImagesThen, Goto, guest
<1>16. CASE rbCont
  BY <1>16 DEF rbCont, contAndConfirm, Goto, files
<1>17. CASE crashed
  BY <1>17 DEF crashed, Call, guest
<1>18. CASE afterRefusal
  BY <1>18 DEF afterRefusal, Goto, Call, files, guest
<1>19. CASE afterCommitError
  BY <1>19 DEF afterCommitError, Goto, Call, files, guest
<1>20. CASE CancelSuspend
  BY <1>20 DEF CancelSuspend, Goto, Call, files, guest
<1> QED BY <1>1, <1>2, <1>3, <1>4, <1>5, <1>6, <1>7, <1>8, <1>9, <1>10, <1>11,
       <1>12, <1>13, <1>14, <1>15, <1>16, <1>17, <1>18, <1>19, <1>20
    DEF SuspendStep

\* A restored guest and the journals a power loss may bring back, over a
\* resume.
LEMMA ResumeStepResurrect ==
    TypeOK /\ ControlInv /\ HandoverInv /\ ResurrectInv /\ ResumeStep
        => ResurrectInv'
<1> SUFFICES ASSUME TypeOK, ControlInv, HandoverInv, ResurrectInv, ResumeStep
             PROVE  ResurrectInv'
    OBVIOUS
<1> USE DEF ResurrectInv, HandoverInv, Saving, ControlInv, PositionInv,
            SavedNeverRuns, Gone, Uncommitted, Removed, TypeOK, ControlOK,
            Returns, GuestOK, Qemus
<1>1. CASE Resume
  BY <1>1, ResumeResurrect
<1>2. CASE load
  BY <1>2 DEF load, SetRunState, Goto, files
<1>3. CASE waitLoaded
  BY <1>3 DEF waitLoaded, Goto, files, guest
<1>4. CASE rejected
  BY <1>4 DEF rejected, KilledBestEffort, Dead, Incompatible, Call, Goto, Survives
<1>5. CASE transient
  BY <1>5 DEF transient, KilledBestEffort, Dead, Goto, Survives
<1>6. CASE resumeUnlink
  BY <1>6 DEF resumeUnlink, writeJournal, NoJournal, Goto, guest
<1>7. CASE resumeSync
  BY <1>7 DEF resumeSync, syncDir, Goto, guest
<1>8. CASE resumeCont
  BY <1>8 DEF resumeCont, contAndConfirm, Goto, files
<1>9. CASE resumeImages
  BY <1>9 DEF resumeImages, removeImagesThen, Goto, guest
<1>10. CASE resumeLeft
  BY <1>10 DEF resumeLeft, Goto, files, guest
<1> QED BY <1>1, <1>2, <1>3, <1>4, <1>5, <1>6, <1>7, <1>8, <1>9, <1>10
    DEF ResumeStep

\* A restored guest and the journals a power loss may bring back, over a
\* cold boot.
LEMMA StartStepResurrect ==
    TypeOK /\ ControlInv /\ HandoverInv /\ ResurrectInv /\ StartStep
        => ResurrectInv'
<1> SUFFICES ASSUME TypeOK, ControlInv, HandoverInv, ResurrectInv, StartStep
             PROVE  ResurrectInv'
    OBVIOUS
<1> USE DEF ResurrectInv, HandoverInv, Saving, ControlInv, PositionInv,
            SavedNeverRuns, Gone, Uncommitted, Removed, TypeOK, ControlOK,
            Returns, GuestOK, Qemus
<1>1. CASE Start
  BY <1>1 DEF Start, Goto, Call, files, guest
<1>2. CASE coldRemove
  BY <1>2 DEF coldRemove, Goto, removeImagesThen, guest
<1>3. CASE coldLaunch
  BY <1>3 DEF coldLaunch, Goto, Launched
<1>4. CASE waitLaunched
  BY <1>4 DEF waitLaunched, KilledBestEffort, Dead, Goto, Survives
<1> QED BY <1>1, <1>2, <1>3, <1>4 DEF StartStep

\* A restored guest and the journals a power loss may bring back, over
\* QEMU on its own.
LEMMA QemuStepResurrect ==
    TypeOK /\ ControlInv /\ HandoverInv /\ ResurrectInv /\ QemuStep
        => ResurrectInv'
<1> SUFFICES ASSUME TypeOK, ControlInv, HandoverInv, ResurrectInv, QemuStep
             PROVE  ResurrectInv'
    OBVIOUS
<1> USE DEF ResurrectInv, HandoverInv, Saving, ControlInv, PositionInv,
            SavedNeverRuns, Gone, Uncommitted, Removed, TypeOK, ControlOK,
            Returns, GuestOK, Qemus
<1>1. CASE GuestExecutes
  BY <1>1 DEF GuestExecutes, files, ctl
<1>2. CASE MigrationEnds
  BY <1>2 DEF MigrationEnds, SetRunState, ctl
<1>3. CASE LoadEnds
  BY <1>3 DEF LoadEnds, SetRunState, files, ctl
<1>4. CASE QemuDies
  BY <1>4 DEF QemuDies, KilledBestEffort, Dead, ctl
<1>5. CASE QemuStarts
  BY <1>5 DEF QemuStarts, ctl
<1> QED BY <1>1, <1>2, <1>3, <1>4, <1>5 DEF QemuStep

\* A restored guest and the journals a power loss may bring back, over a
\* killed command, a power loss or a damaged journal.
LEMMA FaultResurrect ==
    TypeOK /\ ControlInv /\ HandoverInv /\ ResurrectInv /\ Fault
        => ResurrectInv'
<1> SUFFICES ASSUME TypeOK, ControlInv, HandoverInv, ResurrectInv, Fault
             PROVE  ResurrectInv'
    OBVIOUS
<1> USE DEF ResurrectInv, HandoverInv, Saving, ControlInv, PositionInv,
            SavedNeverRuns, Gone, Uncommitted, Removed, TypeOK, ControlOK,
            Returns, GuestOK, Qemus
<1>1. CASE JmKilled
  BY <1>1 DEF JmKilled, Goto, files, guest
<1>2. CASE PowerFails
  BY <1>2 DEF PowerFails, KilledBestEffort, Dead, Goto
<1>3. CASE JournalTurnsBad
  BY <1>3 DEF JournalTurnsBad, Journal, guest, ctl
<1> QED BY <1>1, <1>2, <1>3 DEF Fault

\* Taking the lock touches no journal.
LEMMA BeginResurrect ==
    ResurrectInv /\ (\E c \in Commands : Begin(c)) => ResurrectInv'
  BY DEF Begin, files, guest, ResurrectInv

\* Restored guests and durable journals, with every fault.
THEOREM ResurrectInvariant ==
    ASSUME ~LaunchGap PROVE Spec => []ResurrectInv
<1>1. Init => ResurrectInv
  BY DEF Init, ResurrectInv
<1>2. TypeOK /\ ControlInv /\ HandoverInv /\ ResurrectInv /\ [Next]_vars => ResurrectInv'
  <2> SUFFICES ASSUME TypeOK, ControlInv, HandoverInv, ResurrectInv, [Next]_vars
               PROVE  ResurrectInv'
      OBVIOUS
  <2>1. CASE UNCHANGED vars
    BY <2>1 DEF vars, ResurrectInv
  <2>2. CASE Next
    BY <2>2, BeginResurrect, RecoverStepResurrect, LifecycleStepResurrect,
       SuspendStepResurrect, ResumeStepResurrect, StartStepResurrect,
       QemuStepResurrect, FaultResurrect
    DEF Next, JmStep
  <2> QED BY <2>1, <2>2
<1> QED BY <1>1, <1>2, TypeCorrect, ControlInvariant, HandoverInvariant, PTL
    DEF Spec

\* A restored guest runs only once the removal of its journal is durable, with
\* every fault: failed syncs, damaged journals, kills and power losses.
THEOREM RestoredGuestIsNotResurrected ==
    ASSUME ~LaunchGap PROVE Spec => []RestoredNeverResurrected
<1>1. ResurrectInv => RestoredNeverResurrected
  BY DEF ResurrectInv, RestoredNeverResurrected
<1> QED BY <1>1, ResurrectInvariant, PTL

-----------------------------------------------------------------------------
(* Durability. *)

\* What is durable after recovery and the repair.
LEMMA RecoverStepDurable ==
    TypeOK /\ ControlInv /\ HandoverInv /\ DurableInv /\ RecoverStep
        => DurableInv'
<1> SUFFICES ASSUME TypeOK, ControlInv, HandoverInv, DurableInv,
                    RecoverStep
             PROVE  DurableInv'
    OBVIOUS
<1> USE DEF DurableInv, QuitIsDurable, HandoverInv, ControlInv, PositionInv,
            Committed, TypeOK, ControlOK, Returns, validImage
<1>1. CASE Recover
  BY <1>1 DEF Recover, Goto, files, removeImagesThen, guest
<1>2. CASE asideSync
  BY <1>2 DEF asideSync, syncDirBestEffort, syncDir, Goto, guest
<1>3. CASE recoverSaved
  BY <1>3 DEF recoverSaved, Goto, Killed
<1>4. CASE savedFp
  BY <1>4 DEF savedFp, Goto, guest
<1>5. CASE savedFpSync
  BY <1>5 DEF savedFpSync, syncDirBestEffort, syncDir, Goto, guest
<1>6. CASE recoverSaving
  BY <1>6 DEF recoverSaving, Goto, Killed
<1>7. CASE savingCont
  BY <1>7 DEF savingCont, contAndConfirm, Goto, files
<1>8. CASE incomingSync
  BY <1>8 DEF incomingSync, syncDir, Goto, guest
<1>9. CASE incomingCont
  BY <1>9 DEF incomingCont, contAndConfirm, Goto, files
<1>10. CASE incomingImages
  BY <1>10 DEF incomingImages, removeImagesThen, Goto, guest
<1>11. CASE incomingKill
  BY <1>11 DEF incomingKill, Killed, Goto
<1>12. CASE killedImages
  BY <1>12 DEF killedImages, removeImagesThen, Goto, guest
<1>13. CASE Repair
  BY <1>13 DEF Repair, Goto, guest
<1>14. CASE repairSuspend
  BY <1>14 DEF repairSuspend, removeImagesThen, Goto, guest
<1>15. CASE discardJournal
  BY <1>15 DEF discardJournal, Goto, guest
<1>16. CASE discardSync
  BY <1>16 DEF discardSync, syncDir, Goto, guest
<1>17. CASE discardImages
  BY <1>17 DEF discardImages, removeImagesThen, Goto, guest
<1> QED BY <1>1, <1>2, <1>3, <1>4, <1>5, <1>6, <1>7, <1>8, <1>9, <1>10, <1>11,
       <1>12, <1>13, <1>14, <1>15, <1>16, <1>17
    DEF RecoverStep

\* What is durable after the dispatch of a command.
LEMMA LifecycleStepDurable ==
    TypeOK /\ ControlInv /\ HandoverInv /\ DurableInv /\ LifecycleStep
        => DurableInv'
<1> SUFFICES ASSUME TypeOK, ControlInv, HandoverInv, DurableInv,
                    LifecycleStep
             PROVE  DurableInv'
    OBVIOUS
<1> USE DEF DurableInv, QuitIsDurable, HandoverInv, ControlInv, PositionInv,
            Committed, TypeOK, ControlOK, Returns, validImage
<1>1. CASE dispatch
  BY <1>1 DEF dispatch, Goto, FromState, Call, files, guest
<1>2. CASE restate
  BY <1>2 DEF restate, FromState, Goto, Call, files, guest
<1>3. CASE stopQemu
  BY <1>3 DEF stopQemu, Killed, Goto, Call
<1> QED BY <1>1, <1>2, <1>3 DEF LifecycleStep

\* What is durable after a suspend.
LEMMA SuspendStepDurable ==
    TypeOK /\ ControlInv /\ HandoverInv /\ DurableInv /\ SuspendStep
        => DurableInv'
<1> SUFFICES ASSUME TypeOK, ControlInv, HandoverInv, DurableInv,
                    SuspendStep
             PROVE  DurableInv'
    OBVIOUS
<1> USE DEF DurableInv, QuitIsDurable, HandoverInv, ControlInv, PositionInv,
            Committed, TypeOK, ControlOK, Returns, validImage
<1>1. CASE PrepareSuspend
  BY <1>1 DEF PrepareSuspend, Goto, guest
<1>2. CASE prepareSync
  BY <1>2 DEF prepareSync, syncDir, Goto, guest
<1>3. CASE quiesce
  BY <1>3 DEF quiesce, Goto, files, guest
<1>4. CASE CommitSuspend
  BY <1>4 DEF CommitSuspend, Goto, files
<1>5. CASE save
  BY <1>5 DEF save, Goto
<1>6. CASE poll
  BY <1>6 DEF poll, Goto, files, guest
<1>7. CASE makeDurable
  BY <1>7 DEF makeDurable, Goto, guest
<1>8. CASE durableSync
  BY <1>8 DEF durableSync, syncDir, Goto, guest
<1>9. CASE commitWrite
  BY <1>9 DEF commitWrite, Goto, guest
<1>10. CASE commitSync
  BY <1>10 DEF commitSync, syncDir, Goto, guest
<1>11. CASE quit
  BY <1>11 DEF quit, KilledBestEffort, Goto
<1>12. CASE fpWrite
  BY <1>12 DEF fpWrite, Goto, guest
<1>13. CASE fpSync
  BY <1>13 DEF fpSync, syncDirBestEffort, syncDir, Goto, guest
<1>14. CASE rollback
  BY <1>14 DEF rollback, Goto, files
<1>15. CASE rbImages
  BY <1>15 DEF rbImages, removeImagesThen, Goto, guest
<1>16. CASE rbCont
  BY <1>16 DEF rbCont, contAndConfirm, Goto, files
<1>17. CASE crashed
  BY <1>17 DEF crashed, Call, guest
<1>18. CASE afterRefusal
  BY <1>18 DEF afterRefusal, Goto, Call, files, guest
<1>19. CASE afterCommitError
  BY <1>19 DEF afterCommitError, Goto, Call, files, guest
<1>20. CASE CancelSuspend
  BY <1>20 DEF CancelSuspend, Goto, Call, files, guest
<1> QED BY <1>1, <1>2, <1>3, <1>4, <1>5, <1>6, <1>7, <1>8, <1>9, <1>10, <1>11,
       <1>12, <1>13, <1>14, <1>15, <1>16, <1>17, <1>18, <1>19, <1>20
    DEF SuspendStep

\* What is durable after a resume.
LEMMA ResumeStepDurable ==
    TypeOK /\ ControlInv /\ HandoverInv /\ DurableInv /\ ResumeStep
        => DurableInv'
<1> SUFFICES ASSUME TypeOK, ControlInv, HandoverInv, DurableInv,
                    ResumeStep
             PROVE  DurableInv'
    OBVIOUS
<1> USE DEF DurableInv, QuitIsDurable, HandoverInv, ControlInv, PositionInv,
            Committed, TypeOK, ControlOK, Returns, validImage
<1>1. CASE Resume
  BY <1>1 DEF Resume, Goto, Incompatible, Call, Launched
<1>2. CASE load
  BY <1>2 DEF load, Goto, files
<1>3. CASE waitLoaded
  BY <1>3 DEF waitLoaded, Goto, files, guest
<1>4. CASE rejected
  BY <1>4 DEF rejected, KilledBestEffort, Incompatible, Call, Goto, Survives
<1>5. CASE transient
  BY <1>5 DEF transient, KilledBestEffort, Goto, Survives
<1>6. CASE resumeUnlink
  BY <1>6 DEF resumeUnlink, Goto, guest
<1>7. CASE resumeSync
  BY <1>7 DEF resumeSync, syncDir, Goto, guest
<1>8. CASE resumeCont
  BY <1>8 DEF resumeCont, contAndConfirm, Goto, files
<1>9. CASE resumeImages
  BY <1>9 DEF resumeImages, removeImagesThen, Goto, guest
<1>10. CASE resumeLeft
  BY <1>10 DEF resumeLeft, Goto, files, guest
<1> QED BY <1>1, <1>2, <1>3, <1>4, <1>5, <1>6, <1>7, <1>8, <1>9, <1>10
    DEF ResumeStep

\* What is durable after a cold boot.
LEMMA StartStepDurable ==
    TypeOK /\ ControlInv /\ HandoverInv /\ DurableInv /\ StartStep
        => DurableInv'
<1> SUFFICES ASSUME TypeOK, ControlInv, HandoverInv, DurableInv,
                    StartStep
             PROVE  DurableInv'
    OBVIOUS
<1> USE DEF DurableInv, QuitIsDurable, HandoverInv, ControlInv, PositionInv,
            Committed, TypeOK, ControlOK, Returns, validImage
<1>1. CASE Start
  BY <1>1 DEF Start, Goto, Call, files, guest
<1>2. CASE coldRemove
  BY <1>2 DEF coldRemove, Goto, removeImagesThen, guest
<1>3. CASE coldLaunch
  BY <1>3 DEF coldLaunch, Goto, Launched
<1>4. CASE waitLaunched
  BY <1>4 DEF waitLaunched, KilledBestEffort, Goto, Survives
<1> QED BY <1>1, <1>2, <1>3, <1>4 DEF StartStep

\* What is durable after QEMU on its own.
LEMMA QemuStepDurable ==
    TypeOK /\ ControlInv /\ HandoverInv /\ DurableInv /\ QemuStep
        => DurableInv'
<1> SUFFICES ASSUME TypeOK, ControlInv, HandoverInv, DurableInv,
                    QemuStep
             PROVE  DurableInv'
    OBVIOUS
<1> USE DEF DurableInv, QuitIsDurable, HandoverInv, ControlInv, PositionInv,
            Committed, TypeOK, ControlOK, Returns, validImage
<1>1. CASE GuestExecutes
  BY <1>1 DEF GuestExecutes, files, ctl
<1>2. CASE MigrationEnds
  BY <1>2 DEF MigrationEnds, ctl
<1>3. CASE LoadEnds
  BY <1>3 DEF LoadEnds, files, ctl
<1>4. CASE QemuDies
  BY <1>4 DEF QemuDies, KilledBestEffort, ctl
<1>5. CASE QemuStarts
  BY <1>5 DEF QemuStarts, ctl
<1> QED BY <1>1, <1>2, <1>3, <1>4, <1>5 DEF QemuStep

\* What is durable after a killed command, a power loss or a damaged
\* journal.
LEMMA FaultDurable ==
    TypeOK /\ ControlInv /\ HandoverInv /\ DurableInv /\ Fault
        => DurableInv'
<1> SUFFICES ASSUME TypeOK, ControlInv, HandoverInv, DurableInv,
                    Fault
             PROVE  DurableInv'
    OBVIOUS
<1> USE DEF DurableInv, QuitIsDurable, HandoverInv, ControlInv, PositionInv,
            Committed, TypeOK, ControlOK, Returns, validImage
<1>1. CASE JmKilled
  BY <1>1 DEF JmKilled, Goto, files, guest
<1>2. CASE PowerFails
  BY <1>2 DEF PowerFails, KilledBestEffort, Goto
<1>3. CASE JournalTurnsBad
  BY <1>3 DEF JournalTurnsBad, guest, ctl
<1> QED BY <1>1, <1>2, <1>3 DEF Fault

\* Taking the lock touches no directory.
LEMMA BeginDurable ==
    DurableInv /\ (\E c \in Commands : Begin(c)) => DurableInv'
  BY DEF Begin, DurableInv, QuitIsDurable

\* What is durable when, directory syncs that fail included.
THEOREM DurableInvariant ==
    ASSUME ~LaunchGap PROVE Spec => []DurableInv
<1>1. Init => DurableInv
  BY DEF Init, DurableInv, QuitIsDurable
<1>2. TypeOK /\ ControlInv /\ HandoverInv /\ DurableInv /\ [Next]_vars => DurableInv'
  <2> SUFFICES ASSUME TypeOK, ControlInv, HandoverInv, DurableInv, [Next]_vars
               PROVE  DurableInv'
      OBVIOUS
  <2>1. CASE UNCHANGED vars
    BY <2>1 DEF vars, DurableInv, QuitIsDurable, validImage
  <2>2. CASE Next
    BY <2>2, BeginDurable, RecoverStepDurable, LifecycleStepDurable,
       SuspendStepDurable, ResumeStepDurable, StartStepDurable,
       QemuStepDurable, FaultDurable
    DEF Next, JmStep
  <2> QED BY <2>1, <2>2
<1> QED BY <1>1, <1>2, TypeCorrect, ControlInvariant, HandoverInvariant, PTL
    DEF Spec

\* The guest's process is ended only once its image survives a power loss, and
\* its journal too unless that very sync has failed (commitSuspend).
THEOREM ProcessEndsDurable ==
    ASSUME ~LaunchGap PROVE Spec => []QuitIsDurable
<1>1. DurableInv => QuitIsDurable
  BY DEF DurableInv
<1> QED BY <1>1, DurableInvariant, PTL

-----------------------------------------------------------------------------
(* Standing guests. *)

\* A guest that stands still is found again after recovery and the repair.
LEMMA RecoverStepStrand ==
    TypeOK /\ ControlInv /\ HandoverInv /\ StrandInv /\ ~BadJournals
    /\ RecoverStep
        => StrandInv'
<1> SUFFICES ASSUME TypeOK, ControlInv, HandoverInv, StrandInv, ~BadJournals,
                    RecoverStep
             PROVE  StrandInv'
    OBVIOUS
<1> USE DEF StrandInv, HandoverInv, Saving, Loading, Empty, Still, ControlInv,
            PositionInv, Tracked, TypeOK, ControlOK, Returns, GuestOK,
            Qemus
<1>1. CASE Recover
  BY <1>1 DEF Recover, Goto, files, removeImagesThen, guest
<1>2. CASE asideSync
  BY <1>2 DEF asideSync, syncDirBestEffort, syncDir, Goto, guest
<1>3. CASE recoverSaved
  BY <1>3 DEF recoverSaved, Goto, Killed, Dead, KillFails
<1>4. CASE savedFp
  BY <1>4 DEF savedFp, writeJournal, Journal, Goto, guest
<1>5. CASE savedFpSync
  BY <1>5 DEF savedFpSync, syncDirBestEffort, syncDir, Goto, guest
<1>6. CASE recoverSaving
  BY <1>6 DEF recoverSaving, Status, Goto, SetRunState, Killed
<1>7. CASE savingCont
  BY <1>7 DEF savingCont, contAndConfirm, SetRunState, Goto, files
<1>8. CASE incomingSync
  BY <1>8 DEF incomingSync, syncDir, Goto, guest
<1>9. CASE incomingCont
  BY <1>9 DEF incomingCont, contAndConfirm, SetRunState, Goto, files
<1>10. CASE incomingImages
  BY <1>10 DEF incomingImages, removeImagesThen, Goto, guest
<1>11. CASE incomingKill
  BY <1>11 DEF incomingKill, Killed, Dead, Goto, KillFails
<1>12. CASE killedImages
  BY <1>12 DEF killedImages, removeImagesThen, Goto, guest
<1>13. CASE Repair
  BY <1>13 DEF Repair, Goto, guest
<1>14. CASE repairSuspend
  BY <1>14 DEF repairSuspend, removeImagesThen, Goto, guest
<1>15. CASE discardJournal
  BY <1>15 DEF discardJournal, writeJournal, NoJournal, Goto, guest
<1>16. CASE discardSync
  BY <1>16 DEF discardSync, syncDir, Goto, guest
<1>17. CASE discardImages
  BY <1>17 DEF discardImages, removeImagesThen, Goto, guest
<1> QED BY <1>1, <1>2, <1>3, <1>4, <1>5, <1>6, <1>7, <1>8, <1>9, <1>10, <1>11,
       <1>12, <1>13, <1>14, <1>15, <1>16, <1>17
    DEF RecoverStep

\* A guest that stands still is found again after the dispatch of a
\* command.
LEMMA LifecycleStepStrand ==
    TypeOK /\ ControlInv /\ HandoverInv /\ StrandInv /\ ~BadJournals
    /\ LifecycleStep
        => StrandInv'
<1> SUFFICES ASSUME TypeOK, ControlInv, HandoverInv, StrandInv, ~BadJournals,
                    LifecycleStep
             PROVE  StrandInv'
    OBVIOUS
<1> USE DEF StrandInv, HandoverInv, Saving, Loading, Empty, Still, ControlInv,
            PositionInv, Tracked, TypeOK, ControlOK, Returns, GuestOK,
            Qemus
<1>1. CASE dispatch
  BY <1>1 DEF dispatch, Goto, FromState, Call, files, guest
<1>2. CASE restate
  BY <1>2 DEF restate, FromState, Goto, Call, files, guest
<1>3. CASE stopQemu
  BY <1>3 DEF stopQemu, Killed, Dead, Goto, KillFails, Call
<1> QED BY <1>1, <1>2, <1>3 DEF LifecycleStep

\* A guest that stands still is found again after a suspend.
LEMMA SuspendStepStrand ==
    TypeOK /\ ControlInv /\ HandoverInv /\ StrandInv /\ ~BadJournals
    /\ SuspendStep
        => StrandInv'
<1> SUFFICES ASSUME TypeOK, ControlInv, HandoverInv, StrandInv, ~BadJournals,
                    SuspendStep
             PROVE  StrandInv'
    OBVIOUS
<1> USE DEF StrandInv, HandoverInv, Saving, Loading, Empty, Still, ControlInv,
            PositionInv, Tracked, TypeOK, ControlOK, Returns, GuestOK,
            Qemus
<1>1. CASE PrepareSuspend
  BY <1>1 DEF PrepareSuspend, writeJournal, Journal, Goto, guest
<1>2. CASE prepareSync
  BY <1>2 DEF prepareSync, syncDir, Goto, guest
<1>3. CASE quiesce
  BY <1>3 DEF quiesce, Goto, files, guest
<1>4. CASE CommitSuspend
  BY <1>4 DEF CommitSuspend, Goto, SetRunState, files
<1>5. CASE save
  BY <1>5 DEF save, SetRunState, Goto
<1>6. CASE poll
  BY <1>6 DEF poll, Goto, files, guest
<1>7. CASE makeDurable
  BY <1>7 DEF makeDurable, Goto, guest
<1>8. CASE durableSync
  BY <1>8 DEF durableSync, syncDir, Goto, guest
<1>9. CASE commitWrite
  BY <1>9 DEF commitWrite, writeJournal, Journal, Goto, guest
<1>10. CASE commitSync
  BY <1>10 DEF commitSync, syncDir, Goto, guest
<1>11. CASE quit
  BY <1>11 DEF quit, KilledBestEffort, Dead, Goto
<1>12. CASE fpWrite
  BY <1>12 DEF fpWrite, writeJournal, Journal, Goto, guest
<1>13. CASE fpSync
  BY <1>13 DEF fpSync, syncDirBestEffort, syncDir, Goto, guest
<1>14. CASE rollback
  BY <1>14 DEF rollback, Goto, SetRunState, files
<1>15. CASE rbImages
  BY <1>15 DEF rbImages, removeImagesThen, Goto, guest
<1>16. CASE rbCont
  BY <1>16 DEF rbCont, contAndConfirm, SetRunState, Goto, files
<1>17. CASE crashed
  BY <1>17 DEF crashed, Call, guest
<1>18. CASE afterRefusal
  BY <1>18 DEF afterRefusal, Goto, Call, files, guest
<1>19. CASE afterCommitError
  BY <1>19 DEF afterCommitError, Goto, Call, files, guest
<1>20. CASE CancelSuspend
  BY <1>20 DEF CancelSuspend, Goto, Call, files, guest
<1> QED BY <1>1, <1>2, <1>3, <1>4, <1>5, <1>6, <1>7, <1>8, <1>9, <1>10, <1>11,
       <1>12, <1>13, <1>14, <1>15, <1>16, <1>17, <1>18, <1>19, <1>20
    DEF SuspendStep

\* A guest that stands still is found again after a resume.
LEMMA ResumeStepStrand ==
    TypeOK /\ ControlInv /\ HandoverInv /\ StrandInv /\ ~BadJournals
    /\ ResumeStep
        => StrandInv'
<1> SUFFICES ASSUME TypeOK, ControlInv, HandoverInv, StrandInv, ~BadJournals,
                    ResumeStep
             PROVE  StrandInv'
    OBVIOUS
<1> USE DEF StrandInv, HandoverInv, Saving, Loading, Empty, Still, ControlInv,
            PositionInv, Tracked, TypeOK, ControlOK, Returns, GuestOK,
            Qemus
<1>1. CASE Resume
  BY <1>1 DEF Resume, Goto, Incompatible, Call, Launched
<1>2. CASE load
  BY <1>2 DEF load, Goto, files
<1>3. CASE waitLoaded
  BY <1>3 DEF waitLoaded, Goto, files, guest
<1>4. CASE rejected
  BY <1>4 DEF rejected, KilledBestEffort, Dead, Incompatible, Call, Goto, Survives
<1>5. CASE transient
  BY <1>5 DEF transient, KilledBestEffort, Dead, Goto, Survives
<1>6. CASE resumeUnlink
  BY <1>6 DEF resumeUnlink, writeJournal, NoJournal, Goto, guest
<1>7. CASE resumeSync
  BY <1>7 DEF resumeSync, syncDir, Goto, guest
<1>8. CASE resumeCont
  BY <1>8 DEF resumeCont, contAndConfirm, SetRunState, Goto, files
<1>9. CASE resumeImages
  BY <1>9 DEF resumeImages, removeImagesThen, Goto, guest
<1>10. CASE resumeLeft
  BY <1>10 DEF resumeLeft, Goto, files, guest
<1> QED BY <1>1, <1>2, <1>3, <1>4, <1>5, <1>6, <1>7, <1>8, <1>9, <1>10
    DEF ResumeStep

\* A guest that stands still is found again after a cold boot.
LEMMA StartStepStrand ==
    TypeOK /\ ControlInv /\ HandoverInv /\ StrandInv /\ ~BadJournals
    /\ StartStep
        => StrandInv'
<1> SUFFICES ASSUME TypeOK, ControlInv, HandoverInv, StrandInv, ~BadJournals,
                    StartStep
             PROVE  StrandInv'
    OBVIOUS
<1> USE DEF StrandInv, HandoverInv, Saving, Loading, Empty, Still, ControlInv,
            PositionInv, Tracked, TypeOK, ControlOK, Returns, GuestOK,
            Qemus
<1>1. CASE Start
  BY <1>1 DEF Start, Goto, Call, files, guest
<1>2. CASE coldRemove
  BY <1>2 DEF coldRemove, Goto, removeImagesThen, guest
<1>3. CASE coldLaunch
  BY <1>3 DEF coldLaunch, Goto, Gone, Launched
<1>4. CASE waitLaunched
  BY <1>4 DEF waitLaunched, KilledBestEffort, Dead, Goto, Survives
<1> QED BY <1>1, <1>2, <1>3, <1>4 DEF StartStep

\* A guest that stands still is found again after QEMU on its own.
LEMMA QemuStepStrand ==
    TypeOK /\ ControlInv /\ HandoverInv /\ StrandInv /\ ~BadJournals /\ QemuStep
        => StrandInv'
<1> SUFFICES ASSUME TypeOK, ControlInv, HandoverInv, StrandInv, ~BadJournals,
                    QemuStep
             PROVE  StrandInv'
    OBVIOUS
<1> USE DEF StrandInv, HandoverInv, Saving, Loading, Empty, Still, ControlInv,
            PositionInv, Tracked, TypeOK, ControlOK, Returns, GuestOK,
            Qemus
<1>1. CASE GuestExecutes
  BY <1>1 DEF GuestExecutes, files, ctl
<1>2. CASE MigrationEnds
  BY <1>2 DEF MigrationEnds, SetRunState, ctl
<1>3. CASE LoadEnds
  BY <1>3 DEF LoadEnds, files, ctl
<1>4. CASE QemuDies
  BY <1>4 DEF QemuDies, KilledBestEffort, Dead, ctl
<1>5. CASE QemuStarts
  BY <1>5 DEF QemuStarts, ctl
<1> QED BY <1>1, <1>2, <1>3, <1>4, <1>5 DEF QemuStep

\* A guest that stands still is found again after a killed command, a
\* power loss or a damaged journal.
LEMMA FaultStrand ==
    TypeOK /\ ControlInv /\ HandoverInv /\ StrandInv /\ ~BadJournals /\ Fault
        => StrandInv'
<1> SUFFICES ASSUME TypeOK, ControlInv, HandoverInv, StrandInv, ~BadJournals,
                    Fault
             PROVE  StrandInv'
    OBVIOUS
<1> USE DEF StrandInv, HandoverInv, Saving, Loading, Empty, Still, ControlInv,
            PositionInv, Tracked, TypeOK, ControlOK, Returns, GuestOK,
            Qemus
<1>1. CASE JmKilled
  BY <1>1 DEF JmKilled, Goto, files, guest
<1>2. CASE PowerFails
  BY <1>2 DEF PowerFails, KilledBestEffort, Dead, Goto
<1>3. CASE JournalTurnsBad
  BY <1>3 DEF JournalTurnsBad, guest, ctl
<1> QED BY <1>1, <1>2, <1>3 DEF Fault

\* Taking the lock leaves the guest as it is.
LEMMA BeginStrand ==
    StrandInv /\ (\E c \in Commands : Begin(c)) => StrandInv'
  BY DEF Begin, files, guest, StrandInv, Loading

\* A guest that stands still is always found again, as long as no journal
\* turns unparseable.
THEOREM StrandInvariant ==
    ASSUME ~LaunchGap, ~BadJournals PROVE Spec => []StrandInv
<1>1. Init => StrandInv
  BY DEF Init, NoJournal, Dead, StrandInv, Loading, Still, Empty
<1>2. TypeOK /\ ControlInv /\ HandoverInv /\ StrandInv /\ [Next]_vars => StrandInv'
  <2> SUFFICES ASSUME TypeOK, ControlInv, HandoverInv, StrandInv, [Next]_vars
               PROVE  StrandInv'
      OBVIOUS
  <2>1. CASE UNCHANGED vars
    BY <2>1 DEF vars, StrandInv
  <2>2. CASE Next
    BY <2>2, BeginStrand, RecoverStepStrand, LifecycleStepStrand,
       SuspendStepStrand, ResumeStepStrand, StartStepStrand,
       QemuStepStrand, FaultStrand
    DEF Next, JmStep
  <2> QED BY <2>1, <2>2
<1> QED BY <1>1, <1>2, TypeCorrect, ControlInvariant, HandoverInvariant, PTL
    DEF Spec

\* A guest that stands still between two commands is one the next command's
\* recovery continues or ends, as long as no journal turns unparseable.
THEOREM NoGuestIsStranded ==
    ASSUME ~LaunchGap, ~BadJournals PROVE Spec => []NoStrandedGuest
<1>1. StrandInv => NoStrandedGuest
  BY DEF StrandInv, NoStrandedGuest, Still
<1> QED BY <1>1, StrandInvariant, PTL
=============================================================================
