-------------------------- MODULE SuspendKeeping ---------------------------
(***************************************************************************)
(* Proofs that the guest's state is kept: a suspend discards no saved      *)
(* state, a command destroys the newest guest state only where it is meant *)
(* to, and the protocol implements the single copy of GuestMemory.         *)
(***************************************************************************)
EXTENDS SuspendProofs, SuspendRefinement

\* Who may be discarding a saved state after recovery and the repair.
LEMMA RecoverStepDiscard ==
    TypeOK /\ ControlInv /\ HandoverInv /\ DiscardInv /\ ~ReadFails
    /\ RecoverStep
        => DiscardInv'
<1> SUFFICES ASSUME TypeOK, ControlInv, HandoverInv, DiscardInv, ~ReadFails,
                    RecoverStep
             PROVE  DiscardInv'
    OBVIOUS
<1> USE DEF DiscardInv, Commands, HandoverInv, Saving, Loading, Empty, Still,
            ControlInv, PositionInv, Tracked, SavedNeverRuns, Gone,
            Uncommitted, Removed, TypeOK, ControlOK, Returns, validImage
<1>1. CASE Recover
  BY <1>1 DEF Recover, Goto, files, removeImagesThen, guest
<1>2. CASE asideSync
  BY <1>2 DEF asideSync, syncDirBestEffort, syncDir, Goto, guest
<1>3. CASE recoverSaved
  BY <1>3 DEF recoverSaved, Status, Goto, Killed
<1>4. CASE savedFp
  BY <1>4 DEF savedFp, Goto, guest
<1>5. CASE savedFpSync
  BY <1>5 DEF savedFpSync, syncDirBestEffort, syncDir, Goto, guest
<1>6. CASE recoverSaving
  BY <1>6 DEF recoverSaving, Goto, Killed
<1>7. CASE savingCont
  BY <1>7 DEF savingCont, contAndConfirm, Goto, files
<1>8. CASE incomingSync
  BY <1>8 DEF incomingSync, syncDir, Goto, guest
<1>9. CASE incomingCont
  BY <1>9 DEF incomingCont, contAndConfirm, Goto, files
<1>10. CASE incomingImages
  BY <1>10 DEF incomingImages, removeImagesThen, Goto, guest
<1>11. CASE incomingKill
  BY <1>11 DEF incomingKill, Killed, Goto
<1>12. CASE killedImages
  BY <1>12 DEF killedImages, removeImagesThen, Goto, guest
<1>13. CASE Repair
  BY <1>13 DEF Repair, Goto, guest
<1>14. CASE repairSuspend
  BY <1>14 DEF repairSuspend, removeImagesThen, Goto, guest
<1>15. CASE discardJournal
  BY <1>15 DEF discardJournal, Goto, guest
<1>16. CASE discardSync
  BY <1>16 DEF discardSync, syncDir, Goto, guest
<1>17. CASE discardImages
  BY <1>17 DEF discardImages, removeImagesThen, Goto, guest
<1> QED BY <1>1, <1>2, <1>3, <1>4, <1>5, <1>6, <1>7, <1>8, <1>9, <1>10, <1>11,
       <1>12, <1>13, <1>14, <1>15, <1>16, <1>17
    DEF RecoverStep

\* Who may be discarding a saved state after the dispatch of a command.
LEMMA LifecycleStepDiscard ==
    TypeOK /\ ControlInv /\ HandoverInv /\ DiscardInv /\ ~ReadFails
    /\ LifecycleStep
        => DiscardInv'
<1> SUFFICES ASSUME TypeOK, ControlInv, HandoverInv, DiscardInv, ~ReadFails,
                    LifecycleStep
             PROVE  DiscardInv'
    OBVIOUS
<1> USE DEF DiscardInv, Commands, HandoverInv, Saving, Loading, Empty, Still,
            ControlInv, PositionInv, Tracked, SavedNeverRuns, Gone,
            Uncommitted, Removed, TypeOK, ControlOK, Returns, validImage
<1>1. CASE dispatch
  BY <1>1 DEF dispatch, Goto, FromState, Call, files, guest
<1>2. CASE restate
  BY <1>2 DEF restate, FromState, Goto, Call, files, guest
<1>3. CASE stopQemu
  BY <1>3 DEF stopQemu, Killed, Goto, Call
<1> QED BY <1>1, <1>2, <1>3 DEF LifecycleStep

\* Who may be discarding a saved state after a suspend.
LEMMA SuspendStepDiscard ==
    TypeOK /\ ControlInv /\ HandoverInv /\ DiscardInv /\ ~ReadFails
    /\ SuspendStep
        => DiscardInv'
<1> SUFFICES ASSUME TypeOK, ControlInv, HandoverInv, DiscardInv, ~ReadFails,
                    SuspendStep
             PROVE  DiscardInv'
    OBVIOUS
<1> USE DEF DiscardInv, Commands, HandoverInv, Saving, Loading, Empty, Still,
            ControlInv, PositionInv, Tracked, SavedNeverRuns, Gone,
            Uncommitted, Removed, TypeOK, ControlOK, Returns, validImage
<1>1. CASE PrepareSuspend
  BY <1>1 DEF PrepareSuspend, Goto, guest
<1>2. CASE prepareSync
  BY <1>2 DEF prepareSync, syncDir, Goto, guest
<1>3. CASE quiesce
  BY <1>3 DEF quiesce, Goto, files, guest
<1>4. CASE CommitSuspend
  BY <1>4 DEF CommitSuspend, Goto, files
<1>5. CASE save
  BY <1>5 DEF save, Goto
<1>6. CASE poll
  BY <1>6 DEF poll, Goto, files, guest
<1>7. CASE makeDurable
  BY <1>7 DEF makeDurable, Goto, guest
<1>8. CASE durableSync
  BY <1>8 DEF durableSync, syncDir, Goto, guest
<1>9. CASE commitWrite
  BY <1>9 DEF commitWrite, Goto, guest
<1>10. CASE commitSync
  BY <1>10 DEF commitSync, syncDir, Goto, guest
<1>11. CASE quit
  BY <1>11 DEF quit, KilledBestEffort, Goto
<1>12. CASE fpWrite
  BY <1>12 DEF fpWrite, Goto, guest
<1>13. CASE fpSync
  BY <1>13 DEF fpSync, syncDirBestEffort, syncDir, Goto, guest
<1>14. CASE rollback
  BY <1>14 DEF rollback, Goto, files
<1>15. CASE rbImages
  BY <1>15 DEF rbImages, removeImagesThen, Goto, guest
<1>16. CASE rbCont
  BY <1>16 DEF rbCont, contAndConfirm, Goto, files
<1>17. CASE crashed
  BY <1>17 DEF crashed, Call, guest
<1>18. CASE afterRefusal
  BY <1>18 DEF afterRefusal, Goto, Call, files, guest
<1>19. CASE afterCommitError
  BY <1>19 DEF afterCommitError, Goto, Call, Unreadable, files, guest
<1>20. CASE CancelSuspend
  BY <1>20 DEF CancelSuspend, Goto, Call, files, guest
<1> QED BY <1>1, <1>2, <1>3, <1>4, <1>5, <1>6, <1>7, <1>8, <1>9, <1>10, <1>11,
       <1>12, <1>13, <1>14, <1>15, <1>16, <1>17, <1>18, <1>19, <1>20
    DEF SuspendStep

\* Who may be discarding a saved state after a resume.
LEMMA ResumeStepDiscard ==
    TypeOK /\ ControlInv /\ HandoverInv /\ DiscardInv /\ ~ReadFails
    /\ ResumeStep
        => DiscardInv'
<1> SUFFICES ASSUME TypeOK, ControlInv, HandoverInv, DiscardInv, ~ReadFails,
                    ResumeStep
             PROVE  DiscardInv'
    OBVIOUS
<1> USE DEF DiscardInv, Commands, HandoverInv, Saving, Loading, Empty, Still,
            ControlInv, PositionInv, Tracked, SavedNeverRuns, Gone,
            Uncommitted, Removed, TypeOK, ControlOK, Returns, validImage
<1>1. CASE Resume
  BY <1>1 DEF Resume, Goto, Incompatible, Call, Launched
<1>2. CASE load
  BY <1>2 DEF load, Goto, files
<1>3. CASE waitLoaded
  BY <1>3 DEF waitLoaded, Goto, files, guest
<1>4. CASE rejected
  BY <1>4 DEF rejected, KilledBestEffort, Incompatible, Call, Goto, Survives
<1>5. CASE transient
  BY <1>5 DEF transient, KilledBestEffort, Goto, Survives
<1>6. CASE resumeUnlink
  BY <1>6 DEF resumeUnlink, Goto, guest
<1>7. CASE resumeSync
  BY <1>7 DEF resumeSync, syncDir, Goto, guest
<1>8. CASE resumeCont
  BY <1>8 DEF resumeCont, contAndConfirm, Goto, files
<1>9. CASE resumeImages
  BY <1>9 DEF resumeImages, removeImagesThen, Goto, guest
<1>10. CASE resumeLeft
  BY <1>10 DEF resumeLeft, Goto, files, guest
<1> QED BY <1>1, <1>2, <1>3, <1>4, <1>5, <1>6, <1>7, <1>8, <1>9, <1>10
    DEF ResumeStep

\* Who may be discarding a saved state after a cold boot.
LEMMA StartStepDiscard ==
    TypeOK /\ ControlInv /\ HandoverInv /\ DiscardInv /\ ~ReadFails /\ StartStep
        => DiscardInv'
<1> SUFFICES ASSUME TypeOK, ControlInv, HandoverInv, DiscardInv, ~ReadFails,
                    StartStep
             PROVE  DiscardInv'
    OBVIOUS
<1> USE DEF DiscardInv, Commands, HandoverInv, Saving, Loading, Empty, Still,
            ControlInv, PositionInv, Tracked, SavedNeverRuns, Gone,
            Uncommitted, Removed, TypeOK, ControlOK, Returns, validImage
<1>1. CASE Start
  BY <1>1 DEF Start, Goto, Call, files, guest
<1>2. CASE coldRemove
  BY <1>2 DEF coldRemove, Goto, removeImagesThen, guest
<1>3. CASE coldLaunch
  BY <1>3 DEF coldLaunch, Goto, Launched
<1>4. CASE waitLaunched
  BY <1>4 DEF waitLaunched, KilledBestEffort, Goto, Survives
<1> QED BY <1>1, <1>2, <1>3, <1>4 DEF StartStep

\* Who may be discarding a saved state after QEMU on its own.
LEMMA QemuStepDiscard ==
    TypeOK /\ ControlInv /\ HandoverInv /\ DiscardInv /\ ~ReadFails /\ QemuStep
        => DiscardInv'
<1> SUFFICES ASSUME TypeOK, ControlInv, HandoverInv, DiscardInv, ~ReadFails,
                    QemuStep
             PROVE  DiscardInv'
    OBVIOUS
<1> USE DEF DiscardInv, Commands, HandoverInv, Saving, Loading, Empty, Still,
            ControlInv, PositionInv, Tracked, SavedNeverRuns, Gone,
            Uncommitted, Removed, TypeOK, ControlOK, Returns, validImage
<1>1. CASE GuestExecutes
  BY <1>1 DEF GuestExecutes, files, ctl
<1>2. CASE MigrationEnds
  BY <1>2 DEF MigrationEnds, ctl
<1>3. CASE LoadEnds
  BY <1>3 DEF LoadEnds, files, ctl
<1>4. CASE QemuDies
  BY <1>4 DEF QemuDies, KilledBestEffort, ctl
<1>5. CASE QemuStarts
  BY <1>5 DEF QemuStarts, ctl
<1> QED BY <1>1, <1>2, <1>3, <1>4, <1>5 DEF QemuStep

\* Who may be discarding a saved state after a killed command, a power
\* loss or a damaged journal.
LEMMA FaultDiscard ==
    TypeOK /\ ControlInv /\ HandoverInv /\ DiscardInv /\ ~ReadFails /\ Fault
        => DiscardInv'
<1> SUFFICES ASSUME TypeOK, ControlInv, HandoverInv, DiscardInv, ~ReadFails,
                    Fault
             PROVE  DiscardInv'
    OBVIOUS
<1> USE DEF DiscardInv, Commands, HandoverInv, Saving, Loading, Empty, Still,
            ControlInv, PositionInv, Tracked, SavedNeverRuns, Gone,
            Uncommitted, Removed, TypeOK, ControlOK, Returns, validImage
<1>1. CASE JmKilled
  BY <1>1 DEF JmKilled, Goto, files, guest
<1>2. CASE PowerFails
  BY <1>2 DEF PowerFails, KilledBestEffort, Goto
<1>3. CASE JournalTurnsBad
  BY <1>3 DEF JournalTurnsBad, guest, ctl
<1> QED BY <1>1, <1>2, <1>3 DEF Fault

\* A command that begins discards nothing yet.
LEMMA BeginDiscard ==
    DiscardInv /\ (\E c \in Commands : Begin(c)) => DiscardInv'
  BY DEF Begin, files, guest, DiscardInv, Loading, Commands

\* Who may discard a saved state, as long as an existing journal can be read.
THEOREM DiscardInvariant ==
    ASSUME ~LaunchGap, ~ReadFails PROVE Spec => []DiscardInv
<1>1. Init => DiscardInv
  BY DEF Init, DiscardInv, Loading
<1>2. TypeOK /\ ControlInv /\ HandoverInv /\ DiscardInv /\ [Next]_vars => DiscardInv'
  <2> SUFFICES ASSUME TypeOK, ControlInv, HandoverInv, DiscardInv, [Next]_vars
               PROVE  DiscardInv'
      OBVIOUS
  <2>1. CASE UNCHANGED vars
    BY <2>1 DEF vars, DiscardInv, validImage
  <2>2. CASE Next
    BY <2>2, BeginDiscard, RecoverStepDiscard, LifecycleStepDiscard,
       SuspendStepDiscard, ResumeStepDiscard, StartStepDiscard,
       QemuStepDiscard, FaultDiscard
    DEF Next, JmStep
  <2> QED BY <2>1, <2>2
<1> QED BY <1>1, <1>2, TypeCorrect, ControlInvariant, HandoverInvariant, PTL
    DEF Spec

\* A suspend never discards a saved state that can be resumed, as long as an
\* existing journal can be read (CancelSuspend, afterCommitError).
THEOREM SuspendDiscardsNothing ==
    ASSUME ~LaunchGap, ~ReadFails PROVE Spec => []SuspendKeepsSaved
<1>1. DiscardInv => SuspendKeepsSaved
  BY DEF DiscardInv, SuspendKeepsSaved
<1> QED BY <1>1, DiscardInvariant, PTL

-----------------------------------------------------------------------------
(* The newest guest state. *)

\* The copies of the newest guest after recovery and the repair.
LEMMA RecoverStepCopies ==
    TypeOK /\ ControlInv /\ HandoverInv /\ CopiesInv /\ ~ReadFails
    /\ ~BadJournals /\ RecoverStep
        => CopiesInv'
<1> SUFFICES ASSUME TypeOK, ControlInv, HandoverInv, CopiesInv, ~ReadFails,
                    ~BadJournals, RecoverStep
             PROVE  CopiesInv'
    OBVIOUS
<1> USE DEF CopiesInv, HandoverInv, Empty, ControlInv, PositionInv,
            Tracked, SavedNeverRuns, Frozen, Uncommitted, Removed,
            Committed, TypeOK, ControlOK, Returns, validImage, GuestOK, Qemus,
            Absent
<1>1. CASE Recover
  BY <1>1
  DEF Recover, Goto, files, removeImagesThen, Status, writeJournal, NoJournal,
      guest
<1>2. CASE asideSync
  BY <1>2 DEF asideSync, syncDirBestEffort, syncDir, Goto, guest
<1>3. CASE recoverSaved
  BY <1>3, ConstantsAssumption
  DEF recoverSaved, Goto, Killed, Dead, KillFails, Versions, Partial
<1>4. CASE savedFp
  BY <1>4 DEF savedFp, writeJournal, Journal, Goto, guest
<1>5. CASE savedFpSync
  BY <1>5 DEF savedFpSync, syncDirBestEffort, syncDir, Goto, guest
<1>6. CASE recoverSaving
  BY <1>6 DEF recoverSaving, Goto, SetRunState, Killed, Dead, KillFails
<1>7. CASE savingCont
  BY <1>7 DEF savingCont, contAndConfirm, SetRunState, Goto, files
<1>8. CASE incomingSync
  BY <1>8 DEF incomingSync, syncDir, Goto, guest
<1>9. CASE incomingCont
  BY <1>9 DEF incomingCont, contAndConfirm, SetRunState, Goto, files
<1>10. CASE incomingImages
  BY <1>10 DEF incomingImages, removeImagesThen, Goto, guest
<1>11. CASE incomingKill
  BY <1>11 DEF incomingKill, Killed, Goto
<1>12. CASE killedImages
  BY <1>12 DEF killedImages, removeImagesThen, Goto, guest
<1>13. CASE Repair
  BY <1>13 DEF Repair, Goto, guest
<1>14. CASE repairSuspend
  BY <1>14 DEF repairSuspend, removeImagesThen, Goto, guest
<1>15. CASE discardJournal
  BY <1>15 DEF discardJournal, writeJournal, NoJournal, Goto, guest
<1>16. CASE discardSync
  BY <1>16 DEF discardSync, syncDir, Goto, guest
<1>17. CASE discardImages
  BY <1>17 DEF discardImages, removeImagesThen, Goto, guest
<1> QED BY <1>1, <1>2, <1>3, <1>4, <1>5, <1>6, <1>7, <1>8, <1>9, <1>10, <1>11,
       <1>12, <1>13, <1>14, <1>15, <1>16, <1>17
    DEF RecoverStep

\* The copies of the newest guest after the dispatch of a command.
LEMMA LifecycleStepCopies ==
    TypeOK /\ ControlInv /\ HandoverInv /\ CopiesInv /\ ~ReadFails
    /\ ~BadJournals /\ LifecycleStep
        => CopiesInv'
<1> SUFFICES ASSUME TypeOK, ControlInv, HandoverInv, CopiesInv, ~ReadFails,
                    ~BadJournals, LifecycleStep
             PROVE  CopiesInv'
    OBVIOUS
<1> USE DEF CopiesInv, HandoverInv, Empty, ControlInv, PositionInv,
            Tracked, SavedNeverRuns, Frozen, Uncommitted, Removed,
            Committed, TypeOK, ControlOK, Returns, validImage, GuestOK, Qemus,
            Absent
<1>1. CASE dispatch
  BY <1>1 DEF dispatch, Goto, FromState, Call, files, guest
<1>2. CASE restate
  BY <1>2 DEF restate, FromState, Goto, Call, files, guest
<1>3. CASE stopQemu
  BY <1>3, ConstantsAssumption
  DEF stopQemu, Killed, Dead, Goto, KillFails, Call, Versions, Partial
<1> QED BY <1>1, <1>2, <1>3 DEF LifecycleStep

\* The copies of the newest guest after a suspend.
LEMMA SuspendStepCopies ==
    TypeOK /\ ControlInv /\ HandoverInv /\ CopiesInv /\ ~ReadFails
    /\ ~BadJournals /\ SuspendStep
        => CopiesInv'
<1> SUFFICES ASSUME TypeOK, ControlInv, HandoverInv, CopiesInv, ~ReadFails,
                    ~BadJournals, SuspendStep
             PROVE  CopiesInv'
    OBVIOUS
<1> USE DEF CopiesInv, HandoverInv, Empty, ControlInv, PositionInv,
            Tracked, SavedNeverRuns, Frozen, Uncommitted, Removed,
            Committed, TypeOK, ControlOK, Returns, validImage, GuestOK, Qemus,
            Absent
<1>1. CASE PrepareSuspend
  BY <1>1 DEF PrepareSuspend, writeJournal, Journal, Goto, guest
<1>2. CASE prepareSync
  BY <1>2 DEF prepareSync, syncDir, Goto, guest
<1>3. CASE quiesce
  BY <1>3 DEF quiesce, Goto, files, guest
<1>4. CASE CommitSuspend
  BY <1>4 DEF CommitSuspend, Goto, SetRunState, files
<1>5. CASE save
  BY <1>5, ConstantsAssumption DEF save, SetRunState, Goto, Versions, Partial
<1>6. CASE poll
  BY <1>6 DEF poll, Goto, files, guest
<1>7. CASE makeDurable
  BY <1>7 DEF makeDurable, Goto, guest
<1>8. CASE durableSync
  BY <1>8 DEF durableSync, syncDir, Goto, guest
<1>9. CASE commitWrite
  BY <1>9, ConstantsAssumption DEF commitWrite, Goto, guest, Versions, Partial
<1>10. CASE commitSync
  BY <1>10 DEF commitSync, syncDir, Goto, guest
<1>11. CASE quit
  BY <1>11, ConstantsAssumption
  DEF quit, KilledBestEffort, Dead, Goto, Versions, Partial
<1>12. CASE fpWrite
  BY <1>12 DEF fpWrite, writeJournal, Journal, Goto, guest
<1>13. CASE fpSync
  BY <1>13 DEF fpSync, syncDirBestEffort, syncDir, Goto, guest
<1>14. CASE rollback
  BY <1>14 DEF rollback, Goto, SetRunState, files
<1>15. CASE rbImages
  BY <1>15 DEF rbImages, removeImagesThen, Goto, guest
<1>16. CASE rbCont
  BY <1>16 DEF rbCont, contAndConfirm, SetRunState, Goto, files
<1>17. CASE crashed
  BY <1>17 DEF crashed, Call, guest
<1>18. CASE afterRefusal
  BY <1>18 DEF afterRefusal, Goto, Call, files, guest
<1>19. CASE afterCommitError
  BY <1>19 DEF afterCommitError, Goto, Call, files, guest
<1>20. CASE CancelSuspend
  BY <1>20 DEF CancelSuspend, Goto, Call, files, guest
<1> QED BY <1>1, <1>2, <1>3, <1>4, <1>5, <1>6, <1>7, <1>8, <1>9, <1>10, <1>11,
       <1>12, <1>13, <1>14, <1>15, <1>16, <1>17, <1>18, <1>19, <1>20
    DEF SuspendStep

\* The copies of the newest guest after a resume.
LEMMA ResumeStepCopies ==
    TypeOK /\ ControlInv /\ HandoverInv /\ CopiesInv /\ ~ReadFails
    /\ ~BadJournals /\ ResumeStep
        => CopiesInv'
<1> SUFFICES ASSUME TypeOK, ControlInv, HandoverInv, CopiesInv, ~ReadFails,
                    ~BadJournals, ResumeStep
             PROVE  CopiesInv'
    OBVIOUS
<1> USE DEF CopiesInv, HandoverInv, Empty, ControlInv, PositionInv,
            Tracked, SavedNeverRuns, Frozen, Uncommitted, Removed,
            Committed, TypeOK, ControlOK, Returns, validImage, GuestOK, Qemus,
            Absent
<1>1. CASE Resume
  BY <1>1 DEF Resume, Goto, Alive, Incompatible, Call, Launched
<1>2. CASE load
  BY <1>2 DEF load, SetRunState, Goto, files
<1>3. CASE waitLoaded
  BY <1>3 DEF waitLoaded, Goto, files, guest
<1>4. CASE rejected
  BY <1>4, ConstantsAssumption
  DEF rejected, KilledBestEffort, Dead, Incompatible, Call, Goto, Versions,
      Partial, Survives
<1>5. CASE transient
  BY <1>5, ConstantsAssumption
  DEF transient, KilledBestEffort, Dead, Goto, Versions, Partial, Survives
<1>6. CASE resumeUnlink
  BY <1>6 DEF resumeUnlink, writeJournal, NoJournal, Goto, guest
<1>7. CASE resumeSync
  BY <1>7 DEF resumeSync, syncDir, Goto, guest
<1>8. CASE resumeCont
  BY <1>8 DEF resumeCont, contAndConfirm, SetRunState, Goto, files
<1>9. CASE resumeImages
  BY <1>9 DEF resumeImages, removeImagesThen, Goto, guest
<1>10. CASE resumeLeft
  BY <1>10 DEF resumeLeft, Goto, files, guest
<1> QED BY <1>1, <1>2, <1>3, <1>4, <1>5, <1>6, <1>7, <1>8, <1>9, <1>10
    DEF ResumeStep

\* The copies of the newest guest after a cold boot.
LEMMA StartStepCopies ==
    TypeOK /\ ControlInv /\ HandoverInv /\ CopiesInv /\ ~ReadFails
    /\ ~BadJournals /\ StartStep
        => CopiesInv'
<1> SUFFICES ASSUME TypeOK, ControlInv, HandoverInv, CopiesInv, ~ReadFails,
                    ~BadJournals, StartStep
             PROVE  CopiesInv'
    OBVIOUS
<1> USE DEF CopiesInv, HandoverInv, Empty, ControlInv, PositionInv,
            Tracked, SavedNeverRuns, Frozen, Uncommitted, Removed,
            Committed, TypeOK, ControlOK, Returns, validImage, GuestOK, Qemus,
            Absent
<1>1. CASE Start
  BY <1>1 DEF Start, Goto, Call, files, guest
<1>2. CASE coldRemove
  BY <1>2 DEF coldRemove, Goto, removeImagesThen, guest
<1>3. CASE coldLaunch
  BY <1>3 DEF coldLaunch, Goto, Launched
<1>4. CASE waitLaunched
  BY <1>4, ConstantsAssumption
  DEF waitLaunched, KilledBestEffort, Dead, Goto, Versions, Partial, Survives
<1> QED BY <1>1, <1>2, <1>3, <1>4 DEF StartStep

\* The copies of the newest guest after QEMU on its own.
LEMMA QemuStepCopies ==
    TypeOK /\ ControlInv /\ HandoverInv /\ CopiesInv /\ ~ReadFails
    /\ ~BadJournals /\ QemuStep
        => CopiesInv'
<1> SUFFICES ASSUME TypeOK, ControlInv, HandoverInv, CopiesInv, ~ReadFails,
                    ~BadJournals, QemuStep
             PROVE  CopiesInv'
    OBVIOUS
<1> USE DEF CopiesInv, HandoverInv, Empty, ControlInv, PositionInv,
            Tracked, SavedNeverRuns, Frozen, Uncommitted, Removed,
            Committed, TypeOK, ControlOK, Returns, validImage, GuestOK, Qemus,
            Absent
<1>1. CASE GuestExecutes
  BY <1>1 DEF GuestExecutes, files, ctl
<1>2. CASE MigrationEnds
  BY <1>2 DEF MigrationEnds, SetRunState, ctl
<1>3. CASE LoadEnds
  BY <1>3 DEF LoadEnds, SetRunState, files, ctl
<1>4. CASE QemuDies
  BY <1>4, ConstantsAssumption
  DEF QemuDies, KilledBestEffort, Dead, ctl, Versions, Partial
<1>5. CASE QemuStarts
  BY <1>5, ConstantsAssumption
  DEF QemuStarts, ctl, Versions, Partial
<1> QED BY <1>1, <1>2, <1>3, <1>4, <1>5 DEF QemuStep

\* The copies of the newest guest after a killed command, a power loss or
\* a damaged journal.
LEMMA FaultCopies ==
    TypeOK /\ ControlInv /\ HandoverInv /\ CopiesInv /\ ~ReadFails
    /\ ~BadJournals /\ Fault
        => CopiesInv'
<1> SUFFICES ASSUME TypeOK, ControlInv, HandoverInv, CopiesInv, ~ReadFails,
                    ~BadJournals, Fault
             PROVE  CopiesInv'
    OBVIOUS
<1> USE DEF CopiesInv, HandoverInv, Empty, ControlInv, PositionInv,
            Tracked, SavedNeverRuns, Frozen, Uncommitted, Removed,
            Committed, TypeOK, ControlOK, Returns, validImage, GuestOK, Qemus,
            Absent
<1>1. CASE JmKilled
  BY <1>1 DEF JmKilled, Goto, files, guest
<1>2. CASE PowerFails
  BY <1>2, ConstantsAssumption
  DEF PowerFails, KilledBestEffort, Dead, Goto, Versions, Partial
<1>3. CASE JournalTurnsBad
  BY <1>3 DEF JournalTurnsBad, guest, ctl
<1> QED BY <1>1, <1>2, <1>3 DEF Fault

\* Taking the lock copies nothing.
LEMMA BeginCopies ==
    CopiesInv /\ (\E c \in Commands : Begin(c)) => CopiesInv'
  BY DEF Begin, files, guest, CopiesInv

\* The copies of the newest guest, across power losses and failed syncs, as
\* long as journals can be read and parsed.
THEOREM CopiesInvariant ==
    ASSUME ~LaunchGap, ~ReadFails, ~BadJournals PROVE Spec => []CopiesInv
<1>1. Init => CopiesInv
  BY DEF Init, NoJournal, Dead, CopiesInv, Empty
<1>2. TypeOK /\ ControlInv /\ HandoverInv /\ CopiesInv /\ [Next]_vars => CopiesInv'
  <2> SUFFICES ASSUME TypeOK, ControlInv, HandoverInv, CopiesInv, [Next]_vars
               PROVE  CopiesInv'
      OBVIOUS
  <2>1. CASE UNCHANGED vars
    BY <2>1 DEF vars, CopiesInv
  <2>2. CASE Next
    BY <2>2, BeginCopies, RecoverStepCopies, LifecycleStepCopies,
       SuspendStepCopies, ResumeStepCopies, StartStepCopies,
       QemuStepCopies, FaultCopies
    DEF Next, JmStep
  <2> QED BY <2>1, <2>2
<1> QED BY <1>1, <1>2, TypeCorrect, ControlInvariant, HandoverInvariant, PTL
    DEF Spec

\* What may destroy the newest guest state: a stop, a boot that failed, a
\* broken network, a saved state that cannot be restored, a restored guest
\* that died before its journal went.
MayLose ==
    \/ cmd \in {"stop", "kill"}
    \/ pc \in {"stopQemu", "coldWait"}
    \/ pc = "discardJournal" /\ ret.ok = "coldStart"
    \/ pc = "resumeUnlink" /\ qemu.st = "none"

\* A step of recovery and the repair that may not lose the newest guest
\* state keeps it.
LEMMA RecoverStepKept ==
    TypeOK /\ ControlInv /\ HandoverInv /\ DiscardInv /\ CopiesInv
    /\ ~ReadFails /\ Kept /\ ~MayLose /\ RecoverStep
        => Kept'
<1> SUFFICES ASSUME TypeOK, ControlInv, HandoverInv, DiscardInv, CopiesInv,
                    ~ReadFails, Kept, ~MayLose, RecoverStep
             PROVE  Kept'
    OBVIOUS
<1> USE DEF Kept, MayLose, DiscardInv, CopiesInv, HandoverInv, Saving,
            Loading, Empty, ControlInv, PositionInv, Removed, Committed,
            TypeOK, validImage, GuestOK, Qemus
<1>1. CASE Recover
  BY <1>1 DEF Recover, Goto, files, removeImagesThen, guest
<1>2. CASE asideSync
  BY <1>2 DEF asideSync, syncDir, Goto, guest
<1>3. CASE recoverSaved
  BY <1>3 DEF recoverSaved, Goto, Killed, Dead, KillFails
<1>4. CASE savedFp
  BY <1>4 DEF savedFp, writeJournal, Journal, Goto, guest
<1>5. CASE savedFpSync
  BY <1>5 DEF savedFpSync, syncDir, Goto, guest
<1>6. CASE recoverSaving
  BY <1>6
  DEF recoverSaving, Status, Goto, SetRunState, Killed, Dead, KillFails
<1>7. CASE savingCont
  BY <1>7 DEF savingCont, contAndConfirm, SetRunState, Goto, files
<1>8. CASE incomingSync
  BY <1>8 DEF incomingSync, syncDir, Goto, guest
<1>9. CASE incomingCont
  BY <1>9 DEF incomingCont, contAndConfirm, SetRunState, Goto, files
<1>10. CASE incomingImages
  BY <1>10 DEF incomingImages, removeImagesThen, Goto, guest
<1>11. CASE incomingKill
  BY <1>11 DEF incomingKill, Killed, Goto
<1>12. CASE killedImages
  BY <1>12 DEF killedImages, removeImagesThen, Goto, guest
<1>13. CASE Repair
  BY <1>13 DEF Repair, Goto, guest
<1>14. CASE repairSuspend
  BY <1>14 DEF repairSuspend, removeImagesThen, Goto, guest
<1>15. CASE discardJournal
  BY <1>15 DEF discardJournal, Goto, guest
<1>16. CASE discardSync
  BY <1>16 DEF discardSync, syncDir, Goto, guest
<1>17. CASE discardImages
  BY <1>17 DEF discardImages, removeImagesThen, Goto, guest
<1> QED BY <1>1, <1>2, <1>3, <1>4, <1>5, <1>6, <1>7, <1>8, <1>9, <1>10, <1>11,
       <1>12, <1>13, <1>14, <1>15, <1>16, <1>17
    DEF RecoverStep

\* A step of the dispatch of a command that may not lose the newest guest
\* state keeps it.
LEMMA LifecycleStepKept ==
    TypeOK /\ ControlInv /\ HandoverInv /\ DiscardInv /\ CopiesInv
    /\ ~ReadFails /\ Kept /\ ~MayLose /\ LifecycleStep
        => Kept'
<1> SUFFICES ASSUME TypeOK, ControlInv, HandoverInv, DiscardInv, CopiesInv,
                    ~ReadFails, Kept, ~MayLose, LifecycleStep
             PROVE  Kept'
    OBVIOUS
<1> USE DEF Kept, MayLose, DiscardInv, CopiesInv, HandoverInv, Saving,
            Loading, Empty, ControlInv, PositionInv, Removed, Committed,
            TypeOK, validImage, GuestOK, Qemus
<1>1. CASE dispatch
  BY <1>1 DEF dispatch, Goto, FromState, Call, files, guest
<1>2. CASE restate
  BY <1>2 DEF restate, FromState, Goto, Call, files, guest
<1>3. CASE stopQemu
  BY <1>3 DEF stopQemu, Killed, Goto, Call
<1> QED BY <1>1, <1>2, <1>3 DEF LifecycleStep

\* A step of a suspend that may not lose the newest guest state keeps it.
LEMMA SuspendStepKept ==
    TypeOK /\ ControlInv /\ HandoverInv /\ DiscardInv /\ CopiesInv
    /\ ~ReadFails /\ Kept /\ ~MayLose /\ SuspendStep
        => Kept'
<1> SUFFICES ASSUME TypeOK, ControlInv, HandoverInv, DiscardInv, CopiesInv,
                    ~ReadFails, Kept, ~MayLose, SuspendStep
             PROVE  Kept'
    OBVIOUS
<1> USE DEF Kept, MayLose, DiscardInv, CopiesInv, HandoverInv, Saving,
            Loading, Empty, ControlInv, PositionInv, Removed, Committed,
            TypeOK, validImage, GuestOK, Qemus
<1>1. CASE PrepareSuspend
  BY <1>1 DEF PrepareSuspend, Goto, guest
<1>2. CASE prepareSync
  BY <1>2 DEF prepareSync, syncDir, Goto, guest
<1>3. CASE quiesce
  BY <1>3 DEF quiesce, Goto, files, guest
<1>4. CASE CommitSuspend
  BY <1>4 DEF CommitSuspend, Goto, SetRunState, files
<1>5. CASE save
  BY <1>5 DEF save, SetRunState, Goto
<1>6. CASE poll
  BY <1>6 DEF poll, Goto, files, guest
<1>7. CASE makeDurable
  BY <1>7 DEF makeDurable, Goto, guest
<1>8. CASE durableSync
  BY <1>8 DEF durableSync, syncDir, Goto, guest
<1>9. CASE commitWrite
  BY <1>9 DEF commitWrite, Goto, guest
<1>10. CASE commitSync
  BY <1>10 DEF commitSync, syncDir, Goto, guest
<1>11. CASE quit
  BY <1>11 DEF quit, KilledBestEffort, Dead, Goto
<1>12. CASE fpWrite
  BY <1>12 DEF fpWrite, writeJournal, Journal, Goto, guest
<1>13. CASE fpSync
  BY <1>13 DEF fpSync, syncDir, Goto, guest
<1>14. CASE rollback
  BY <1>14 DEF rollback, Goto, SetRunState, files
<1>15. CASE rbImages
  BY <1>15 DEF rbImages, removeImagesThen, Goto, guest
<1>16. CASE rbCont
  BY <1>16 DEF rbCont, contAndConfirm, SetRunState, Goto, files
<1>17. CASE crashed
  BY <1>17 DEF crashed, Call, guest
<1>18. CASE afterRefusal
  BY <1>18 DEF afterRefusal, Goto, Call, files, guest
<1>19. CASE afterCommitError
  BY <1>19 DEF afterCommitError, Goto, Call, files, guest
<1>20. CASE CancelSuspend
  BY <1>20 DEF CancelSuspend, Goto, Call, files, guest
<1> QED BY <1>1, <1>2, <1>3, <1>4, <1>5, <1>6, <1>7, <1>8, <1>9, <1>10, <1>11,
       <1>12, <1>13, <1>14, <1>15, <1>16, <1>17, <1>18, <1>19, <1>20
    DEF SuspendStep

\* A step of a resume that may not lose the newest guest state keeps it.
LEMMA ResumeStepKept ==
    TypeOK /\ ControlInv /\ HandoverInv /\ DiscardInv /\ CopiesInv
    /\ ~ReadFails /\ Kept /\ ~MayLose /\ ResumeStep
        => Kept'
<1> SUFFICES ASSUME TypeOK, ControlInv, HandoverInv, DiscardInv, CopiesInv,
                    ~ReadFails, Kept, ~MayLose, ResumeStep
             PROVE  Kept'
    OBVIOUS
<1> USE DEF Kept, MayLose, DiscardInv, CopiesInv, HandoverInv, Saving,
            Loading, Empty, ControlInv, PositionInv, Removed, Committed,
            TypeOK, validImage, GuestOK, Qemus
<1>1. CASE Resume
  BY <1>1 DEF Resume, Goto, Incompatible, Call, Launched
<1>2. CASE load
  BY <1>2 DEF load, SetRunState, Goto, files
<1>3. CASE waitLoaded
  BY <1>3 DEF waitLoaded, Goto, files, guest
<1>4. CASE rejected
  BY <1>4 DEF rejected, KilledBestEffort, Dead, Incompatible, Call, Goto, Survives
<1>5. CASE transient
  BY <1>5 DEF transient, KilledBestEffort, Dead, Goto, Survives
<1>6. CASE resumeUnlink
  BY <1>6 DEF resumeUnlink, Goto, guest
<1>7. CASE resumeSync
  BY <1>7 DEF resumeSync, syncDir, Goto, guest
<1>8. CASE resumeCont
  BY <1>8 DEF resumeCont, contAndConfirm, SetRunState, Goto, files
<1>9. CASE resumeImages
  BY <1>9 DEF resumeImages, removeImagesThen, Goto, guest
<1>10. CASE resumeLeft
  BY <1>10 DEF resumeLeft, Goto, files, guest
<1> QED BY <1>1, <1>2, <1>3, <1>4, <1>5, <1>6, <1>7, <1>8, <1>9, <1>10
    DEF ResumeStep

\* A step of a cold boot that may not lose the newest guest state keeps it.
LEMMA StartStepKept ==
    TypeOK /\ ControlInv /\ HandoverInv /\ DiscardInv /\ CopiesInv
    /\ ~ReadFails /\ Kept /\ ~MayLose /\ StartStep
        => Kept'
<1> SUFFICES ASSUME TypeOK, ControlInv, HandoverInv, DiscardInv, CopiesInv,
                    ~ReadFails, Kept, ~MayLose, StartStep
             PROVE  Kept'
    OBVIOUS
<1> USE DEF Kept, MayLose, DiscardInv, CopiesInv, HandoverInv, Saving,
            Loading, Empty, ControlInv, PositionInv, Removed, Committed,
            TypeOK, validImage, GuestOK, Qemus
<1>1. CASE Start
  BY <1>1 DEF Start, Goto, Call, files, guest
<1>2. CASE coldRemove
  BY <1>2 DEF coldRemove, Goto, removeImagesThen, guest
<1>3. CASE coldLaunch
  BY <1>3, ConstantsAssumption DEF coldLaunch, Goto, Launched, Gone, Absent, Versions
<1>4. CASE waitLaunched
  BY <1>4 DEF waitLaunched, KilledBestEffort, Goto, Survives
<1> QED BY <1>1, <1>2, <1>3, <1>4 DEF StartStep

\* A step of jm destroys the newest guest state only where it is meant to,
\* through power losses and failed syncs, as long as journals can be read and
\* parsed.
THEOREM GuestStateIsKept ==
    ASSUME ~LaunchGap, ~ReadFails, ~BadJournals PROVE Spec => GuestNeverLost
<1> DEFINE A == JmStep /\ Kept /\ ~Kept' => MayLose
<1>1. TypeOK /\ ControlInv /\ HandoverInv /\ DiscardInv /\ CopiesInv
        => [A]_vars
  BY RecoverStepKept, LifecycleStepKept, SuspendStepKept, ResumeStepKept,
     StartStepKept
  DEF JmStep
<1> HIDE DEF A
<1>2. Spec => [][A]_vars
  BY <1>1, TypeCorrect, ControlInvariant, HandoverInvariant, DiscardInvariant,
     CopiesInvariant, PTL
<1> QED BY <1>2 DEF A, MayLose, GuestNeverLost
-----------------------------------------------------------------------------
(* The refinement of GuestMemory. *)

\* What the refinement mapping needs of a state.
RefInv == TypeOK /\ VersionInv /\ HandoverInv

\* The abstract state, read off the directory and the process: saved when
\* the journal commits a complete image, live when QEMU or the image being
\* committed holds the guest, and always the newest version.
AbstractState ==
    /\ Holder = IF validImage THEN "saved"
                ELSE IF BeingCommitted \/ qemu.st \notin Empty THEN "live"
                ELSE "none"
    /\ HeldVersion = IF Holder = "none" THEN 0 ELSE ver

\* The refinement mapping gives exactly that.
LEMMA Abstraction == RefInv => AbstractState
<1> SUFFICES ASSUME RefInv PROVE AbstractState
    OBVIOUS
<1> USE DEF RefInv, VersionInv, HandoverInv, TypeOK, GuestOK
<1>0. ver # Absent /\ Absent = 0 /\ Absent \notin Versions
  BY ConstantsAssumption DEF Versions, Absent
<1>1. CASE validImage
  <2>1. HeldVersion = ver /\ Holder = "saved"
    BY <1>1 DEF HeldVersion, Holder, SavedIsNewest
  <2> QED BY <1>1, <2>1 DEF AbstractState
<1>2. CASE ~validImage /\ BeingCommitted
  <2>1. HeldVersion = ver
    BY <1>2, <1>0 DEF HeldVersion, BeingCommitted
  <2>2. Holder = "live"
    BY <1>2, <2>1, <1>0 DEF Holder
  <2> QED BY <1>2, <2>1, <2>2 DEF AbstractState
<1>3. CASE ~validImage /\ ~BeingCommitted
  <2>1. HeldVersion = IF qemu.st \in Empty THEN Absent ELSE ver
    BY <1>3 DEF HeldVersion, Empty, Qemus, RunStates
  <2>2. Holder = IF qemu.st \in Empty THEN "none" ELSE "live"
    BY <1>3, <2>1, <1>0 DEF Holder
  <2> QED BY <1>3, <1>0, <2>1, <2>2 DEF AbstractState
<1> QED BY <1>1, <1>2, <1>3

\* A step of recovery and the repair executes no guest, and only the commit
\* point makes a saved state.
LEMMA RecoverStepSaves ==
    TypeOK /\ ControlInv /\ HandoverInv /\ ~PowerLoss /\ RecoverStep
        => /\ UNCHANGED <<ver, disk>>
           /\ validImage' => validImage \/ pc = "commitWrite"
<1> SUFFICES ASSUME TypeOK, ControlInv, HandoverInv, ~PowerLoss, RecoverStep
             PROVE  /\ UNCHANGED <<ver, disk>>
                    /\ validImage' => validImage \/ pc = "commitWrite"
    OBVIOUS
<1> USE DEF validImage, ControlInv, PositionInv, Uncommitted, Committed
<1>1. CASE Recover
  BY <1>1
  DEF Recover, Goto, files, removeImagesThen, writeJournal, NoJournal, guest
<1>2. CASE asideSync
  BY <1>2 DEF asideSync, syncDir, Goto, guest
<1>3. CASE recoverSaved
  BY <1>3 DEF recoverSaved, Goto, Killed
<1>4. CASE savedFp
  BY <1>4 DEF savedFp, Goto, guest
<1>5. CASE savedFpSync
  BY <1>5 DEF savedFpSync, syncDir, Goto, guest
<1>6. CASE recoverSaving
  BY <1>6 DEF recoverSaving, Goto, Killed
<1>7. CASE savingCont
  BY <1>7 DEF savingCont, contAndConfirm, Goto, files
<1>8. CASE incomingSync
  BY <1>8 DEF incomingSync, syncDir, Goto, guest
<1>9. CASE incomingCont
  BY <1>9 DEF incomingCont, contAndConfirm, Goto, files
<1>10. CASE incomingImages
  BY <1>10 DEF incomingImages, removeImagesThen, removeImages, Goto, guest
<1>11. CASE incomingKill
  BY <1>11 DEF incomingKill, Killed, Goto
<1>12. CASE killedImages
  BY <1>12 DEF killedImages, removeImagesThen, removeImages, Goto, guest
<1>13. CASE Repair
  BY <1>13 DEF Repair, Goto, guest
<1>14. CASE repairSuspend
  BY <1>14 DEF repairSuspend, removeImagesThen, Goto, guest
<1>15. CASE discardJournal
  BY <1>15 DEF discardJournal, writeJournal, NoJournal, Goto, guest
<1>16. CASE discardSync
  BY <1>16 DEF discardSync, syncDir, Goto, guest
<1>17. CASE discardImages
  BY <1>17 DEF discardImages, removeImagesThen, removeImages, Goto, guest
<1> QED BY <1>1, <1>2, <1>3, <1>4, <1>5, <1>6, <1>7, <1>8, <1>9, <1>10, <1>11,
       <1>12, <1>13, <1>14, <1>15, <1>16, <1>17
    DEF RecoverStep

\* A step of the dispatch of a command executes no guest, and only the commit
\* point makes a saved state.
LEMMA LifecycleStepSaves ==
    TypeOK /\ ControlInv /\ HandoverInv /\ ~PowerLoss /\ LifecycleStep
        => /\ UNCHANGED <<ver, disk>>
           /\ validImage' => validImage \/ pc = "commitWrite"
<1> SUFFICES ASSUME TypeOK, ControlInv, HandoverInv, ~PowerLoss, LifecycleStep
             PROVE  /\ UNCHANGED <<ver, disk>>
                    /\ validImage' => validImage \/ pc = "commitWrite"
    OBVIOUS
<1> USE DEF validImage, ControlInv, PositionInv, Uncommitted, Committed
<1>1. CASE dispatch
  BY <1>1 DEF dispatch, Goto, FromState, Call, files, guest
<1>2. CASE restate
  BY <1>2 DEF restate, FromState, Goto, Call, files, guest
<1>3. CASE stopQemu
  BY <1>3 DEF stopQemu, Killed, Goto, Call
<1> QED BY <1>1, <1>2, <1>3 DEF LifecycleStep

\* A step of a suspend executes no guest, and only the commit point makes a
\* saved state.
LEMMA SuspendStepSaves ==
    TypeOK /\ ControlInv /\ HandoverInv /\ ~PowerLoss /\ SuspendStep
        => /\ UNCHANGED <<ver, disk>>
           /\ validImage' => validImage \/ pc = "commitWrite"
<1> SUFFICES ASSUME TypeOK, ControlInv, HandoverInv, ~PowerLoss, SuspendStep
             PROVE  /\ UNCHANGED <<ver, disk>>
                    /\ validImage' => validImage \/ pc = "commitWrite"
    OBVIOUS
<1> USE DEF validImage, ControlInv, PositionInv, Uncommitted, Committed
<1>1. CASE PrepareSuspend
  BY <1>1 DEF PrepareSuspend, writeJournal, Journal, Goto, guest
<1>2. CASE prepareSync
  BY <1>2 DEF prepareSync, syncDir, Goto, guest
<1>3. CASE quiesce
  BY <1>3 DEF quiesce, Goto, files, guest
<1>4. CASE CommitSuspend
  BY <1>4 DEF CommitSuspend, Goto, files
<1>5. CASE save
  BY <1>5 DEF save, Goto
<1>6. CASE poll
  BY <1>6 DEF poll, Goto, files, guest
<1>7. CASE makeDurable
  BY <1>7 DEF makeDurable, Goto, guest
<1>8. CASE durableSync
  BY <1>8 DEF durableSync, syncDir, Goto, guest
<1>9. CASE commitWrite
  BY <1>9 DEF commitWrite, Goto, guest
<1>10. CASE commitSync
  BY <1>10 DEF commitSync, syncDir, Goto, guest
<1>11. CASE quit
  BY <1>11 DEF quit, KilledBestEffort, Goto
<1>12. CASE fpWrite
  BY <1>12 DEF fpWrite, Goto, guest
<1>13. CASE fpSync
  BY <1>13 DEF fpSync, syncDir, Goto, guest
<1>14. CASE rollback
  BY <1>14 DEF rollback, Goto, files
<1>15. CASE rbImages
  BY <1>15 DEF rbImages, removeImagesThen, Goto, guest
<1>16. CASE rbCont
  BY <1>16 DEF rbCont, contAndConfirm, Goto, files
<1>17. CASE crashed
  BY <1>17 DEF crashed, Call, guest
<1>18. CASE afterRefusal
  BY <1>18 DEF afterRefusal, Goto, Call, files, guest
<1>19. CASE afterCommitError
  BY <1>19 DEF afterCommitError, Goto, Call, files, guest
<1>20. CASE CancelSuspend
  BY <1>20 DEF CancelSuspend, Goto, Call, files, guest
<1> QED BY <1>1, <1>2, <1>3, <1>4, <1>5, <1>6, <1>7, <1>8, <1>9, <1>10, <1>11,
       <1>12, <1>13, <1>14, <1>15, <1>16, <1>17, <1>18, <1>19, <1>20
    DEF SuspendStep

\* A step of a resume executes no guest, and only the commit point makes a saved
\* state.
LEMMA ResumeStepSaves ==
    TypeOK /\ ControlInv /\ HandoverInv /\ ~PowerLoss /\ ResumeStep
        => /\ UNCHANGED <<ver, disk>>
           /\ validImage' => validImage \/ pc = "commitWrite"
<1> SUFFICES ASSUME TypeOK, ControlInv, HandoverInv, ~PowerLoss, ResumeStep
             PROVE  /\ UNCHANGED <<ver, disk>>
                    /\ validImage' => validImage \/ pc = "commitWrite"
    OBVIOUS
<1> USE DEF validImage, ControlInv, PositionInv, Uncommitted, Committed
<1>1. CASE Resume
  BY <1>1 DEF Resume, Goto, Incompatible, Call, Launched
<1>2. CASE load
  BY <1>2 DEF load, Goto, files
<1>3. CASE waitLoaded
  BY <1>3 DEF waitLoaded, Goto, files, guest
<1>4. CASE rejected
  BY <1>4 DEF rejected, KilledBestEffort, Incompatible, Call, Goto, Survives
<1>5. CASE transient
  BY <1>5 DEF transient, KilledBestEffort, Goto, Survives
<1>6. CASE resumeUnlink
  BY <1>6 DEF resumeUnlink, writeJournal, NoJournal, Goto, guest
<1>7. CASE resumeSync
  BY <1>7 DEF resumeSync, syncDir, Goto, guest
<1>8. CASE resumeCont
  BY <1>8 DEF resumeCont, contAndConfirm, Goto, files
<1>9. CASE resumeImages
  BY <1>9 DEF resumeImages, removeImagesThen, removeImages, Goto, guest
<1>10. CASE resumeLeft
  BY <1>10 DEF resumeLeft, Goto, files, guest
<1> QED BY <1>1, <1>2, <1>3, <1>4, <1>5, <1>6, <1>7, <1>8, <1>9, <1>10
    DEF ResumeStep

\* A step of a cold boot executes no guest, and only the commit point makes a
\* saved state.
LEMMA StartStepSaves ==
    TypeOK /\ ControlInv /\ HandoverInv /\ ~PowerLoss /\ StartStep
        => /\ UNCHANGED <<ver, disk>>
           /\ validImage' => validImage \/ pc = "commitWrite"
<1> SUFFICES ASSUME TypeOK, ControlInv, HandoverInv, ~PowerLoss, StartStep
             PROVE  /\ UNCHANGED <<ver, disk>>
                    /\ validImage' => validImage \/ pc = "commitWrite"
    OBVIOUS
<1> USE DEF validImage, ControlInv, PositionInv, Uncommitted, Committed
<1>1. CASE Start
  BY <1>1 DEF Start, Goto, Call, files, guest
<1>2. CASE coldRemove
  BY <1>2 DEF coldRemove, Goto, removeImagesThen, guest
<1>3. CASE coldLaunch
  BY <1>3 DEF coldLaunch, Goto, Launched
<1>4. CASE waitLaunched
  BY <1>4 DEF waitLaunched, KilledBestEffort, Goto, Survives
<1> QED BY <1>1, <1>2, <1>3, <1>4 DEF StartStep

\* A step of a killed command, a power loss or a damaged journal executes no
\* guest, and only the commit point makes a saved state.
LEMMA FaultSaves ==
    TypeOK /\ ControlInv /\ HandoverInv /\ ~PowerLoss /\ Fault
        => /\ UNCHANGED <<ver, disk>>
           /\ validImage' => validImage \/ pc = "commitWrite"
<1> SUFFICES ASSUME TypeOK, ControlInv, HandoverInv, ~PowerLoss, Fault
             PROVE  /\ UNCHANGED <<ver, disk>>
                    /\ validImage' => validImage \/ pc = "commitWrite"
    OBVIOUS
<1> USE DEF validImage, ControlInv, PositionInv, Uncommitted, Committed
<1>1. CASE JmKilled
  BY <1>1 DEF JmKilled, Goto, files, guest
<1>2. CASE PowerFails
  BY <1>2 DEF PowerFails, KilledBestEffort, Goto
<1>3. CASE JournalTurnsBad
  BY <1>3 DEF JournalTurnsBad, Journal, guest, ctl
<1> QED BY <1>1, <1>2, <1>3 DEF Fault

\* QEMU makes no saved state, and only the guest that runs executes.
LEMMA QemuStepSaves ==
    TypeOK /\ QemuStep
        => /\ validImage' = validImage
           /\ \/ UNCHANGED <<ver, disk>>
              \/ /\ ver' = ver + 1 /\ disk' \in {disk, ver + 1}
                 /\ qemu.st = "running" /\ qemu'.st = "running"
  BY DEF TypeOK, GuestOK, Qemus, QemuStep, QemuStarts, GuestExecutes, MigrationEnds,
         LoadEnds, QemuDies, files, validImage

\* Taking the lock changes nothing that the refinement mapping reads.
LEMMA BeginSaves ==
    (\E c \in Commands : Begin(c))
        => UNCHANGED <<ver, disk>> /\ validImage' = validImage
  BY DEF Begin, files, guest, validImage

\* The abstract state after a step.
LEMMA AbstractionPrimed == RefInv' => AbstractState'
  BY Abstraction, PTL

\* Every step of the protocol is a step of GuestMemory, or leaves it alone.
LEMMA RefinementStep ==
    ASSUME ~PowerLoss, RefInv, ControlInv, RefInv', [Next]_vars
    PROVE  [Memory!Next]_<<Holder, HeldVersion, ver>>
<1> USE DEF Memory!Next, Memory!Boot, Memory!Execute, Memory!Commit,
            Memory!Restore, Memory!Lose
<1>1. AbstractState /\ AbstractState'
  BY Abstraction, AbstractionPrimed
<1>2. CASE ver' = ver /\ (validImage' => validImage \/ pc = "commitWrite")
  <2>1. Holder' = "saved" => Holder \in {"live", "saved"}
    BY <1>1, <1>2 DEF AbstractState, BeingCommitted
  <2>2. Holder \in {"none", "live", "saved"} /\ Holder' \in {"none", "live", "saved"}
    BY <1>1 DEF AbstractState
  <2>3. /\ HeldVersion = IF Holder = "none" THEN 0 ELSE ver
        /\ HeldVersion' = IF Holder' = "none" THEN 0 ELSE ver
    BY <1>1, <1>2 DEF AbstractState
  <2> QED BY <1>2, <2>1, <2>2, <2>3
<1>3. CASE /\ ver' = ver + 1 /\ qemu.st = "running" /\ qemu'.st = "running"
           /\ validImage' = validImage
  <2>1. ~validImage
    BY <1>3 DEF ControlInv, SavedNeverRuns, validImage
  <2>2. Holder = "live" /\ Holder' = "live" /\ HeldVersion = ver /\ HeldVersion' = ver'
    BY <1>1, <1>3, <2>1 DEF AbstractState, Empty
  <2> QED BY <1>3, <2>2
<1>4. CASE UNCHANGED vars
  BY <1>2, <1>4 DEF vars, validImage
<1>5. CASE Next
  BY <1>2, <1>3, <1>5, BeginSaves, RecoverStepSaves, LifecycleStepSaves,
     SuspendStepSaves, ResumeStepSaves, StartStepSaves, QemuStepSaves,
     FaultSaves
  DEF Next, JmStep, RefInv
<1> QED BY <1>4, <1>5

\* As long as the host keeps power, the directory, the process and the
\* recovery together implement the single copy of the guest's memory that
\* GuestMemory promises.
THEOREM Implements ==
    ASSUME ~LaunchGap, ~PowerLoss PROVE Spec => ImplementsGuestMemory
<1>1. Init => Memory!Init
  BY DEF Init, Memory!Init, Holder, HeldVersion, validImage, BeingCommitted,
         NoJournal, Dead, Absent
<1>2. Spec => []RefInv
  BY TypeCorrect, VersionInvariant, HandoverInvariant, PTL DEF RefInv
<1>3. RefInv /\ ControlInv /\ RefInv' /\ [Next]_vars
        => [Memory!Next]_<<Holder, HeldVersion, ver>>
  BY RefinementStep
<1> QED BY <1>1, <1>2, <1>3, ControlInvariant, PTL
    DEF Spec, ImplementsGuestMemory, Memory!Spec

\* The disk is never newer than the guest's memory, as long as the host keeps
\* power: only a power loss brings a saved state back beside a disk written
\* after it (SuspendResurrected.cfg).
THEOREM DiskFollowsMemory ==
    ASSUME ~LaunchGap, ~PowerLoss PROVE Spec => []DiskNeverDiverges
<1> DEFINE I == disk <= ver
<1>1. Init => I
  BY DEF Init
<1>2. TypeOK /\ ControlInv /\ HandoverInv /\ I /\ [Next]_vars => I'
  <2> SUFFICES ASSUME TypeOK, ControlInv, HandoverInv, I, [Next]_vars PROVE I'
      OBVIOUS
  <2>1. disk \in Nat /\ ver \in Nat
    BY ConstantsAssumption DEF TypeOK, GuestOK, Versions
  <2>2. \/ UNCHANGED <<ver, disk>>
        \/ ver' = ver + 1 /\ disk' \in {disk, ver + 1}
    BY BeginSaves, RecoverStepSaves, LifecycleStepSaves, SuspendStepSaves,
       ResumeStepSaves, StartStepSaves, QemuStepSaves, FaultSaves
    DEF Next, JmStep, vars
  <2> QED BY <2>1, <2>2
<1>3. I /\ NeverStale => DiskNeverDiverges
  BY DEF NeverStale, DiskNeverDiverges
<1> HIDE DEF I
<1> QED BY <1>1, <1>2, <1>3, TypeCorrect, ControlInvariant, HandoverInvariant,
           RunningGuestIsNewest, PTL
    DEF Spec
=============================================================================
