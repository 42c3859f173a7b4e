----------------------------- MODULE SuspendDir -----------------------------
(***************************************************************************)
(* The machine directory as the QEMU backend's suspend code uses it: the   *)
(* journal suspend.json, the saved image, its partial sibling, the pid     *)
(* file and the recorded argv, together with the QEMU process they         *)
(* describe and the lock-holding jm command that edits them.               *)
(*                                                                         *)
(* Durability: a rename or unlink is visible at once and durable only      *)
(* after syncDir.  jdur and idur are the sets of contents the journal and  *)
(* the image may have after a power loss; syncDir collapses them to what   *)
(* is visible.                                                             *)
(*                                                                         *)
(* Guest state is a version number: ver is the version the guest last      *)
(* executed to, disk the version of its last disk write.  An image holds   *)
(* the version it was taken at, so an image v still agrees with the disk   *)
(* exactly when disk <= v, and is the guest's newest state when v = ver.   *)
(***************************************************************************)
EXTENDS Naturals, Integers

CONSTANTS
    MaxVer,        \* bound: how far guest execution is followed
    PowerLoss,     \* whether the host may lose power
    DirSyncFails,  \* whether syncDir may report an error
    ReadFails,     \* whether reading an existing journal may fail (EIO, EACCES)
    BadJournals,   \* whether a journal may turn unparseable between commands
    LaunchGap      \* whether a command may begin while a launched QEMU that its
                   \* launcher no longer waits for has not written its pid file

ASSUME ConstantsAssumption ==
    /\ MaxVer \in Nat \ {0}
    /\ PowerLoss \in BOOLEAN
    /\ DirSyncFails \in BOOLEAN
    /\ ReadFails \in BOOLEAN
    /\ BadJournals \in BOOLEAN
    /\ LaunchGap \in BOOLEAN

VARIABLES
    journal,   \* suspend.json as read: phase and disk fingerprint
    jdur,      \* what suspend.json may be after a power loss
    image,     \* version held by the saved image, Absent when there is none
    idur,      \* what the saved image may be after a power loss
    tmp,       \* the partial image: Absent, Partial, or a complete version
    pidfile,   \* qemu.pid exists
    incoming,  \* the recorded argv carries -incoming
    qemu,      \* the hypervisor: run state and guest memory
    ver, disk, \* version last executed, version last written to disk
    pc, cmd, ret  \* the jm command holding the machine lock

files == <<journal, jdur, image, idur, tmp, pidfile, incoming>>
guest == <<qemu, ver, disk>>
ctl   == <<pc, cmd, ret>>
vars  == <<journal, jdur, image, idur, tmp, pidfile, incoming,
           qemu, ver, disk, pc, cmd, ret>>

-----------------------------------------------------------------------------
Absent  == 0
Partial == -1
Versions == 1..MaxVer

Phases == {"none", "saving", "saved", "bad"}

\* A journal carries its phase and, once known, the disk's fingerprint (its
\* size and mtime, here the version last written); Absent is no fingerprint.
Journals == [phase: Phases, fp: {Absent} \cup Versions]
NoJournal == [phase |-> "none", fp |-> Absent]
Journal(p, f) == [phase |-> p, fp |-> f]

\* What query-status and query-migrate tell jm apart.  "migrating" reads as
\* paused with an active migration, "loading" as inmigrate with one, and
\* "loadfailed" as inmigrate with a failed one.  "starting" is a launched
\* process that has yet to write its pid file and to answer.
RunStates == {"none", "starting", "running", "paused", "migrating", "postmigrate",
              "inmigrate", "loading", "loadfailed"}

\* mem is the version held in guest memory.
Qemus == [st: RunStates, mem: {Absent} \cup Versions]
Dead == [st |-> "none", mem |-> Absent]

Alive == qemu.st # "none" /\ pidfile

-----------------------------------------------------------------------------
(* Control flow of the command holding the lock. *)

\* Subroutines (Recover, Repair, discardJournalThenImage) return through ret.
\* The command ends at "idle".
Goto(l) ==
    /\ pc' = l
    /\ cmd' = IF l = "idle" THEN "none" ELSE cmd
    /\ ret' = IF l = "idle" THEN [ok |-> "idle", err |-> "idle"] ELSE ret

Call(l, ok, err) ==
    /\ pc' = l
    /\ ret' = [ok |-> ok, err |-> err]
    /\ UNCHANGED cmd

-----------------------------------------------------------------------------
(* Primitives on the directory. *)

writeJournal(j) ==
    /\ journal' = j
    /\ jdur' = jdur \cup {j}

\* syncDir makes every rename and unlink so far durable.
syncDir(ok, err) ==
    \/ /\ jdur' = {journal}
       /\ idur' = {image}
       /\ Goto(ok)
    \/ /\ DirSyncFails
       /\ UNCHANGED <<jdur, idur>>
       /\ Goto(err)

\* The same when the caller ignores the error.
syncDirBestEffort(next) == syncDir(next, next)

removeImages ==
    /\ image' = Absent
    /\ idur' = idur \cup {Absent}
    /\ tmp' = Absent

\* Reading a journal that exists may fail, which says nothing about it.
Unreadable == ReadFails /\ journal.phase # "none"

validImage == journal.phase = "saved" /\ image # Absent

\* State, computed from the pid file, the process and the journal.
State ==
    IF Alive THEN "running"
    ELSE IF journal.phase = "none"
         THEN IF pidfile THEN "broken" ELSE "stopped"
         ELSE IF validImage THEN "suspended" ELSE "broken"

=============================================================================
