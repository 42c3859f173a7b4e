---------------------------- MODULE RecordProofs ----------------------------
(***************************************************************************)
(* Proofs about MachineRecord.  First, what each step does to the command  *)
(* that takes it (the lemmas ...Step and ...Steps), then one lemma per     *)
(* part of the invariant (the lemmas ...Next), then the theorems.          *)
(***************************************************************************)
EXTENDS RecordInvariant, TLAPS

\* No command but p takes part in the step.
Only(p) == q' \in [Procs -> Commands] /\ \A r \in Procs : r # p => q'[r] = q[r]

\* p goes on with what it was asked.
Same(p) == q'[p].cmd = q[p].cmd /\ q'[p].o = q[p].o /\ q'[p].src = q[p].src

\* The empty record, directory, machine and command have their shape.
LEMMA NothingShape ==
    /\ NoRec \in Records /\ noOpts \in Options /\ idle \in Commands
    /\ noDir \in Directories /\ noVM \in Machines
<1>1. NoRec \in Records
  BY DEF NoRec, Records
<1>2. noOpts \in Options
  BY DEF noOpts, Options
<1>3. idle \in Commands
  BY <1>1, <1>2 DEF idle, Commands, States, PCs
<1>4. noDir \in Directories
  BY DEF noDir, Directories, Contents
<1>5. noVM \in Machines
  BY DEF noVM, Machines, States
<1> QED BY <1>1, <1>2, <1>3, <1>4, <1>5

\* A step that replaces one command by another touches no other.
LEMMA UpdateStep ==
    ASSUME q \in [Procs -> Commands], NEW p \in Procs, NEW c \in Commands, q' = [q EXCEPT ![p] = c]
    PROVE  Only(p) /\ q'[p] = c
  BY DEF Only

\* A command that returns gives up the lock (end).
LEMMA EndStep ==
    ASSUME q \in [Procs -> Commands], NEW p \in Procs, end(p)
    PROVE  Only(p) /\ q'[p] = idle /\ lock' = Nobody
  BY NothingShape, UpdateStep DEF end

\* A command that goes on keeps its options and its copy of the record (goto).
LEMMA GotoStep ==
    ASSUME q \in [Procs -> Commands], NEW p \in Procs, NEW x \in PCs, goto(p, x)
    PROVE  /\ Only(p) /\ Same(p) /\ q'[p].pc = x /\ q'[p].m = q[p].m /\ q'[p].st = q[p].st
<1> DEFINE c == [q[p] EXCEPT !.pc = x]
<1>1. /\ c \in Commands /\ c.cmd = q[p].cmd /\ c.o = q[p].o /\ c.src = q[p].src /\ c.pc = x
      /\ c.m = q[p].m /\ c.st = q[p].st
  BY DEF Commands
<1>2. q' = [q EXCEPT ![p] = c]
  BY DEF goto
<1> HIDE DEF c
<1>3. Only(p) /\ q'[p] = c
  BY <1>1, <1>2, UpdateStep
<1> QED BY <1>1, <1>3 DEF Same

\* The parts of a command have their shape.
LEMMA CopyShape ==
    ASSUME ShapeInv
    PROVE  \A p \in Procs : q[p] \in Commands /\ q[p].m \in Records /\ q[p].o \in Options
                            /\ q[p].st \in States /\ q[p].pc \in PCs
  BY DEF ShapeInv, Commands

\* A disk size that was or was not asked for is a number.
LEMMA AskedShape ==
    ASSUME NEW o \in Options
    PROVE  o.disk \in Int
<1>1. Unset \in Int
  BY DEF Unset
<1>2. \A d \in Disks : d \in Int
  BY RecordAssumption
<1>3. o.disk \in Disks \cup {Unset}
  BY DEF Options
<1> QED BY <1>1, <1>2, <1>3

\* jm init computes a cap that fits the memory it was given (DefaultArcFor).
LEMMA CreatedShape ==
    ASSUME NEW mem \in Mems, NEW d \in Disks, NEW a \in Addrs, NEW t \in BOOLEAN
    PROVE  created(mem, d, a, t) \in Records /\ Fits(created(mem, d, a, t))
<1> USE RecordAssumption
<1>1. DefaultArcFor(mem) \in Nat /\ validateArc(DefaultArcFor(mem), mem)
  BY DEF DefaultArcFor, validateArc
<1> QED BY <1>1 DEF created, Records, Fits

\* A call leaves a command that waits for the lock.
Waiting(p) == /\ Only(p) /\ q'[p].pc = "lock" /\ UNCHANGED <<rec, dir, vm, lock>>

\* A call waits for the lock with what it has read (begin).
LEMMA BeginStep ==
    ASSUME ShapeInv, NEW p \in Procs, NEW c \in Commands, begin(p, c)
    PROVE  Waiting(p) /\ q'[p].cmd = c.cmd /\ q'[p].m = c.m /\ q'[p].o = c.o
<1> DEFINE d == [c EXCEPT !.pc = "lock"]
<1>1. d \in Commands /\ d.cmd = c.cmd /\ d.m = c.m /\ d.o = c.o /\ d.pc = "lock"
  BY DEF Commands, PCs
<1>2. q' = [q EXCEPT ![p] = d] /\ UNCHANGED <<rec, dir, vm, lock>>
  BY DEF begin
<1> HIDE DEF d
<1> QED BY <1>1, <1>2, UpdateStep DEF ShapeInv, Waiting

\* What jm init calls with: a record that fits, and no other record.
LEMMA CallInitStep ==
    ASSUME ShapeInv, NEW p \in Procs, CallInit(p)
    PROVE  /\ Waiting(p) /\ q'[p].cmd = "init" /\ Fits(q'[p].m) /\ q'[p].m.addr \in Addrs
           /\ rec = NoRec /\ (ConcurrentInit \/ \A r \in Procs : q[r].cmd # "init")
<1>1. PICK s \in Sources, mem \in Mems, d \in InitDisks :
        /\ SmallReuse \/ dir.disk = <<>> \/ d <= dir.size
        /\ begin(p, [idle EXCEPT !.cmd = "init", !.src = s, !.o.disk = d,
                                 !.m = created(mem, d, DefaultAddr, TRUE)])
  BY DEF CallInit
<1> DEFINE m == created(mem, d, DefaultAddr, TRUE)
           o == [noOpts EXCEPT !.disk = d]
           c == [idle EXCEPT !.cmd = "init", !.src = s, !.o = o, !.m = m]
<1>2. m \in Records /\ Fits(m) /\ m.addr \in Addrs
  BY CreatedShape, RecordAssumption DEF created
<1>3. idle.o = noOpts /\ o \in Options
  BY RecordAssumption, NothingShape DEF Options, idle
<1>4. begin(p, c)
  BY <1>1, <1>3
<1> HIDE DEF m, o
<1>5. c \in Commands /\ c.m = m /\ c.cmd = "init"
  BY <1>2, <1>3, NothingShape DEF Commands
<1> HIDE DEF c
<1> QED BY <1>2, <1>4, <1>5, BeginStep DEF CallInit, Exists

\* What the other calls carry: the record as it is before the lock.
LEMMA CallsStep ==
    ASSUME ShapeInv, NEW p \in Procs, Calls(p), ~CallInit(p)
    PROVE  /\ Waiting(p) /\ q'[p].cmd \in {"set", "start", "stop", "suspend", "rm"}
           /\ q'[p].m = rec
<1>1. ASSUME NEW c \in Commands, begin(p, c), c.m = rec,
             c.cmd \in {"set", "start", "stop", "suspend", "rm"}
      PROVE  /\ Waiting(p) /\ q'[p].cmd \in {"set", "start", "stop", "suspend", "rm"}
             /\ q'[p].m = rec
  BY <1>1, BeginStep
<1>2. CASE CallSet(p)
  <2>1. PICK o \in Options : begin(p, [idle EXCEPT !.cmd = "set", !.o = o, !.m = rec])
    BY <1>2 DEF CallSet, SetOpts, Options
  <2> QED BY <1>1, <2>1, NothingShape DEF ShapeInv, Commands
<1>3. CASE CallStart(p)
  <2>1. PICK a \in Addrs \cup {Unset} :
          begin(p, [idle EXCEPT !.cmd = "start", !.o.addr = a, !.m = rec])
    BY <1>3 DEF CallStart
  <2> DEFINE o == [noOpts EXCEPT !.addr = a]
  <2>2. idle.o = noOpts /\ o \in Options
    BY NothingShape DEF Options, idle
  <2>3. begin(p, [idle EXCEPT !.cmd = "start", !.o = o, !.m = rec])
    BY <2>1, <2>2
  <2> HIDE DEF o
  <2> QED BY <1>1, <2>2, <2>3, NothingShape DEF ShapeInv, Commands
<1>4. CASE CallStop(p)
  BY <1>1, <1>4, NothingShape DEF CallStop, ShapeInv, Commands
<1>5. CASE CallSuspend(p)
  BY <1>1, <1>5, NothingShape DEF CallSuspend, ShapeInv, Commands
<1>6. CASE CallRm(p)
  BY <1>1, <1>6, NothingShape DEF CallRm, ShapeInv, Commands
<1> QED BY <1>2, <1>3, <1>4, <1>5, <1>6 DEF Calls

\* Where each command goes when it gets the lock.
LEMMA LockStep ==
    ASSUME ShapeInv, NEW p \in Procs, Lock(p)
    PROVE  /\ Only(p) /\ Same(p) /\ q'[p].m = q[p].m
           /\ \/ q[p].cmd = "init" /\ q'[p].pc = "image"
              \/ q[p].cmd = "rm" /\ q'[p].pc = "stop"
              \/ q[p].cmd \notin {"init", "rm"} /\ q'[p].pc = "reload"
<1> DEFINE x == CASE q[p].cmd = "init" -> "image" [] q[p].cmd = "rm" -> "stop" [] OTHER -> "reload"
<1>1. /\ x \in PCs
      /\ \/ q[p].cmd = "init" /\ x = "image"
         \/ q[p].cmd = "rm" /\ x = "stop"
         \/ q[p].cmd \notin {"init", "rm"} /\ x = "reload"
  BY DEF PCs, InitPCs
<1>2. goto(p, x)
  BY DEF Lock
<1> HIDE DEF x
<1> QED BY <1>1, <1>2, GotoStep DEF ShapeInv

\* A command that goes on after its reload has the record itself (reloadLocked).
LEMMA ReloadStep ==
    ASSUME ShapeInv, NEW p \in Procs, Reload(p), ~end(p)
    PROVE  /\ Only(p) /\ Same(p) /\ q'[p].m = rec /\ q'[p].st = vm.st /\ lock' = lock
           /\ rec # NoRec /\ (q[p].cmd = "set" => validate(q[p].o, rec))
           /\ \/ q[p].cmd = "set" /\ q'[p].pc = "apply"
              \/ q[p].cmd = "start" /\ q'[p].pc = "addr"
              \/ q[p].cmd \notin {"set", "start"} /\ q'[p].pc = "stop"
<1> DEFINE x == firstPC(q[p].cmd)
           c == [q[p] EXCEPT !.m = rec, !.st = vm.st, !.pc = x]
<1>1. /\ x \in PCs
      /\ \/ q[p].cmd = "set" /\ x = "apply"
         \/ q[p].cmd = "start" /\ x = "addr"
         \/ q[p].cmd \notin {"set", "start"} /\ x = "stop"
  BY DEF firstPC, PCs, Working, SetPCs, StartPCs
<1>2. q' = [q EXCEPT ![p] = c] /\ lock' = lock /\ rec # NoRec
      /\ (q[p].cmd = "set" => validate(q[p].o, rec))
  BY DEF Reload, reloadLocked
<1>3. vm.st \in States
  BY DEF ShapeInv, Machines
<1> HIDE DEF x
<1>4. /\ c \in Commands /\ c.m = rec /\ c.st = vm.st /\ c.pc = x
      /\ c.cmd = q[p].cmd /\ c.o = q[p].o /\ c.src = q[p].src
  BY <1>1, <1>3 DEF ShapeInv, Commands
<1> HIDE DEF c
<1> QED BY <1>1, <1>2, <1>4, UpdateStep DEF ShapeInv, Same

\* The fields a save may not lose are those of the copy before.
Kept(p) ==
    /\ q'[p].m.mem = q[p].m.mem /\ q'[p].m.arc = q[p].m.arc
    /\ q'[p].m.disk = q[p].m.disk /\ q'[p].m.addr = q[p].m.addr

\* Noting trust or a pending grow keeps the fields a save may not lose.
LEMMA NoteStep ==
    ASSUME ShapeInv, NEW p \in Procs, NEW x \in PCs, NEW b \in BOOLEAN,
           \/ q' = [q EXCEPT ![p].pc = x, ![p].m.trusted = b]
           \/ q' = [q EXCEPT ![p].pc = x, ![p].m.pending = b]
    PROVE  Only(p) /\ Same(p) /\ Kept(p) /\ q'[p].pc = x /\ q'[p].st = q[p].st
<1>1. q \in [Procs -> Commands] /\ q[p] \in Commands /\ q[p].m \in Records
  BY DEF ShapeInv, Commands
<1>2. CASE q' = [q EXCEPT ![p].pc = x, ![p].m.trusted = b]
  <2> DEFINE m == [q[p].m EXCEPT !.trusted = b]
             c == [q[p] EXCEPT !.pc = x, !.m.trusted = b]
  <2>1. /\ m \in Records /\ m.mem = q[p].m.mem /\ m.arc = q[p].m.arc
        /\ m.disk = q[p].m.disk /\ m.addr = q[p].m.addr
    BY <1>1 DEF Records
  <2>2. q' = [q EXCEPT ![p] = c]
    BY <1>2
  <2>3. c = [q[p] EXCEPT !.pc = x, !.m = m]
    BY <1>1 DEF Commands
  <2> HIDE DEF m, c
  <2>4. /\ c \in Commands /\ c.m = m /\ c.st = q[p].st /\ c.pc = x
        /\ c.cmd = q[p].cmd /\ c.o = q[p].o /\ c.src = q[p].src
    BY <1>1, <2>1, <2>3 DEF Commands
  <2> QED BY <1>1, <2>1, <2>2, <2>4, UpdateStep DEF Kept, Same
<1>3. CASE q' = [q EXCEPT ![p].pc = x, ![p].m.pending = b]
  <2> DEFINE m == [q[p].m EXCEPT !.pending = b]
             c == [q[p] EXCEPT !.pc = x, !.m.pending = b]
  <2>1. /\ m \in Records /\ m.mem = q[p].m.mem /\ m.arc = q[p].m.arc
        /\ m.disk = q[p].m.disk /\ m.addr = q[p].m.addr
    BY <1>1 DEF Records
  <2>2. q' = [q EXCEPT ![p] = c]
    BY <1>3
  <2>3. c = [q[p] EXCEPT !.pc = x, !.m = m]
    BY <1>1 DEF Commands
  <2> HIDE DEF m, c
  <2>4. /\ c \in Commands /\ c.m = m /\ c.st = q[p].st /\ c.pc = x
        /\ c.cmd = q[p].cmd /\ c.o = q[p].o /\ c.src = q[p].src
    BY <1>1, <2>1, <2>3 DEF Commands
  <2> QED BY <1>1, <2>1, <2>2, <2>4, UpdateStep DEF Kept, Same
<1> QED BY <1>2, <1>3

\* A set changes the fields it was asked to, the memory only when stopped (runSet).
LEMMA SetApplyStep ==
    ASSUME ShapeInv, NEW p \in Procs, SetApply(p), ~end(p)
    PROVE  /\ Only(p) /\ Same(p) /\ q'[p].st = q[p].st /\ q'[p].pc \in {"grow", "save"}
           /\ q'[p].m.mem = given(q[p].o.mem, q[p].m.mem)
           /\ q'[p].m.arc = given(q[p].o.arc, q[p].m.arc)
           /\ q'[p].m.addr = given(q[p].o.addr, q[p].m.addr)
           /\ q'[p].m.disk = q[p].m.disk
           /\ lock' = lock /\ (q[p].o.mem # Unset => q[p].st = "stopped")
<1> DEFINE o == q[p].o
           m == apply(o, q[p].m)
           b == given(o.arc, q[p].m.arc) # q[p].m.arc
           x == IF grows(o, q[p].m) THEN "grow" ELSE "save"
           c == [q[p] EXCEPT !.m = m, !.arcChanged = b, !.pc = x]
<1>1. q \in [Procs -> Commands] /\ q[p] \in Commands /\ o \in Options /\ q[p].m \in Records
  BY DEF ShapeInv, Commands
<1>2. /\ q' = [q EXCEPT ![p] = c] /\ lock' = lock
      /\ (q[p].o.mem # Unset => q[p].st = "stopped")
  BY DEF SetApply, refuses, needsStopped
<1>3. /\ m.mem = given(o.mem, q[p].m.mem) /\ m.arc = given(o.arc, q[p].m.arc)
      /\ m.addr = given(o.addr, q[p].m.addr) /\ m.disk = q[p].m.disk
  BY <1>1 DEF apply, Records
<1>4. m \in Records
  <2>1. given(o.mem, q[p].m.mem) \in Nat
    BY <1>1, RecordAssumption DEF given, Records, Options
  <2>2. given(o.arc, q[p].m.arc) \in Nat
    BY <1>1, RecordAssumption DEF given, Records, Options
  <2>3. given(o.addr, q[p].m.addr) \in Addrs \cup {Unset}
    BY <1>1 DEF given, Records, Options
  <2> QED BY <1>1, <2>1, <2>2, <2>3 DEF apply, Records
<1>5. x \in {"grow", "save"} /\ x \in PCs /\ b \in BOOLEAN
  BY DEF PCs, Working, SetPCs
<1> HIDE DEF m, b, x
<1>6. /\ c \in Commands /\ c.m = m /\ c.st = q[p].st /\ c.pc = x
      /\ c.cmd = q[p].cmd /\ c.o = o /\ c.src = q[p].src
  BY <1>1, <1>4, <1>5 DEF Commands
<1> HIDE DEF c
<1> QED BY <1>1, <1>2, <1>3, <1>5, <1>6, UpdateStep DEF Same

\* A grow changes the size in the copy to the one asked for.
LEMMA SetGrowStep ==
    ASSUME ShapeInv, NEW p \in Procs, SetGrow(p)
    PROVE  /\ Only(p) /\ Same(p) /\ q'[p].st = q[p].st /\ q'[p].pc = "savegrow"
           /\ q'[p].m.mem = q[p].m.mem /\ q'[p].m.arc = q[p].m.arc
           /\ q'[p].m.disk = q[p].o.disk /\ q'[p].m.addr = q[p].m.addr
<1> DEFINE m == grown(q[p].m, q[p].o)
           c == [q[p] EXCEPT !.pc = "savegrow", !.m = m]
<1>1. /\ q \in [Procs -> Commands] /\ q[p] \in Commands /\ q[p].m \in Records
      /\ q[p].o.disk \in Int
  BY CopyShape, AskedShape DEF ShapeInv
<1>2. /\ m \in Records /\ m.mem = q[p].m.mem /\ m.arc = q[p].m.arc
      /\ m.disk = q[p].o.disk /\ m.addr = q[p].m.addr
  BY <1>1 DEF grown, Records
<1>3. q' = [q EXCEPT ![p] = c]
  BY DEF SetGrow
<1> HIDE DEF m
<1>4. /\ c \in Commands /\ c.m = m /\ c.st = q[p].st /\ c.pc = "savegrow"
      /\ c.cmd = q[p].cmd /\ c.o = q[p].o /\ c.src = q[p].src
  BY <1>1, <1>2 DEF Commands, PCs, Working, SetPCs
<1> HIDE DEF c
<1> QED BY <1>1, <1>2, <1>3, <1>4, UpdateStep DEF Same

\* A start saves its copy with the address of its environment, or wakes.
LEMMA StartSaveStep ==
    ASSUME ShapeInv, NEW p \in Procs, StartSave(p)
    PROVE  /\ Only(p) /\ Same(p) /\ q'[p].st = q[p].st /\ q'[p].pc = "boot" /\ rec' \in Records
           /\ q'[p].m.mem = q[p].m.mem /\ q'[p].m.arc = q[p].m.arc
           /\ q'[p].m.disk = q[p].m.disk
           /\ \/ q[p].st = "suspended" /\ q'[p].m = q[p].m /\ rec' = rec
              \/ q'[p].m.addr = given(q[p].o.addr, q[p].m.addr) /\ rec' = q'[p].m
<1>1. /\ q \in [Procs -> Commands] /\ q[p] \in Commands /\ q[p].m \in Records
      /\ q[p].o \in Options /\ rec \in Records
  BY DEF ShapeInv, Commands
<1>2. CASE q[p].st = "suspended"
  BY <1>1, <1>2, GotoStep DEF StartSave, PCs, Working, StartPCs
<1>3. CASE q[p].st # "suspended"
  <2> DEFINE a == given(q[p].o.addr, q[p].m.addr)
             m == [q[p].m EXCEPT !.addr = a]
             c == [q[p] EXCEPT !.m = m, !.pc = "boot"]
  <2>1. a \in Addrs \cup {Unset}
    BY <1>1 DEF given, Records, Options
  <2>2. rec' = m /\ q' = [q EXCEPT ![p] = c]
    BY <1>3 DEF StartSave
  <2> HIDE DEF a
  <2>3. /\ m \in Records /\ m.mem = q[p].m.mem /\ m.arc = q[p].m.arc
        /\ m.disk = q[p].m.disk /\ m.addr = a
    BY <1>1, <2>1 DEF Records
  <2> HIDE DEF m
  <2>4. /\ c \in Commands /\ c.m = m /\ c.st = q[p].st /\ c.pc = "boot"
        /\ c.cmd = q[p].cmd /\ c.o = q[p].o /\ c.src = q[p].src
    BY <1>1, <2>3 DEF Commands, PCs, Working, StartPCs
  <2> HIDE DEF c
  <2>5. Only(p) /\ q'[p] = c
    BY <1>1, <2>2, <2>4, UpdateStep
  <2> QED BY <2>2, <2>3, <2>4, <2>5 DEF Same, a
<1> QED BY <1>2, <1>3

\* jm init saves the record it computed, with the size of disk.raw.
LEMMA InitSaveStep ==
    ASSUME ShapeInv, NEW p \in Procs, InitSave(p)
    PROVE  /\ rec' \in Records /\ rec'.mem = q[p].m.mem /\ rec'.arc = q[p].m.arc
           /\ rec'.addr = q[p].m.addr
<1>1. q[p].m \in Records /\ dir.size \in Int /\ q[p].m.disk \in Int
  BY DEF ShapeInv, Commands, Records, Directories
<1>2. Larger(q[p].m.disk, dir.size) \in Int
  BY <1>1 DEF Larger
<1> QED BY <1>1, <1>2 DEF InitSave, Records

\* What each step leaves alone.
LEMMA Frames ==
    ASSUME NEW p \in Procs
    PROVE  /\ Calls(p) => UNCHANGED <<rec, dir, vm, lock>>
           /\ Lock(p) => UNCHANGED <<rec, dir, vm>>
           /\ LockBusy(p) => UNCHANGED <<rec, dir, vm, lock>>
           /\ Reload(p) => UNCHANGED <<rec, dir, vm>>
           /\ InitImage(p) => UNCHANGED <<rec, dir, vm, lock>>
           /\ InitReuse(p) => UNCHANGED <<rec, vm>>
           /\ InitDownload(p) => UNCHANGED <<rec, vm, lock>>
           /\ InitVerify(p) => UNCHANGED <<rec, vm>>
           /\ InitInstall(p) => UNCHANGED <<rec, vm, lock>>
           /\ InitClean(p) => UNCHANGED <<rec, vm, lock>>
           /\ InitMarker(p) => UNCHANGED <<rec, vm, lock>>
           /\ InitSave(p) => UNCHANGED <<dir, vm>>
           /\ SetApply(p) => UNCHANGED <<rec, dir, vm>>
           /\ SetGrow(p) => UNCHANGED <<rec, vm, lock>>
           /\ SetSaveGrow(p) => UNCHANGED <<dir, vm, lock>>
           /\ SetResize(p) => UNCHANGED <<rec, lock>>
           /\ SetGuest(p) => UNCHANGED <<rec, dir, lock>>
           /\ SetSave(p) => UNCHANGED <<dir, vm>>
           /\ SetArc(p) => UNCHANGED <<rec, dir>>
           /\ StartSave(p) => UNCHANGED <<dir, vm, lock>>
           /\ StartBoot(p) => UNCHANGED <<rec, dir>>
           /\ WakeDiscards(p) => UNCHANGED <<rec, dir, lock>>
           /\ StartGrow(p) => UNCHANGED <<rec, dir, lock>>
           /\ StartGrown(p) => UNCHANGED <<dir, vm, lock>>
           /\ StartArc(p) => UNCHANGED <<rec, dir>>
           /\ StopOrSuspend(p) => UNCHANGED <<rec, dir>>
           /\ Cut(p) => UNCHANGED <<rec, dir, vm>>
           /\ GuestGone(p) => UNCHANGED <<rec, dir, vm>>
           /\ StartWarns(p) => UNCHANGED <<rec, dir, vm>>
<1>1. Calls(p) => UNCHANGED <<rec, dir, vm, lock>>
  BY DEF Calls, CallInit, CallSet, CallStart, CallStop, CallSuspend, CallRm, begin
<1>2. Lock(p) => UNCHANGED <<rec, dir, vm>>
  BY DEF Lock
<1>3. LockBusy(p) => UNCHANGED <<rec, dir, vm, lock>>
  BY DEF LockBusy
<1>4. Reload(p) => UNCHANGED <<rec, dir, vm>>
  BY DEF Reload
<1>5. InitImage(p) => UNCHANGED <<rec, dir, vm, lock>>
  BY DEF InitImage
<1>6. InitReuse(p) => UNCHANGED <<rec, vm>>
  BY DEF InitReuse
<1>7. InitDownload(p) => UNCHANGED <<rec, vm, lock>>
  BY DEF InitDownload
<1>8. InitVerify(p) => UNCHANGED <<rec, vm>>
  BY DEF InitVerify
<1>9. InitInstall(p) => UNCHANGED <<rec, vm, lock>>
  BY DEF InitInstall
<1>10. InitMarker(p) => UNCHANGED <<rec, vm, lock>>
  BY DEF InitMarker
<1>11. InitSave(p) => UNCHANGED <<dir, vm>>
  BY DEF InitSave
<1>12. SetApply(p) => UNCHANGED <<rec, dir, vm>>
  BY DEF SetApply
<1>13. SetGrow(p) => UNCHANGED <<rec, vm, lock>>
  BY DEF SetGrow
<1>14. SetSaveGrow(p) => UNCHANGED <<dir, vm, lock>>
  BY DEF SetSaveGrow
<1>15. SetResize(p) => UNCHANGED <<rec, lock>>
  BY DEF SetResize
<1>16. SetGuest(p) => UNCHANGED <<rec, dir, lock>>
  BY DEF SetGuest
<1>17. SetSave(p) => UNCHANGED <<dir, vm>>
  BY DEF SetSave
<1>18. SetArc(p) => UNCHANGED <<rec, dir>>
  BY DEF SetArc
<1>19. StartSave(p) => UNCHANGED <<dir, vm, lock>>
  BY DEF StartSave
<1>20. StartBoot(p) => UNCHANGED <<rec, dir>>
  BY DEF StartBoot
<1>21. StartGrow(p) => UNCHANGED <<rec, dir, lock>>
  BY DEF StartGrow
<1>22. StartGrown(p) => UNCHANGED <<dir, vm, lock>>
  BY DEF StartGrown
<1>23. StartArc(p) => UNCHANGED <<rec, dir>>
  BY DEF StartArc
<1>24. StopOrSuspend(p) => UNCHANGED <<rec, dir>>
  BY DEF StopOrSuspend
<1>25. Cut(p) => UNCHANGED <<rec, dir, vm>>
  BY DEF Cut
<1>26. GuestGone(p) => UNCHANGED <<rec, dir, vm>>
  BY DEF GuestGone
<1>27. StartWarns(p) => UNCHANGED <<rec, dir, vm>>
  BY DEF StartWarns
<1>28. InitClean(p) => UNCHANGED <<rec, vm, lock>>
  BY DEF InitClean
<1>29. WakeDiscards(p) => UNCHANGED <<rec, dir, lock>>
  BY DEF WakeDiscards
<1> QED BY <1>1, <1>2, <1>3, <1>4, <1>5, <1>6, <1>7, <1>8, <1>9, <1>10, <1>11, <1>12, <1>13,
         <1>14, <1>15, <1>16, <1>17, <1>18, <1>19, <1>20, <1>21, <1>22, <1>23, <1>24, <1>25,
         <1>26, <1>27, <1>28, <1>29

\* Every step keeps the shape of the machine directory.
LEMMA DirNext ==
    ASSUME ShapeInv, Next
    PROVE  dir' \in Directories
<1>1. dir \in Directories /\ dir.size \in Int
  BY DEF ShapeInv, Directories
<1>2. \A s \in Slots : dir.part[s] \in Contents /\ dir.archive[s] \in Contents
  BY DEF ShapeInv, Directories
<1>3. \A p \in Procs : Slot(q[p].src) \in Slots /\ q[p].src \in Sources \cup {"none"}
  BY CopyShape DEF Slot, Slots, Commands
<1>4. ASSUME NEW s \in Slots, NEW x \in Contents, put(s, "part", x)
      PROVE  dir' \in Directories
  BY <1>1, <1>4 DEF put, Directories
<1>5. ASSUME NEW s \in Slots, NEW x \in Contents, put(s, "archive", x)
      PROVE  dir' \in Directories
  BY <1>1, <1>5 DEF put, Directories
<1>6. <<>> \in Contents
  BY DEF Contents
<1>7. ASSUME NEW p \in Procs, InitReuse(p)
      PROVE  dir' \in Directories
  BY <1>1, <1>3, <1>5, <1>6, <1>7 DEF InitReuse
<1>8. ASSUME NEW p \in Procs, InitDownload(p)
      PROVE  dir' \in Directories
  <2> DEFINE s == Slot(q[p].src)
  <2>1. Append(dir.part[s], q[p].src) \in Contents /\ <<q[p].src>> \in Contents /\ s \in Slots
    BY <1>2, <1>3 DEF Contents
  <2>2. \/ UNCHANGED dir
        \/ put(s, "part", Append(dir.part[s], q[p].src))
        \/ put(s, "part", <<q[p].src>>)
    BY <1>8 DEF InitDownload
  <2> HIDE DEF s
  <2> QED BY <1>1, <1>4, <2>1, <2>2
<1>9. ASSUME NEW p \in Procs, InitVerify(p)
      PROVE  dir' \in Directories
  <2> DEFINE s == Slot(q[p].src)
             y == dir.part[s]
  <2>1. s \in Slots /\ y \in Contents
    BY <1>2, <1>3
  <2>2. \/ dir' = [dir EXCEPT !.part[s] = <<>>, !.archive[s] = y]
        \/ put(s, "part", <<>>)
    BY <1>9 DEF InitVerify
  <2> HIDE DEF s, y
  <2>3. CASE dir' = [dir EXCEPT !.part[s] = <<>>, !.archive[s] = y]
    BY <1>1, <1>6, <2>1, <2>3 DEF Directories
  <2> QED BY <1>4, <1>6, <2>1, <2>2, <2>3
<1>10. ASSUME NEW p \in Procs, InitInstall(p)
       PROVE  dir' \in Directories
  <2> DEFINE y == dir.archive[Slot(q[p].src)]
             n == Larger(ImageSize, q[p].o.disk)
  <2>1. n \in Int /\ y \in Contents
    BY <1>2, <1>3, CopyShape, AskedShape, RecordAssumption DEF Larger
  <2>2. dir' = [dir EXCEPT !.disk = y, !.size = n]
    BY <1>10 DEF InitInstall
  <2> HIDE DEF y, n
  <2> QED BY <1>1, <2>1, <2>2 DEF Directories
<1>11. ASSUME NEW p \in Procs, InitMarker(p)
       PROVE  dir' \in Directories
  <2> DEFINE b == marker(p)
  <2>1. b \in BOOLEAN
    BY <1>1 DEF marker, Directories
  <2>2. dir' = [dir EXCEPT !.marker = b]
    BY <1>11 DEF InitMarker
  <2> HIDE DEF b
  <2> QED BY <1>1, <2>1, <2>2 DEF Directories
<1>12. ASSUME NEW n \in Int, dir' = [dir EXCEPT !.size = n]
       PROVE  dir' \in Directories
  BY <1>1, <1>12 DEF Directories
<1>13. ASSUME NEW p \in Procs, SetGrow(p)
       PROVE  dir' \in Directories
  BY <1>1, <1>12, <1>13, CopyShape, AskedShape DEF SetGrow, Larger
<1>14. ASSUME NEW p \in Procs, SetResize(p)
       PROVE  dir' \in Directories
  BY <1>12, <1>14, CopyShape, AskedShape DEF SetResize
<1>15. ASSUME NEW p \in Procs, RmDelete(p)
       PROVE  dir' \in Directories
  BY <1>15, NothingShape DEF RmDelete
<1>16. CASE UNCHANGED dir
  BY <1>1, <1>16
<1>17. HypervisorDies => UNCHANGED dir
  BY DEF HypervisorDies
<1>18. ASSUME NEW p \in Procs, InitClean(p)
       PROVE  dir' \in Directories
  BY <1>3, <1>5, <1>6, <1>18 DEF InitClean
<1> QED
  BY <1>17, <1>18, <1>7, <1>8, <1>9, <1>10, <1>11, <1>13, <1>14, <1>15, <1>16, Frames
     DEF Next, Inits, Sets, Starts

\* Every step keeps the shape of the machine.
LEMMA VmNext ==
    ASSUME ShapeInv, Next
    PROVE  vm' \in Machines
<1>1. /\ vm \in Machines /\ dir.size \in Int /\ vm.loader \in Nat
      /\ vm.disk \in Int /\ vm.pool \in Int
  BY DEF ShapeInv, Directories, Machines
<1>2. \A p \in Procs : q[p].m.arc \in Nat /\ q[p].m.mem \in Nat
  BY CopyShape DEF Records
<1>3. stopped \in Machines
  <2>1. \A n \in Nat, i \in Int : [vm EXCEPT !.st = "stopped", !.mem = n, !.disk = i] \in Machines
    BY <1>1 DEF Machines, States
  <2>2. 0 \in Nat /\ 0 \in Int
    OBVIOUS
  <2> QED BY <2>1, <2>2, Zenon DEF stopped
<1>4. \A p \in Procs : capped(q[p].m) \in Machines
  BY <1>1, <1>2 DEF capped, Machines
<1>5. ASSUME NEW n \in Int, \/ vm' = [vm EXCEPT !.pool = n]
                            \/ vm' = [vm EXCEPT !.disk = n]
      PROVE  vm' \in Machines
  BY <1>1, <1>5 DEF Machines
<1>6. \A p \in Procs : growGuest(q[p].m).pool \in Int
  BY <1>1 DEF growGuest
<1>7. ASSUME NEW p \in Procs, SetResize(p)
      PROVE  vm' \in Machines
  BY <1>5, <1>7, CopyShape, AskedShape DEF SetResize
<1>8. ASSUME NEW p \in Procs, SetGuest(p) \/ StartGrow(p)
      PROVE  vm' \in Machines
  BY <1>1, <1>5, <1>6, <1>8 DEF SetGuest, StartGrow
<1>9. ASSUME NEW p \in Procs, SetArc(p) \/ StartArc(p)
      PROVE  vm' \in Machines
  BY <1>4, <1>9 DEF SetArc, StartArc
<1>10. ASSUME NEW p \in Procs
       PROVE  booted(q[p].m) \in Machines
  <2> DEFINE n == IF vm.pool = 0 THEN dir.size ELSE vm.pool
             x == q[p].m.mem
  <2>1. booted(q[p].m) = [vm EXCEPT !.st = "running", !.mem = x, !.disk = dir.size,
                                    !.arc = vm.loader, !.pool = n]
    BY <1>1 DEF booted, Machines
  <2>2. n \in Int /\ x \in Nat
    BY <1>1, <1>2
  <2> HIDE DEF n, x
  <2> QED BY <1>1, <2>1, <2>2 DEF Machines, States
<1>11. [vm EXCEPT !.st = "running"] \in Machines
  BY <1>1 DEF Machines, States
<1>12. ASSUME NEW p \in Procs, StartBoot(p)
       PROVE  vm' \in Machines
  BY <1>1, <1>10, <1>11, <1>12 DEF StartBoot
<1>13. ASSUME NEW p \in Procs
       PROVE  [vm EXCEPT !.st = "suspended", !.meta = q[p].m.arc] \in Machines
  BY <1>1, <1>2 DEF Machines, States
<1>14. ASSUME NEW p \in Procs, StopOrSuspend(p)
       PROVE  vm' \in Machines
  BY <1>1, <1>3, <1>13, <1>14 DEF StopOrSuspend
<1>15. ASSUME NEW p \in Procs, RmDelete(p)
       PROVE  vm' \in Machines
  BY <1>15, NothingShape DEF RmDelete
<1>16. CASE HypervisorDies
  BY <1>3, <1>16 DEF HypervisorDies
<1>17. CASE UNCHANGED vm
  BY <1>1, <1>17
<1>18. ASSUME NEW p \in Procs, WakeDiscards(p)
       PROVE  vm' \in Machines
  BY <1>3, <1>18 DEF WakeDiscards
<1> QED
  BY <1>18, <1>7, <1>8, <1>9, <1>12, <1>14, <1>15, <1>16, <1>17, Frames
     DEF Next, Inits, Sets, Starts

\* A command goes on at one of the places in X with its copy of the record,
\* or returns and gives up the lock.
Walks(p, X) ==
    /\ Only(p) /\ Same(p) /\ Kept(p) /\ q'[p].st = q[p].st /\ q'[p].pc \in X
    /\ lock' = lock

Leaves(p) == Only(p) /\ q'[p] = idle /\ lock' = Nobody

\* Where each step takes its command.
LEMMA WalkSteps ==
    ASSUME ShapeInv, NEW p \in Procs
    PROVE  /\ InitImage(p) => Walks(p, {"size", "fetch"})
           /\ InitReuse(p) => Walks(p, {"install"}) \/ Leaves(p)
           /\ InitDownload(p) => Walks(p, {"fetch", "verify"})
           /\ InitVerify(p) => Walks(p, {"install"}) \/ Leaves(p)
           /\ InitInstall(p) => Walks(p, {"clean"})
           /\ InitClean(p) => Walks(p, {"marker"})
           /\ InitMarker(p) => Walks(p, {"size"})
           /\ SetSaveGrow(p) => Walks(p, {"resize", "save"})
           /\ SetResize(p) => Walks(p, {"guest"})
           /\ SetGuest(p) => Walks(p, {"save"})
           /\ SetSave(p) => Walks(p, {"arc"}) \/ Leaves(p)
           /\ StartBoot(p) => Walks(p, {"finish", "arc"}) \/ Leaves(p)
           /\ StartGrow(p) => Walks(p, {"saved", "arc"})
           /\ StartGrown(p) => Walks(p, {"arc"})
           /\ StopOrSuspend(p) => Walks(p, {"delete"}) \/ Leaves(p)
           /\ StartWarns(p) => Walks(p, {"arc"}) \/ Leaves(p)
           /\ InitSave(p) => Leaves(p)
           /\ SetArc(p) => Leaves(p)
           /\ StartArc(p) => Leaves(p)
           /\ RmDelete(p) => Leaves(p)
           /\ Cut(p) => Leaves(p)
           /\ GuestGone(p) => Leaves(p)
<1>1. q \in [Procs -> Commands] /\ q[p].pc \in PCs /\ dir.marker \in BOOLEAN
  BY CopyShape DEF ShapeInv, Directories
<1>2. end(p) => Leaves(p)
  BY <1>1, EndStep DEF Leaves
<1>3. ASSUME NEW X, NEW x \in X, x \in PCs, goto(p, x), UNCHANGED lock
      PROVE  Walks(p, X)
  BY <1>1, <1>3, GotoStep DEF Walks, Kept
<1>4. ASSUME NEW X, NEW x \in X, x \in PCs, NEW b \in BOOLEAN, UNCHANGED lock,
             \/ q' = [q EXCEPT ![p].pc = x, ![p].m.trusted = b]
             \/ q' = [q EXCEPT ![p].pc = x, ![p].m.pending = b]
      PROVE  Walks(p, X)
  BY <1>4, NoteStep DEF Walks
<1>5. /\ {"size", "fetch", "verify", "install", "clean", "marker"} \subseteq PCs
      /\ {"resize", "guest", "save", "arc", "finish", "saved", "delete"} \subseteq PCs
  BY DEF PCs, InitPCs, Working, SetPCs, StartPCs
<1>6. ASSUME InitImage(p)
      PROVE  Walks(p, {"size", "fetch"})
  <2>1. \/ goto(p, "fetch") \/ q' = [q EXCEPT ![p].pc = "size", ![p].m.trusted = ~dir.marker]
    BY <1>6 DEF InitImage, goto
  <2>2. UNCHANGED lock
    BY <1>6 DEF InitImage
  <2>3. (~dir.marker) \in BOOLEAN
    OBVIOUS
  <2> QED BY <1>3, <1>4, <1>5, <2>1, <2>2, <2>3
<1>7. ASSUME InitReuse(p)
      PROVE  Walks(p, {"install"}) \/ Leaves(p)
  <2>1. (goto(p, "install") /\ UNCHANGED lock) \/ end(p)
    BY <1>7 DEF InitReuse
  <2> QED BY <1>2, <1>3, <1>5, <2>1
<1>8. ASSUME InitDownload(p)
      PROVE  Walks(p, {"fetch", "verify"})
  <2>1. goto(p, "verify") \/ UNCHANGED q
    BY <1>8 DEF InitDownload
  <2>2. UNCHANGED lock /\ q[p].pc = "fetch"
    BY <1>8 DEF InitDownload, at
  <2>3. CASE UNCHANGED q
    BY <1>1, <2>2, <2>3 DEF Walks, Only, Same, Kept
  <2> QED BY <1>3, <1>5, <2>1, <2>2, <2>3
<1>9. ASSUME InitVerify(p)
      PROVE  Walks(p, {"install"}) \/ Leaves(p)
  <2>1. (goto(p, "install") /\ UNCHANGED lock) \/ end(p)
    BY <1>9 DEF InitVerify
  <2> QED BY <1>2, <1>3, <1>5, <2>1
<1>10. ASSUME InitInstall(p)
       PROVE  Walks(p, {"clean"})
  <2>1. (goto(p, "clean") /\ UNCHANGED lock)
    BY <1>10 DEF InitInstall
  <2> QED BY <1>3, <1>5, <2>1
<1>22. ASSUME InitClean(p)
       PROVE  Walks(p, {"marker"})
  <2>1. (goto(p, "marker") /\ UNCHANGED lock)
    BY <1>22 DEF InitClean
  <2> QED BY <1>3, <1>5, <2>1
<1>11. ASSUME InitMarker(p)
      PROVE  Walks(p, {"size"})
  <2>1. q' = [q EXCEPT ![p].pc = "size", ![p].m.trusted = (q[p].src \in Summed)] /\ UNCHANGED lock
    BY <1>11 DEF InitMarker
  <2>2. (q[p].src \in Summed) \in BOOLEAN
    OBVIOUS
  <2> QED BY <1>4, <1>5, <2>1, <2>2
<1>12. ASSUME SetSaveGrow(p)
      PROVE  Walks(p, {"resize", "save"})
  <2>1. (goto(p, "resize") \/ goto(p, "save")) /\ UNCHANGED lock
    BY <1>12 DEF SetSaveGrow
  <2> QED BY <1>3, <1>5, <2>1
<1>13. ASSUME SetResize(p)
      PROVE  Walks(p, {"guest"})
  <2>1. (goto(p, "guest") /\ UNCHANGED lock)
    BY <1>13 DEF SetResize
  <2> QED BY <1>3, <1>5, <2>1
<1>14. ASSUME SetGuest(p)
      PROVE  Walks(p, {"save"})
  <2>1. q' = [q EXCEPT ![p].pc = "save", ![p].m.pending = FALSE] /\ UNCHANGED lock
    BY <1>14 DEF SetGuest
  <2> QED BY <1>4, <1>5, <2>1
<1>15. ASSUME SetSave(p)
      PROVE  Walks(p, {"arc"}) \/ Leaves(p)
  <2>1. (goto(p, "arc") /\ UNCHANGED lock) \/ end(p)
    BY <1>15 DEF SetSave
  <2> QED BY <1>2, <1>3, <1>5, <2>1
<1>16. ASSUME StartBoot(p)
      PROVE  Walks(p, {"finish", "arc"}) \/ Leaves(p)
  <2>1. (goto(p, "finish") /\ UNCHANGED lock) \/ (goto(p, "arc") /\ UNCHANGED lock) \/ end(p)
    BY <1>16 DEF StartBoot
  <2> QED BY <1>2, <1>3, <1>5, <2>1
<1>17. ASSUME StartGrow(p)
      PROVE  Walks(p, {"saved", "arc"})
  <2>1. /\ goto(p, "arc") \/ q' = [q EXCEPT ![p].pc = "saved", ![p].m.pending = FALSE]
        /\ UNCHANGED lock
    BY <1>17 DEF StartGrow
  <2> QED BY <1>3, <1>4, <1>5, <2>1
<1>18. ASSUME StartGrown(p)
      PROVE  Walks(p, {"arc"})
  <2>1. (goto(p, "arc") /\ UNCHANGED lock)
    BY <1>18 DEF StartGrown
  <2> QED BY <1>3, <1>5, <2>1
<1>19. ASSUME StopOrSuspend(p)
      PROVE  Walks(p, {"delete"}) \/ Leaves(p)
  <2>1. (goto(p, "delete") /\ UNCHANGED lock) \/ end(p)
    BY <1>19 DEF StopOrSuspend
  <2> QED BY <1>2, <1>3, <1>5, <2>1
<1>20. ASSUME StartWarns(p)
      PROVE  Walks(p, {"arc"}) \/ Leaves(p)
  <2>1. (goto(p, "arc") /\ UNCHANGED lock) \/ end(p)
    BY <1>20 DEF StartWarns
  <2> QED BY <1>2, <1>3, <1>5, <2>1
<1>21. /\ InitSave(p) => end(p)
       /\ SetArc(p) => end(p)
       /\ StartArc(p) => end(p)
       /\ RmDelete(p) => end(p)
       /\ Cut(p) => end(p)
       /\ GuestGone(p) => end(p)
  BY DEF InitSave, SetArc, StartArc, RmDelete, Cut, GuestGone
<1> QED BY <1>2, <1>6, <1>7, <1>8, <1>9, <1>10, <1>11, <1>12, <1>13, <1>14, <1>15, <1>16, <1>17,
         <1>18, <1>19, <1>20, <1>21, <1>22

\* What a save, an rm and the lock do to the state.
LEMMA SaveSteps ==
    ASSUME ShapeInv, NEW p \in Procs
    PROVE  /\ SetSaveGrow(p) \/ SetSave(p) \/ StartGrown(p) => rec' = q[p].m
           /\ RmDelete(p) => rec' = NoRec /\ dir' = noDir /\ vm' = noVM
           /\ LockBusy(p) => Only(p) /\ q'[p] = idle /\ lock' = lock
           /\ Lock(p) => q[p].pc = "lock" /\ lock = Nobody /\ lock' = p
<1>1. SetSaveGrow(p) => rec' = q[p].m
  BY DEF SetSaveGrow
<1>2. SetSave(p) => rec' = q[p].m
  BY DEF SetSave
<1>3. StartGrown(p) => rec' = q[p].m
  BY DEF StartGrown
<1>4. RmDelete(p) => rec' = NoRec /\ dir' = noDir /\ vm' = noVM
  BY DEF RmDelete
<1>5. LockBusy(p) => Only(p) /\ q'[p] = idle /\ lock' = lock
  BY NothingShape, UpdateStep DEF LockBusy, ShapeInv
<1>6. Lock(p) => q[p].pc = "lock" /\ lock = Nobody /\ lock' = p
  BY DEF Lock
<1> QED BY <1>1, <1>2, <1>3, <1>4, <1>5, <1>6

\* The disjuncts of Next.
LEMMA NextSplit ==
    ASSUME Next
    PROVE  \/ HypervisorDies
           \/ \E p \in Procs :
                \/ Calls(p) \/ Lock(p) \/ LockBusy(p) \/ Reload(p)
                \/ InitImage(p) \/ InitReuse(p) \/ InitDownload(p) \/ InitVerify(p)
                \/ InitInstall(p) \/ InitClean(p) \/ InitMarker(p) \/ InitSave(p)
                \/ SetApply(p) \/ SetGrow(p) \/ SetSaveGrow(p) \/ SetResize(p) \/ SetGuest(p)
                \/ SetSave(p) \/ SetArc(p)
                \/ StartSave(p) \/ StartBoot(p) \/ WakeDiscards(p) \/ StartGrow(p)
                \/ StartGrown(p) \/ StartArc(p)
                \/ StopOrSuspend(p) \/ RmDelete(p) \/ Cut(p) \/ GuestGone(p) \/ StartWarns(p)
  BY DEF Next, Inits, Sets, Starts

\* A start that gives up a saved state goes on as one of a stopped machine.
LEMMA WakeDiscardsStep ==
    ASSUME ShapeInv, NEW p \in Procs, WakeDiscards(p)
    PROVE  /\ Only(p) /\ Same(p) /\ q'[p].m = q[p].m /\ q'[p].pc = "addr" /\ q'[p].st = "stopped"
           /\ q[p].pc = "boot" /\ lock = p /\ lock' = lock /\ torn' = torn
           /\ vm'.st = "stopped" /\ vm'.pool = vm.pool /\ UNCHANGED <<rec, dir>>
<1> DEFINE c == [q[p] EXCEPT !.st = "stopped", !.pc = "addr"]
<1>1. q \in [Procs -> Commands] /\ q[p] \in Commands /\ vm \in Machines
  BY DEF ShapeInv
<1>2. /\ c \in Commands /\ c.cmd = q[p].cmd /\ c.o = q[p].o /\ c.src = q[p].src
      /\ c.pc = "addr" /\ c.m = q[p].m /\ c.st = "stopped"
  BY <1>1 DEF Commands, States, PCs, Working, StartPCs
<1>3. q' = [q EXCEPT ![p] = c]
  BY DEF WakeDiscards
<1> HIDE DEF c
<1>4. Only(p) /\ q'[p] = c
  BY <1>1, <1>2, <1>3, UpdateStep
<1>5. vm' = stopped /\ q[p].pc = "boot" /\ lock = p /\ UNCHANGED <<rec, dir, lock, torn>>
  BY DEF WakeDiscards, at
<1>6. vm'.st = "stopped" /\ vm'.pool = vm.pool
  BY <1>1, <1>5 DEF stopped, Machines
<1> QED BY <1>2, <1>4, <1>5, <1>6 DEF Same

\* Every step keeps the shape of the state.
LEMMA ShapeNext ==
    ASSUME ShapeInv, Next
    PROVE  ShapeInv'
<1>1. dir' \in Directories /\ vm' \in Machines
  BY DirNext, VmNext
<1>2. rec \in Records /\ NoRec \in Records /\ \A p \in Procs : q[p].m \in Records
  BY CopyShape, NothingShape DEF ShapeInv
<1>3. rec' \in Records
  <2>1. HypervisorDies => UNCHANGED rec
    BY DEF HypervisorDies
  <2> QED BY <1>2, <2>1, NextSplit, Frames, SaveSteps, InitSaveStep, StartSaveStep
<1>4. q' \in [Procs -> Commands]
  <2>1. HypervisorDies => UNCHANGED q
    BY DEF HypervisorDies
  <2>2. \A p \in Procs : Only(p) \/ UNCHANGED q => q' \in [Procs -> Commands]
    BY DEF Only, ShapeInv
  <2>3. \A p \in Procs : Leaves(p) => Only(p)
    BY DEF Leaves
  <2>4. \A p \in Procs : \A X : Walks(p, X) => Only(p)
    BY DEF Walks
  <2>5. \A p \in Procs : Calls(p) => Only(p)
    BY CallInitStep, CallsStep DEF Waiting
  <2>6. \A p \in Procs : Reload(p) \/ SetApply(p) => Only(p)
    BY ReloadStep, SetApplyStep, EndStep DEF ShapeInv
  <2>7. \A p \in Procs :
          Lock(p) \/ LockBusy(p) \/ SetGrow(p) \/ StartSave(p) \/ WakeDiscards(p) => Only(p)
    BY LockStep, SaveSteps, SetGrowStep, StartSaveStep, WakeDiscardsStep
  <2> QED BY <2>1, <2>2, <2>3, <2>4, <2>5, <2>6, <2>7, NextSplit, WalkSteps DEF ShapeInv
<1>5. lock' \in Procs \cup {Nobody}
  <2>1. HypervisorDies => UNCHANGED lock
    BY DEF HypervisorDies
  <2>2. \A p \in Procs : Leaves(p) => lock' = Nobody
    BY DEF Leaves
  <2>3. \A p \in Procs : \A X : Walks(p, X) => lock' = lock
    BY DEF Walks
  <2>4. \A p \in Procs : Reload(p) \/ SetApply(p) => lock' \in {Nobody, lock}
    BY ReloadStep, SetApplyStep, EndStep DEF ShapeInv
  <2> QED BY <2>1, <2>2, <2>3, <2>4, NextSplit, Frames, SaveSteps, WalkSteps DEF ShapeInv
<1> QED BY <1>1, <1>3, <1>4, <1>5 DEF ShapeInv

\* Options validated against a record give one whose cap fits (setOpts.validate).
LEMMA ValidatedFits ==
    ASSUME NEW m \in Records, NEW n \in Records, NEW o \in Options, Fits(m), validate(o, m),
           n.mem = given(o.mem, m.mem), n.arc = given(o.arc, m.arc)
    PROVE  Fits(n)
<1>1. CASE o.arc = Unset /\ o.mem = Unset
  BY <1>1 DEF given, Fits
<1>2. CASE validateArc(given(o.arc, m.arc), given(o.mem, m.mem))
  BY <1>2 DEF Fits
<1> QED BY <1>1, <1>2 DEF validate

\* Every step keeps the caps of the record and of its copies within the memory.
LEMMA CapNext ==
    ASSUME ShapeInv, CapInv, Next
    PROVE  CapInv'
<1>1. ASSUME NEW p \in Procs, Only(p), Fits(rec'), Fits(q'[p].m),
             q'[p].pc = "apply" => validate(q'[p].o, q'[p].m)
      PROVE  CapInv'
  BY <1>1 DEF CapInv, Only
<1>3. \A p \in Procs : q[p].m \in Records /\ q[p].o \in Options /\ Fits(q[p].m)
  BY CopyShape DEF CapInv
<1>4. Fits(rec) /\ Fits(NoRec) /\ idle.m = NoRec /\ idle.pc = "end"
  BY DEF CapInv, Fits, validateArc, NoRec, idle
<1>5. ASSUME NEW p \in Procs, Leaves(p) \/ (Only(p) /\ q'[p] = idle), Fits(rec')
      PROVE  CapInv'
  BY <1>1, <1>4, <1>5 DEF Leaves
<1>6. ASSUME NEW p \in Procs, NEW X, Walks(p, X), "apply" \notin X, Fits(rec')
      PROVE  CapInv'
  <2>1. Only(p) /\ q'[p].pc # "apply" /\ Kept(p)
    BY <1>6 DEF Walks
  <2>2. Fits(q'[p].m)
    BY <1>3, <2>1 DEF Kept, Fits
  <2> QED BY <1>1, <1>6, <2>1, <2>2
<1>7. ASSUME NEW p \in Procs, Calls(p)
      PROVE  CapInv'
  <2>1. Waiting(p) /\ Fits(q'[p].m)
    BY <1>4, <1>7, CallInitStep, CallsStep
  <2> QED BY <1>1, <1>4, <2>1 DEF Waiting
<1>8. ASSUME NEW p \in Procs, Lock(p)
      PROVE  CapInv'
  BY <1>1, <1>3, <1>4, <1>8, LockStep, Frames
<1>9. ASSUME NEW p \in Procs, Reload(p)
      PROVE  CapInv'
  <2>1. UNCHANGED rec
    BY <1>9, Frames
  <2>2. CASE end(p)
    BY <1>4, <1>5, <2>1, <2>2, EndStep DEF ShapeInv
  <2>3. CASE ~end(p)
    BY <1>1, <1>4, <1>9, <2>1, <2>3, ReloadStep DEF Same
  <2> QED BY <2>2, <2>3
<1>10. ASSUME NEW p \in Procs, SetApply(p)
       PROVE  CapInv'
  <2>1. UNCHANGED rec
    BY <1>10, Frames
  <2>2. CASE end(p)
    BY <1>4, <1>5, <2>1, <2>2, EndStep DEF ShapeInv
  <2>3. CASE ~end(p)
    <3>1. q'[p].m \in Records
      BY <1>10, ShapeNext, CopyShape, <2>3, SetApplyStep DEF Only, Commands
    <3>2. validate(q[p].o, q[p].m)
      BY <1>10 DEF SetApply, at, CapInv
    <3>3. Fits(q'[p].m)
      BY <1>3, <1>10, <2>3, <3>1, <3>2, SetApplyStep, ValidatedFits
    <3> QED BY <1>1, <1>4, <1>10, <2>1, <2>3, <3>3, SetApplyStep
  <2> QED BY <2>2, <2>3
<1>11. ASSUME NEW p \in Procs, SetGrow(p)
       PROVE  CapInv'
  <2>1. Fits(q'[p].m)
    BY <1>3, <1>11, SetGrowStep DEF Fits
  <2> QED BY <1>1, <1>4, <1>11, <2>1, SetGrowStep, Frames
<1>12. ASSUME NEW p \in Procs, StartSave(p)
       PROVE  CapInv'
  <2>1. Fits(q'[p].m) /\ Fits(rec')
    BY <1>3, <1>4, <1>12, StartSaveStep DEF Fits
  <2> QED BY <1>1, <1>12, <2>1, StartSaveStep
<1>13. ASSUME NEW p \in Procs, InitSave(p)
       PROVE  CapInv'
  <2>1. Fits(rec')
    BY <1>3, <1>13, InitSaveStep DEF Fits
  <2> QED BY <1>5, <1>13, <2>1, WalkSteps
<1>14. CASE HypervisorDies
  BY <1>14 DEF HypervisorDies, CapInv
<1>15. ASSUME NEW p \in Procs, WakeDiscards(p)
       PROVE  CapInv'
  BY <1>1, <1>3, <1>4, <1>15, WakeDiscardsStep
<1> QED
  BY <1>15, <1>3, <1>4, <1>5, <1>6, <1>7, <1>8, <1>9, <1>10, <1>11, <1>12, <1>13, <1>14,
     NextSplit, Frames, SaveSteps, WalkSteps

\* Where each step finds its command, and that it holds the lock.
LEMMA AtSteps ==
    ASSUME NEW p \in Procs
    PROVE  /\ Reload(p) => q[p].pc = "reload" /\ lock = p
           /\ InitImage(p) => q[p].pc = "image" /\ lock = p
           /\ InitReuse(p) \/ InitDownload(p) => q[p].pc = "fetch" /\ lock = p
           /\ InitVerify(p) => q[p].pc = "verify" /\ lock = p
           /\ InitInstall(p) => q[p].pc = "install" /\ lock = p
           /\ InitClean(p) => q[p].pc = "clean" /\ lock = p
           /\ InitMarker(p) => q[p].pc = "marker" /\ lock = p
           /\ InitSave(p) => q[p].pc = "size" /\ lock = p
           /\ SetApply(p) => q[p].pc = "apply" /\ lock = p
           /\ SetGrow(p) => q[p].pc = "grow" /\ lock = p
           /\ SetSaveGrow(p) => q[p].pc = "savegrow" /\ lock = p
           /\ SetResize(p) => q[p].pc = "resize" /\ lock = p
           /\ SetGuest(p) => q[p].pc = "guest" /\ lock = p
           /\ SetSave(p) => q[p].pc = "save" /\ lock = p
           /\ SetArc(p) \/ StartArc(p) => q[p].pc = "arc" /\ lock = p
           /\ StartSave(p) => q[p].pc = "addr" /\ lock = p
           /\ StartBoot(p) => q[p].pc = "boot" /\ lock = p
           /\ StartGrow(p) => q[p].pc = "finish" /\ lock = p
           /\ StartGrown(p) => q[p].pc = "saved" /\ lock = p
           /\ StopOrSuspend(p) => q[p].pc = "stop" /\ lock = p
           /\ RmDelete(p) => q[p].pc = "delete" /\ lock = p
           /\ Cut(p) \/ GuestGone(p) => lock = p
           /\ StartWarns(p) => q[p].cmd = "start" /\ q[p].pc \in {"finish", "saved", "arc"} /\ lock = p
<1>1. /\ Reload(p) => q[p].pc = "reload" /\ lock = p
      /\ InitImage(p) => q[p].pc = "image" /\ lock = p
      /\ InitReuse(p) \/ InitDownload(p) => q[p].pc = "fetch" /\ lock = p
      /\ InitVerify(p) => q[p].pc = "verify" /\ lock = p
      /\ InitInstall(p) => q[p].pc = "install" /\ lock = p
      /\ InitClean(p) => q[p].pc = "clean" /\ lock = p
      /\ InitMarker(p) => q[p].pc = "marker" /\ lock = p
      /\ InitSave(p) => q[p].pc = "size" /\ lock = p
  BY Zenon DEF at, Reload, InitImage, InitReuse, InitDownload, InitVerify, InitInstall, InitClean,
         InitMarker, InitSave
<1>2. /\ SetApply(p) => q[p].pc = "apply" /\ lock = p
      /\ SetGrow(p) => q[p].pc = "grow" /\ lock = p
      /\ SetSaveGrow(p) => q[p].pc = "savegrow" /\ lock = p
      /\ SetResize(p) => q[p].pc = "resize" /\ lock = p
      /\ SetGuest(p) => q[p].pc = "guest" /\ lock = p
      /\ SetSave(p) => q[p].pc = "save" /\ lock = p
      /\ SetArc(p) \/ StartArc(p) => q[p].pc = "arc" /\ lock = p
  BY Zenon DEF at, SetApply, SetGrow, SetSaveGrow, SetResize, SetGuest, SetSave, SetArc, StartArc
<1>3. /\ StartSave(p) => q[p].pc = "addr" /\ lock = p
      /\ StartBoot(p) => q[p].pc = "boot" /\ lock = p
      /\ StartGrow(p) => q[p].pc = "finish" /\ lock = p
      /\ StartGrown(p) => q[p].pc = "saved" /\ lock = p
      /\ StopOrSuspend(p) => q[p].pc = "stop" /\ lock = p
      /\ RmDelete(p) => q[p].pc = "delete" /\ lock = p
      /\ Cut(p) \/ GuestGone(p) => lock = p
      /\ StartWarns(p) => q[p].cmd = "start" /\ q[p].pc \in {"finish", "saved", "arc"} /\ lock = p
  BY Zenon DEF at, StartSave, StartBoot, StartGrow, StartGrown, StopOrSuspend, RmDelete, Cut, GuestGone,
         StartWarns
<1> QED BY <1>1, <1>2, <1>3

\* Every step leaves each command at a place of its own, under the lock.
LEMMA PlaceNext ==
    ASSUME ShapeInv, PlaceInv, Next
    PROVE  PlaceInv'
<1> USE DEF InitPCs, SetPCs, StartPCs
<1>1. ASSUME NEW p \in Procs, Only(p), lock' = lock \/ lock \in {p, Nobody}, Placed(p)'
      PROVE  PlaceInv'
  <2>1. ASSUME NEW r \in Procs, r # p
        PROVE  Placed(r)'
    <3>1. q'[r] = q[r] /\ Placed(r) /\ Nobody # r
      BY <1>1, <2>1, RecordAssumption DEF Only, PlaceInv
    <3> QED BY <1>1, <2>1, <3>1 DEF Placed
  <2> QED BY <1>1, <2>1 DEF PlaceInv
<1>2. idle.cmd = "none" /\ idle.pc = "end"
  BY DEF idle
<1>3. ASSUME NEW p \in Procs, Leaves(p), lock = p
      PROVE  PlaceInv'
  BY <1>1, <1>2, <1>3 DEF Leaves, Placed
<1>4. ASSUME NEW p \in Procs, LockBusy(p)
      PROVE  PlaceInv'
  BY <1>1, <1>2, <1>4, SaveSteps DEF Placed
<1>5. ASSUME NEW p \in Procs, Calls(p)
      PROVE  PlaceInv'
  <2>1. Only(p) /\ q'[p].pc = "lock" /\ lock' = lock
    BY <1>5, CallInitStep, CallsStep DEF Waiting
  <2> QED BY <1>1, <2>1 DEF Placed
<1>6. ASSUME NEW p \in Procs, Lock(p)
      PROVE  PlaceInv'
  <2>1. q[p].cmd \in {"none", "init", "set", "start", "stop", "suspend", "rm"}
    BY CopyShape DEF Commands
  <2>2. q'[p].cmd = q[p].cmd /\ lock' = p /\ lock = Nobody
    BY <1>6, LockStep, SaveSteps DEF Same
  <2>3. Placed(p)'
    BY <1>6, <2>1, <2>2, LockStep DEF Placed
  <2> QED BY <1>1, <1>6, <2>2, <2>3, LockStep
<1>7. ASSUME NEW p \in Procs, Reload(p)
      PROVE  PlaceInv'
  <2>1. q[p].pc = "reload" /\ lock = p
    BY <1>7, AtSteps
  <2>2. CASE end(p)
    BY <1>3, <2>1, <2>2, EndStep DEF Leaves, ShapeInv
  <2>3. CASE ~end(p)
    <3>1. Placed(p)'
      BY <1>7, <2>1, <2>3, ReloadStep DEF Placed, Same
    <3> QED BY <1>1, <1>7, <2>3, <3>1, ReloadStep
  <2> QED BY <2>2, <2>3
<1>8. ASSUME NEW p \in Procs, SetApply(p)
      PROVE  PlaceInv'
  <2>1. q[p].cmd = "set" /\ lock = p
    BY <1>8, AtSteps DEF PlaceInv, Placed
  <2>2. CASE end(p)
    BY <1>3, <2>1, <2>2, EndStep DEF Leaves, ShapeInv
  <2>3. CASE ~end(p)
    <3>1. Placed(p)'
      BY <1>8, <2>1, <2>3, SetApplyStep DEF Placed, Same
    <3> QED BY <1>1, <1>8, <2>3, <3>1, SetApplyStep
  <2> QED BY <2>2, <2>3
<1>9. ASSUME NEW p \in Procs, SetGrow(p)
      PROVE  PlaceInv'
  <2>1. q[p].cmd = "set" /\ lock = p /\ lock' = lock
    BY <1>9, AtSteps, Frames DEF PlaceInv, Placed
  <2>2. Placed(p)'
    BY <1>9, <2>1, SetGrowStep DEF Placed, Same
  <2> QED BY <1>1, <1>9, <2>1, <2>2, SetGrowStep
<1>10. ASSUME NEW p \in Procs, StartSave(p)
       PROVE  PlaceInv'
  <2>1. q[p].cmd = "start" /\ lock = p /\ lock' = lock
    BY <1>10, AtSteps, Frames DEF PlaceInv, Placed
  <2>2. Placed(p)'
    BY <1>10, <2>1, StartSaveStep DEF Placed, Same
  <2> QED BY <1>1, <1>10, <2>1, <2>2, StartSaveStep
<1>11. ASSUME NEW p \in Procs, lock = p, NEW X, Walks(p, X),
              \/ q[p].cmd = "init" /\ X \subseteq InitPCs
              \/ q[p].cmd = "set" /\ X \subseteq SetPCs \cup {"arc"}
              \/ q[p].cmd = "start" /\ X \subseteq StartPCs \cup {"arc"}
              \/ X = {"delete"}
       PROVE  PlaceInv'
  <2>1. Only(p) /\ lock' = lock /\ q'[p].cmd = q[p].cmd /\ q'[p].pc \in X
    BY <1>11 DEF Walks, Same
  <2>2. Placed(p)'
    BY <1>11, <2>1 DEF Placed
  <2> QED BY <1>1, <2>1, <2>2
<1>12. ASSUME NEW p \in Procs
       PROVE  /\ q[p].pc \in InitPCs => q[p].cmd = "init"
              /\ q[p].pc \in SetPCs => q[p].cmd = "set"
              /\ q[p].pc \in StartPCs => q[p].cmd = "start"
  BY DEF PlaceInv, Placed
<1>13. ASSUME NEW p \in Procs,
              \/ InitImage(p) \/ InitReuse(p) \/ InitDownload(p) \/ InitVerify(p)
              \/ InitInstall(p) \/ InitClean(p) \/ InitMarker(p)
       PROVE  PlaceInv'
  BY <1>3, <1>11, <1>12, <1>13, AtSteps, WalkSteps
<1>14. ASSUME NEW p \in Procs, SetSaveGrow(p) \/ SetResize(p) \/ SetGuest(p) \/ SetSave(p)
       PROVE  PlaceInv'
  BY <1>3, <1>11, <1>12, <1>14, AtSteps, WalkSteps
<1>15. ASSUME NEW p \in Procs, StartBoot(p) \/ StartGrow(p) \/ StartGrown(p) \/ StartWarns(p)
       PROVE  PlaceInv'
  BY <1>3, <1>11, <1>12, <1>15, AtSteps, WalkSteps
<1>16. ASSUME NEW p \in Procs, StopOrSuspend(p)
       PROVE  PlaceInv'
  BY <1>3, <1>11, <1>16, AtSteps, WalkSteps
<1>17. CASE HypervisorDies
  BY <1>17 DEF HypervisorDies, PlaceInv, Placed
<1>18. ASSUME NEW p \in Procs, WakeDiscards(p)
       PROVE  PlaceInv'
  <2>1. q[p].cmd = "start"
    BY <1>18, WakeDiscardsStep DEF PlaceInv, Placed
  <2>2. Placed(p)'
    BY <1>18, <2>1, WakeDiscardsStep DEF Placed, Same
  <2> QED BY <1>1, <1>18, <2>2, WakeDiscardsStep
<1> QED
  BY <1>18, <1>3, <1>4, <1>5, <1>6, <1>7, <1>8, <1>9, <1>10, <1>13, <1>14, <1>15, <1>16, <1>17,
     NextSplit, AtSteps, WalkSteps

\* What each step does to the state and the memory of the machine.
LEMMA VmSteps ==
    ASSUME ShapeInv, NEW p \in Procs
    PROVE  /\ SetResize(p) \/ SetGuest(p) \/ SetArc(p) \/ StartGrow(p) \/ StartArc(p) =>
                vm'.st = vm.st /\ vm'.mem = vm.mem
           /\ StartBoot(p) =>
                \/ q[p].st = "stopped" /\ vm'.mem = q[p].m.mem
                \/ q[p].st = "suspended" /\ vm'.mem = vm.mem
                \/ vm' = vm
           /\ StopOrSuspend(p) =>
                vm'.st = "stopped" \/ (vm.st # "stopped" /\ vm'.mem = vm.mem)
<1>1. vm \in Machines
  BY DEF ShapeInv
<1>2. ASSUME SetResize(p)
      PROVE  vm'.st = vm.st /\ vm'.mem = vm.mem
  <2>1. vm' = [vm EXCEPT !.disk = q[p].o.disk]
    BY <1>2 DEF SetResize
  <2> QED BY <1>1, <2>1 DEF Machines
<1>3. ASSUME SetGuest(p) \/ StartGrow(p)
      PROVE  vm'.st = vm.st /\ vm'.mem = vm.mem
  <2>1. vm' = vm \/ vm' = [vm EXCEPT !.pool = growGuest(q[p].m).pool]
    BY <1>3 DEF SetGuest, StartGrow
  <2> QED BY <1>1, <2>1 DEF Machines
<1>4. ASSUME SetArc(p) \/ StartArc(p)
      PROVE  vm'.st = vm.st /\ vm'.mem = vm.mem
  <2>1. vm' = [vm EXCEPT !.arc = q[p].m.arc, !.loader = q[p].m.arc]
    BY <1>4 DEF SetArc, StartArc, capped
  <2> QED BY <1>1, <2>1 DEF Machines
<1>5. ASSUME StartBoot(p)
      PROVE  \/ q[p].st = "stopped" /\ vm'.mem = q[p].m.mem
             \/ q[p].st = "suspended" /\ vm'.mem = vm.mem
             \/ vm' = vm
  <2>1. \/ q[p].st = "stopped" /\ vm' = booted(q[p].m)
        \/ q[p].st = "suspended" /\ vm' = [vm EXCEPT !.st = "running"]
        \/ vm' = vm
    BY <1>5 DEF StartBoot
  <2>2. booted(q[p].m).mem = q[p].m.mem
    BY <1>1 DEF booted, Machines
  <2> QED BY <1>1, <2>1, <2>2 DEF Machines
<1>6. ASSUME StopOrSuspend(p)
      PROVE  vm'.st = "stopped" \/ (vm.st # "stopped" /\ vm'.mem = vm.mem)
  <2>1. \/ vm' = stopped
        \/ vm.st = "running" /\ vm' = [vm EXCEPT !.st = "suspended", !.meta = q[p].m.arc]
        \/ vm' = vm
    BY <1>6 DEF StopOrSuspend
  <2>2. stopped.st = "stopped"
    BY <1>1 DEF stopped, Machines
  <2> QED BY <1>1, <2>1, <2>2 DEF Machines
<1> QED BY <1>2, <1>3, <1>4, <1>5, <1>6

\* A hypervisor that dies leaves a stopped machine and touches nothing else.
LEMMA DiesStep ==
    ASSUME ShapeInv, HypervisorDies
    PROVE  vm.st = "running" /\ vm'.st = "stopped" /\ UNCHANGED <<rec, q, lock>>
<1>1. vm \in Machines /\ vm' = stopped
  BY DEF ShapeInv, HypervisorDies
<1> QED BY <1>1 DEF stopped, Machines, HypervisorDies

\* A command that saves holds the lock and works on its copy.
LEMMA SavesOwn ==
    ASSUME ShapeInv, PlaceInv, CopyInv, NEW p \in Procs,
           SetSaveGrow(p) \/ SetSave(p) \/ StartGrown(p) \/ StartSave(p)
    PROVE  /\ lock = p /\ q[p].cmd \in {"set", "start"} /\ Copied(p)
           /\ q[p].pc \in Working
<1>1. /\ lock = p
      /\ q[p].pc \in SetPCs \/ q[p].pc \in StartPCs
  BY AtSteps DEF SetPCs, StartPCs
<1> QED BY <1>1 DEF PlaceInv, Placed, CopyInv, Working

\* What a save puts into the record.
LEMMA SavedRecord ==
    ASSUME ShapeInv, PlaceInv, CreateInv, CopyInv, NEW p \in Procs,
           SetSaveGrow(p) \/ SetSave(p) \/ StartGrown(p) \/ StartSave(p)
    PROVE  /\ rec'.addr \in Addrs /\ rec' # NoRec
           /\ Taken(rec'.mem, rec.mem, q[p].o.mem) /\ Taken(rec'.arc, rec.arc, q[p].o.arc)
           /\ Taken(rec'.disk, rec.disk, q[p].o.disk) /\ Taken(rec'.addr, rec.addr, q[p].o.addr)
           /\ vm.st # "stopped" => rec'.mem = rec.mem
<1>1. Copied(p) /\ q[p].o \in Options
  BY SavesOwn, CopyShape
<1>2. q[p].o.addr \in Addrs \cup {Unset}
  BY <1>1 DEF Options
<1>3. \A m : m.addr \in Addrs => m # NoRec
  BY RecordAssumption DEF NoRec
<1>4. CASE SetSaveGrow(p) \/ SetSave(p) \/ StartGrown(p)
  <2>1. rec' = q[p].m
    BY <1>4, SaveSteps
  <2> QED BY <1>1, <1>3, <2>1 DEF Copied
<1>5. CASE StartSave(p)
  <2>1. CASE rec' = rec /\ q'[p].m = q[p].m
    BY <1>1, <1>5, <2>1 DEF Copied, Taken, CreateInv
  <2>2. CASE q'[p].m.addr = given(q[p].o.addr, q[p].m.addr) /\ rec' = q'[p].m
    <3>1. rec'.mem = q[p].m.mem /\ rec'.arc = q[p].m.arc /\ rec'.disk = q[p].m.disk
      BY <1>5, <2>2, StartSaveStep
    <3>2. rec'.addr = given(q[p].o.addr, q[p].m.addr)
      BY <2>2
    <3> QED BY <1>1, <1>2, <1>3, <3>1, <3>2 DEF Copied, Taken, given
  <2> QED BY <1>5, <2>1, <2>2, StartSaveStep
<1> QED BY <1>4, <1>5

\* Every step keeps a machine created once, if inits do not overlap.
LEMMA CreateNext ==
    ASSUME ~ConcurrentInit, ShapeInv, PlaceInv, CreateInv, CopyInv, Next
    PROVE  CreateInv'
<1>1. ASSUME NEW p \in Procs, Only(p), UNCHANGED rec,
             \/ q'[p].cmd # "init"
             \/ q'[p].cmd = q[p].cmd /\ q'[p].m.addr = q[p].m.addr
      PROVE  CreateInv'
  BY <1>1 DEF CreateInv, Only
<1>2. idle.cmd = "none"
  BY DEF idle
<1>3. ASSUME NEW p \in Procs, Leaves(p) \/ LockBusy(p), UNCHANGED rec
      PROVE  CreateInv'
  BY <1>1, <1>2, <1>3, SaveSteps DEF Leaves
<1>4. ASSUME NEW p \in Procs, NEW X, Walks(p, X), UNCHANGED rec
      PROVE  CreateInv'
  BY <1>1, <1>4 DEF Walks, Same, Kept
<1>5. ASSUME NEW p \in Procs, CallInit(p)
      PROVE  CreateInv'
  <2>1. /\ Only(p) /\ UNCHANGED rec /\ rec = NoRec /\ q'[p].m.addr \in Addrs
        /\ \A r \in Procs : q[r].cmd # "init"
    BY <1>5, CallInitStep DEF Waiting
  <2> QED BY <2>1 DEF CreateInv, Only
<1>6. ASSUME NEW p \in Procs, Calls(p), ~CallInit(p)
      PROVE  CreateInv'
  BY <1>1, <1>6, CallsStep DEF Waiting
<1>7. ASSUME NEW p \in Procs, Lock(p)
      PROVE  CreateInv'
  BY <1>1, <1>7, LockStep, Frames DEF Same
<1>8. ASSUME NEW p \in Procs, Reload(p)
      PROVE  CreateInv'
  <2>1. UNCHANGED rec /\ q[p].cmd # "init"
    BY <1>8, AtSteps, Frames DEF PlaceInv, Placed
  <2>2. CASE end(p)
    BY <1>3, <2>1, <2>2, EndStep DEF Leaves, ShapeInv
  <2>3. CASE ~end(p)
    BY <1>1, <1>8, <2>1, <2>3, ReloadStep DEF Same
  <2> QED BY <2>2, <2>3
<1>9. ASSUME NEW p \in Procs, SetApply(p) \/ SetGrow(p)
      PROVE  CreateInv'
  <2>1. UNCHANGED rec /\ q[p].cmd # "init"
    BY <1>9, AtSteps, Frames DEF PlaceInv, Placed, SetPCs
  <2>2. CASE end(p)
    BY <1>3, <2>1, <2>2, EndStep DEF Leaves, ShapeInv
  <2>3. CASE ~end(p)
    BY <1>1, <1>9, <2>1, <2>3, SetApplyStep, SetGrowStep DEF Same
  <2> QED BY <2>2, <2>3
<1>10. ASSUME NEW p \in Procs, SetSaveGrow(p) \/ SetSave(p) \/ StartGrown(p) \/ StartSave(p)
       PROVE  CreateInv'
  <2>1. rec'.addr \in Addrs
    BY <1>10, SavedRecord
  <2>2. \A r \in Procs : q[r].cmd # "init"
    BY <1>10, SavesOwn DEF Copied, CreateInv
  <2>3. Only(p) /\ q'[p].cmd # "init"
    <3>1. CASE StartSave(p)
      BY <2>2, <3>1, StartSaveStep DEF Same
    <3>2. CASE SetSaveGrow(p) \/ SetSave(p) \/ StartGrown(p)
      BY <1>2, <2>2, <3>2, WalkSteps DEF Walks, Leaves, Same
    <3> QED BY <1>10, <3>1, <3>2
  <2> QED BY <2>1, <2>2, <2>3 DEF CreateInv, Only
<1>11. ASSUME NEW p \in Procs, InitSave(p)
       PROVE  CreateInv'
  <2>1. Leaves(p) /\ rec'.addr = q[p].m.addr /\ q[p].cmd = "init"
    BY <1>11, WalkSteps, InitSaveStep, AtSteps DEF PlaceInv, Placed, InitPCs
  <2> QED BY <1>2, <2>1 DEF CreateInv, Leaves, Only
<1>12. ASSUME NEW p \in Procs, RmDelete(p)
       PROVE  CreateInv'
  <2>1. Leaves(p) /\ rec' = NoRec
    BY <1>12, WalkSteps, SaveSteps
  <2> QED BY <1>2, <2>1 DEF CreateInv, Leaves, Only
<1>13. CASE HypervisorDies
  BY <1>13, DiesStep DEF CreateInv
<1>14. ASSUME NEW p \in Procs, WakeDiscards(p)
       PROVE  CreateInv'
  BY <1>1, <1>14, WakeDiscardsStep DEF Same
<1> QED
  BY <1>14, <1>3, <1>4, <1>5, <1>6, <1>7, <1>8, <1>9, <1>10, <1>11, <1>12, <1>13,
     NextSplit, Frames, WalkSteps

\* Every step keeps each copy the record but for what was asked.
LEMMA CopyNext ==
    ASSUME ShapeInv, PlaceInv, CreateInv, CopyInv, Next
    PROVE  CopyInv'
<1> USE DEF Working, SetPCs, StartPCs
<1>1. ASSUME NEW p \in Procs, Only(p), q'[p].pc \in Working => Copied(p)',
             \/ lock \in {p, Nobody}
             \/ UNCHANGED <<rec, vm>>
      PROVE  CopyInv'
  <2>1. ASSUME NEW r \in Procs, r # p, q'[r].pc \in Working
        PROVE  Copied(r)'
    <3>1. q'[r] = q[r] /\ q[r].pc \in Working /\ Copied(r) /\ lock = r /\ r # Nobody
      BY <1>1, <2>1, RecordAssumption DEF Only, CopyInv, PlaceInv, Placed
    <3> QED BY <1>1, <2>1, <3>1 DEF Copied
  <2> QED BY <1>1, <2>1 DEF CopyInv
<1>2. idle.pc = "end"
  BY DEF idle
<1>3. ASSUME NEW p \in Procs, Leaves(p), lock = p
      PROVE  CopyInv'
  BY <1>1, <1>2, <1>3 DEF Leaves
<1>4. ASSUME NEW p \in Procs, LockBusy(p)
      PROVE  CopyInv'
  BY <1>1, <1>2, <1>4, SaveSteps, Frames
<1>5. ASSUME NEW p \in Procs, Calls(p)
      PROVE  CopyInv'
  BY <1>1, <1>5, CallInitStep, CallsStep DEF Waiting
<1>6. ASSUME NEW p \in Procs, Lock(p)
      PROVE  CopyInv'
  BY <1>1, <1>6, LockStep, SaveSteps
<1>7. ASSUME NEW p \in Procs, Reload(p)
      PROVE  CopyInv'
  <2>1. lock = p /\ UNCHANGED <<rec, vm>>
    BY <1>7, AtSteps, Frames
  <2>2. CASE end(p)
    BY <1>3, <2>1, <2>2, EndStep DEF Leaves, ShapeInv
  <2>3. CASE ~end(p)
    <3>1. Copied(p)'
      BY <1>7, <2>1, <2>3, ReloadStep DEF Copied, Taken, CreateInv
    <3> QED BY <1>1, <1>7, <2>1, <2>3, <3>1, ReloadStep
  <2> QED BY <2>2, <2>3
<1>8. ASSUME NEW p \in Procs, SetApply(p)
      PROVE  CopyInv'
  <2>1. /\ lock = p /\ UNCHANGED <<rec, vm>> /\ q[p].pc = "apply" /\ q[p].cmd = "set"
        /\ Copied(p) /\ q[p].o.addr \in Addrs \cup {Unset}
    BY <1>8, AtSteps, Frames, CopyShape DEF CopyInv, PlaceInv, Placed, Options
  <2>2. CASE end(p)
    BY <1>3, <2>1, <2>2, EndStep DEF Leaves, ShapeInv
  <2>3. CASE ~end(p)
    <3>1. Copied(p)'
      BY <1>8, <2>1, <2>3, SetApplyStep DEF Copied, Taken, given, Same
    <3> QED BY <1>1, <1>8, <2>1, <2>3, <3>1, SetApplyStep
  <2> QED BY <2>2, <2>3
<1>9. ASSUME NEW p \in Procs, SetGrow(p)
      PROVE  CopyInv'
  <2>1. lock = p /\ UNCHANGED <<rec, vm>> /\ q[p].pc = "grow" /\ Copied(p)
    BY <1>9, AtSteps, Frames DEF CopyInv
  <2>2. Copied(p)'
    BY <1>9, <2>1, SetGrowStep DEF Copied, Taken, Same
  <2> QED BY <1>1, <1>9, <2>1, <2>2, SetGrowStep
<1>10. ASSUME NEW p \in Procs, StartSave(p)
       PROVE  CopyInv'
  <2>1. /\ lock = p /\ vm' = vm /\ q[p].pc = "addr" /\ Copied(p)
        /\ rec'.addr \in Addrs /\ rec' # NoRec
    BY <1>10, AtSteps, Frames, SavesOwn, SavedRecord
  <2>2. CASE rec' = rec /\ q'[p].m = q[p].m
    <3>1. Copied(p)'
      BY <1>10, <2>1, <2>2, StartSaveStep DEF Copied, Taken, Same
    <3> QED BY <1>1, <1>10, <2>1, <3>1, StartSaveStep
  <2>3. CASE rec' = q'[p].m
    <3>1. Copied(p)'
      BY <1>10, <2>1, <2>3, StartSaveStep DEF Copied, Taken, Same
    <3> QED BY <1>1, <1>10, <2>1, <3>1, StartSaveStep
  <2> QED BY <1>10, <2>2, <2>3, StartSaveStep
<1>11. ASSUME NEW p \in Procs, lock = p, NEW X, Walks(p, X), q[p].pc \in Working,
              X \cap {"apply", "addr", "boot"} = {}, UNCHANGED rec,
              vm'.st = vm.st \/ q[p].cmd = "start"
       PROVE  CopyInv'
  <2>1. Only(p) /\ Same(p) /\ Kept(p) /\ q'[p].pc \in X /\ Copied(p)
    BY <1>11 DEF Walks, CopyInv
  <2>2. Copied(p)'
    BY <1>11, <2>1 DEF Copied, Taken, Same, Kept
  <2> QED BY <1>1, <1>11, <2>1, <2>2
<1>12. ASSUME NEW p \in Procs, SetResize(p) \/ SetGuest(p)
       PROVE  CopyInv'
  <2>1. /\ lock = p /\ q[p].pc \in Working /\ UNCHANGED rec /\ vm'.st = vm.st
        /\ Walks(p, {"guest"}) \/ Walks(p, {"save"})
    BY <1>12, AtSteps, Frames, VmSteps, WalkSteps
  <2> QED BY <1>11, <2>1
<1>13. ASSUME NEW p \in Procs, StartBoot(p) \/ StartGrow(p) \/ StartWarns(p)
       PROVE  CopyInv'
  <2>1. lock = p /\ q[p].pc \in Working /\ UNCHANGED rec /\ q[p].cmd = "start"
    BY <1>13, AtSteps, Frames DEF PlaceInv, Placed
  <2>2. \/ Walks(p, {"finish", "arc"}) \/ Walks(p, {"saved", "arc"}) \/ Walks(p, {"arc"})
        \/ Leaves(p)
    BY <1>13, WalkSteps
  <2> QED BY <1>3, <1>11, <2>1, <2>2
<1>14. ASSUME NEW p \in Procs, SetSaveGrow(p) \/ SetSave(p) \/ StartGrown(p)
       PROVE  CopyInv'
  <2>1. /\ lock = p /\ rec' = q[p].m /\ vm' = vm /\ Copied(p) /\ rec' # NoRec
    BY <1>14, SavesOwn, SaveSteps, SavedRecord, Frames
  <2>2. Walks(p, {"resize", "save"}) \/ Walks(p, {"arc"}) \/ Leaves(p)
    BY <1>14, WalkSteps
  <2>3. ASSUME NEW X, Walks(p, X), X \cap {"apply", "addr", "boot"} = {}
        PROVE  CopyInv'
    <3>1. Only(p) /\ Same(p) /\ Kept(p) /\ q'[p].pc \in X
      BY <2>3 DEF Walks
    <3>2. Copied(p)'
      BY <2>1, <2>3, <3>1 DEF Copied, Taken, Same, Kept
    <3> QED BY <1>1, <2>1, <3>1, <3>2
  <2> QED BY <1>3, <2>1, <2>2, <2>3
<1>15. ASSUME NEW p \in Procs,
              \/ InitImage(p) \/ InitReuse(p) \/ InitDownload(p) \/ InitVerify(p)
              \/ InitInstall(p) \/ InitClean(p) \/ InitMarker(p) \/ StopOrSuspend(p)
       PROVE  CopyInv'
  <2>1. lock = p
    BY <1>15, AtSteps
  <2>2. Leaves(p) \/ (Only(p) /\ q'[p].pc \notin Working)
    BY <1>15, WalkSteps DEF Walks
  <2> QED BY <1>1, <1>3, <2>1, <2>2
<1>16. CASE HypervisorDies
  <2>1. ASSUME NEW p \in Procs, q'[p].pc \in Working
        PROVE  Copied(p)'
    <3>1. Copied(p) /\ q' = q /\ rec' = rec /\ vm.st = "running" /\ vm'.st = "stopped"
      BY <1>16, <2>1, DiesStep DEF CopyInv
    <3> QED BY <3>1 DEF Copied
  <2> QED BY <2>1 DEF CopyInv
<1>18. ASSUME NEW p \in Procs, WakeDiscards(p)
       PROVE  CopyInv'
  <2>1. q[p].cmd = "start" /\ Copied(p)
    BY <1>18, WakeDiscardsStep DEF PlaceInv, Placed, CopyInv
  <2>2. Copied(p)'
    BY <1>18, <2>1, WakeDiscardsStep DEF Copied, Taken, Same
  <2> QED BY <1>1, <1>18, <2>2, WakeDiscardsStep
<1> QED
  BY <1>18, <1>3, <1>4, <1>5, <1>6, <1>7, <1>8, <1>9, <1>10, <1>12, <1>13, <1>14, <1>15, <1>16,
     NextSplit, AtSteps, WalkSteps

\* Every step keeps the memory of the machine the one in its record.
LEMMA HardwareNext ==
    ASSUME ShapeInv, PlaceInv, CreateInv, CopyInv, HardwareIsRecord, Next
    PROVE  HardwareIsRecord'
<1> USE DEF HardwareIsRecord, Exists
<1>1. ASSUME NEW p \in Procs, SetSaveGrow(p) \/ SetSave(p) \/ StartGrown(p) \/ StartSave(p)
      PROVE  HardwareIsRecord'
  BY <1>1, SavedRecord, Frames
<1>2. ASSUME NEW p \in Procs, InitSave(p)
      PROVE  HardwareIsRecord'
  <2>1. rec = NoRec /\ vm' = vm
    BY <1>2, AtSteps, Frames DEF PlaceInv, Placed, InitPCs, CreateInv
  <2> QED BY <2>1
<1>3. ASSUME NEW p \in Procs, RmDelete(p)
      PROVE  HardwareIsRecord'
  <2>1. vm' = noVM
    BY <1>3, SaveSteps
  <2> QED BY <2>1 DEF noVM
<1>4. ASSUME NEW p \in Procs, StartBoot(p)
      PROVE  HardwareIsRecord'
  <2>1. /\ q[p].pc = "boot" /\ q[p].cmd = "start" /\ Copied(p) /\ rec' = rec
    BY <1>4, AtSteps, Frames DEF CopyInv, PlaceInv, Placed, Working, StartPCs
  <2> QED BY <1>4, <2>1, VmSteps DEF Copied
<1>5. ASSUME NEW p \in Procs,
             \/ SetResize(p) \/ SetGuest(p) \/ SetArc(p) \/ StartGrow(p) \/ StartArc(p)
             \/ StopOrSuspend(p)
      PROVE  HardwareIsRecord'
  BY <1>5, VmSteps, Frames
<1>6. CASE HypervisorDies
  BY <1>6, DiesStep
<1>7. CASE UNCHANGED <<rec, vm>>
  BY <1>7
<1>8. ASSUME NEW p \in Procs, WakeDiscards(p)
      PROVE  HardwareIsRecord'
  BY <1>8, WakeDiscardsStep
<1> QED BY <1>1, <1>2, <1>3, <1>4, <1>5, <1>6, <1>7, <1>8, NextSplit, Frames

\* A step that changes a field of the record was asked to.
LEMMA AskedNext ==
    ASSUME ShapeInv, PlaceInv, CreateInv, CopyInv, Next, Exists, Exists',
           NEW f \in {"mem", "arc", "disk", "addr"}, rec'[f] # rec[f]
    PROVE  Asked(f)
<1>1. ASSUME NEW p \in Procs, SetSaveGrow(p) \/ SetSave(p) \/ StartGrown(p) \/ StartSave(p)
      PROVE  Asked(f)
  <2>1. lock = p /\ q[p].cmd \in {"set", "start"}
    BY <1>1, SavesOwn
  <2>2. q[p].o[f] = rec'[f]
    BY <1>1, SavedRecord DEF Taken
  <2> QED BY <2>1, <2>2 DEF Asked
<1>2. ASSUME NEW p \in Procs, InitSave(p)
      PROVE  FALSE
  BY <1>2, AtSteps DEF PlaceInv, Placed, InitPCs, CreateInv, Exists
<1>3. ASSUME NEW p \in Procs, RmDelete(p)
      PROVE  FALSE
  BY <1>3, SaveSteps DEF Exists
<1>4. CASE HypervisorDies
  BY <1>4, DiesStep
<1> QED BY <1>1, <1>2, <1>3, <1>4, NextSplit, Frames

\* The command goes on with its copy of the record as it is.
Keeps(p) ==
    /\ Only(p) /\ Same(p) /\ q'[p].m = q[p].m /\ q'[p].st = q[p].st
    /\ q'[p].arcChanged = q[p].arcChanged

\* The command goes on at x with m for its copy of the record.
Notes(p, x, m) ==
    /\ Only(p) /\ Same(p) /\ q'[p].pc = x /\ q'[p].m = m /\ q'[p].st = q[p].st
    /\ q'[p].arcChanged = q[p].arcChanged

\* Going to another place keeps the copy (goto).
LEMMA GotoKeeps ==
    ASSUME ShapeInv, NEW p \in Procs, NEW x \in PCs, goto(p, x)
    PROVE  Keeps(p) /\ q'[p].pc = x
<1> DEFINE c == [q[p] EXCEPT !.pc = x]
<1>1. q \in [Procs -> Commands] /\ q[p] \in Commands
  BY DEF ShapeInv
<1>2. /\ c \in Commands /\ c.cmd = q[p].cmd /\ c.o = q[p].o /\ c.src = q[p].src /\ c.pc = x
      /\ c.m = q[p].m /\ c.st = q[p].st /\ c.arcChanged = q[p].arcChanged
  BY <1>1 DEF Commands
<1>3. q' = [q EXCEPT ![p] = c]
  BY DEF goto
<1> HIDE DEF c
<1>4. Only(p) /\ q'[p] = c
  BY <1>1, <1>2, <1>3, UpdateStep
<1> QED BY <1>2, <1>4 DEF Keeps, Same

\* Replacing the copy of the record touches nothing else of the command.
LEMMA CopyStep ==
    ASSUME ShapeInv, NEW p \in Procs, NEW x \in PCs, NEW m \in Records,
           q' = [q EXCEPT ![p] = [q[p] EXCEPT !.pc = x, !.m = m]]
    PROVE  Notes(p, x, m)
<1> DEFINE c == [q[p] EXCEPT !.pc = x, !.m = m]
<1>1. q \in [Procs -> Commands] /\ q[p] \in Commands
  BY DEF ShapeInv
<1>2. /\ c \in Commands /\ c.cmd = q[p].cmd /\ c.o = q[p].o /\ c.src = q[p].src /\ c.pc = x
      /\ c.m = m /\ c.st = q[p].st /\ c.arcChanged = q[p].arcChanged
  BY <1>1 DEF Commands
<1>3. q' = [q EXCEPT ![p] = c]
  OBVIOUS
<1> HIDE DEF c
<1>4. Only(p) /\ q'[p] = c
  BY <1>1, <1>2, <1>3, UpdateStep
<1> QED BY <1>2, <1>4 DEF Notes, Same

\* Noting the trust, or that a grow is done, changes one field of the copy.
LEMMA NoteCopy ==
    ASSUME ShapeInv, NEW p \in Procs, NEW x \in PCs, NEW b \in BOOLEAN
    PROVE  /\ q' = [q EXCEPT ![p].pc = x, ![p].m.trusted = b] =>
                Notes(p, x, [q[p].m EXCEPT !.trusted = b])
           /\ q' = [q EXCEPT ![p].pc = x, ![p].m.pending = b] =>
                Notes(p, x, [q[p].m EXCEPT !.pending = b])
<1>1. q \in [Procs -> Commands] /\ q[p] \in Commands /\ q[p].m \in Records
  BY DEF ShapeInv, Commands
<1>2. ASSUME q' = [q EXCEPT ![p].pc = x, ![p].m.trusted = b]
      PROVE  Notes(p, x, [q[p].m EXCEPT !.trusted = b])
  <2> DEFINE m == [q[p].m EXCEPT !.trusted = b]
  <2>1. m \in Records
    BY <1>1 DEF Records
  <2>2. [q[p] EXCEPT !.pc = x, !.m.trusted = b] = [q[p] EXCEPT !.pc = x, !.m = m]
    BY <1>1 DEF Commands
  <2>3. q' = [q EXCEPT ![p] = [q[p] EXCEPT !.pc = x, !.m = m]]
    BY <1>2, <2>2
  <2> HIDE DEF m
  <2>4. Notes(p, x, m)
    BY <2>1, <2>3, CopyStep
  <2> QED BY <2>4 DEF m
<1>3. ASSUME q' = [q EXCEPT ![p].pc = x, ![p].m.pending = b]
      PROVE  Notes(p, x, [q[p].m EXCEPT !.pending = b])
  <2> DEFINE m == [q[p].m EXCEPT !.pending = b]
  <2>1. m \in Records
    BY <1>1 DEF Records
  <2>2. [q[p] EXCEPT !.pc = x, !.m.pending = b] = [q[p] EXCEPT !.pc = x, !.m = m]
    BY <1>1 DEF Commands
  <2>3. q' = [q EXCEPT ![p] = [q[p] EXCEPT !.pc = x, !.m = m]]
    BY <1>3, <2>2
  <2> HIDE DEF m
  <2>4. Notes(p, x, m)
    BY <2>1, <2>3, CopyStep
  <2> QED BY <2>4 DEF m
<1> QED BY <1>2, <1>3

\* The steps that keep the command's copy of the record.
LEMMA KeepSteps ==
    ASSUME ShapeInv, NEW p \in Procs
    PROVE  /\ Lock(p) => Keeps(p)
           /\ InitReuse(p) => Keeps(p) \/ Leaves(p)
           /\ InitDownload(p) => Keeps(p)
           /\ InitVerify(p) => Keeps(p) \/ Leaves(p)
           /\ InitInstall(p) => Keeps(p)
           /\ InitClean(p) => Keeps(p)
           /\ SetSaveGrow(p) => Keeps(p)
           /\ SetResize(p) => Keeps(p)
           /\ SetSave(p) => Keeps(p) \/ Leaves(p)
           /\ StartBoot(p) => Keeps(p) \/ Leaves(p)
           /\ StartGrown(p) => Keeps(p)
           /\ StopOrSuspend(p) => Keeps(p) \/ Leaves(p)
           /\ StartWarns(p) => Keeps(p) \/ Leaves(p)
<1>1. \A x \in PCs : goto(p, x) => Keeps(p)
  BY GotoKeeps
<1>2. end(p) => Leaves(p)
  BY EndStep DEF Leaves, ShapeInv
<1>3. UNCHANGED q => Keeps(p)
  BY DEF Keeps, Only, Same, ShapeInv
<1>4. /\ {"image", "stop", "reload", "size", "fetch", "verify", "install", "clean", "marker"} \subseteq PCs
      /\ {"resize", "guest", "save", "arc", "finish", "saved", "delete"} \subseteq PCs
  BY DEF PCs, InitPCs, Working, SetPCs, StartPCs
<1>5. Lock(p) => Keeps(p)
  BY <1>1, <1>4 DEF Lock
<1>6. InitReuse(p) => Keeps(p) \/ Leaves(p)
  BY <1>1, <1>2, <1>4 DEF InitReuse
<1>7. InitDownload(p) => Keeps(p)
  BY <1>1, <1>3, <1>4 DEF InitDownload
<1>8. InitVerify(p) => Keeps(p) \/ Leaves(p)
  BY <1>1, <1>2, <1>4 DEF InitVerify
<1>9. InitInstall(p) => Keeps(p)
  BY <1>1, <1>4 DEF InitInstall
<1>10. SetSaveGrow(p) => Keeps(p)
  BY <1>1, <1>4 DEF SetSaveGrow
<1>11. SetResize(p) => Keeps(p)
  BY <1>1, <1>4 DEF SetResize
<1>12. SetSave(p) => Keeps(p) \/ Leaves(p)
  BY <1>1, <1>2, <1>4 DEF SetSave
<1>13. StartBoot(p) => Keeps(p) \/ Leaves(p)
  BY <1>1, <1>2, <1>4 DEF StartBoot
<1>14. StartGrown(p) => Keeps(p)
  BY <1>1, <1>4 DEF StartGrown
<1>15. StopOrSuspend(p) => Keeps(p) \/ Leaves(p)
  BY <1>1, <1>2, <1>4 DEF StopOrSuspend
<1>16. StartWarns(p) => Keeps(p) \/ Leaves(p)
  BY <1>1, <1>2, <1>4 DEF StartWarns
<1>17. InitClean(p) => Keeps(p)
  BY <1>1, <1>4 DEF InitClean
<1> QED BY <1>5, <1>6, <1>7, <1>8, <1>9, <1>10, <1>11, <1>12, <1>13, <1>14, <1>15, <1>16, <1>17

\* The steps that change the copy, and what they make of it.
LEMMA NoteSteps ==
    ASSUME ShapeInv, NEW p \in Procs
    PROVE  /\ InitImage(p) =>
                \/ dir.disk = <<>> /\ Keeps(p) /\ q'[p].pc = "fetch"
                \/ dir.disk # <<>> /\ Notes(p, "size", [q[p].m EXCEPT !.trusted = ~dir.marker])
           /\ InitMarker(p) => Notes(p, "size", [q[p].m EXCEPT !.trusted = q[p].src \in Summed])
           /\ SetGrow(p) => Notes(p, "savegrow", grown(q[p].m, q[p].o))
           /\ SetGuest(p) => Notes(p, "save", [q[p].m EXCEPT !.pending = FALSE])
           /\ StartSave(p) =>
                \/ Keeps(p) /\ q'[p].pc = "boot" /\ UNCHANGED rec
                \/ /\ Notes(p, "boot", [q[p].m EXCEPT !.addr = given(q[p].o.addr, @)])
                   /\ rec' = q'[p].m
           /\ StartGrow(p) =>
                \/ Keeps(p) /\ q'[p].pc = "arc" /\ UNCHANGED vm
                \/ /\ growGuest(q[p].m).ok /\ vm' = [vm EXCEPT !.pool = growGuest(q[p].m).pool]
                   /\ Notes(p, "saved", [q[p].m EXCEPT !.pending = FALSE])
<1>1. /\ q \in [Procs -> Commands] /\ q[p] \in Commands /\ q[p].m \in Records
      /\ q[p].o \in Options /\ dir.marker \in BOOLEAN
  BY DEF ShapeInv, Commands, Directories
<1>2. {"size", "fetch", "savegrow", "save", "boot", "arc", "saved"} \subseteq PCs
  BY DEF PCs, InitPCs, Working, SetPCs, StartPCs
<1>3. ASSUME InitImage(p)
      PROVE  \/ dir.disk = <<>> /\ Keeps(p) /\ q'[p].pc = "fetch"
             \/ dir.disk # <<>> /\ Notes(p, "size", [q[p].m EXCEPT !.trusted = ~dir.marker])
  <2>1. CASE dir.disk = <<>>
    BY <1>2, <1>3, <2>1, GotoKeeps DEF InitImage, goto
  <2>2. CASE dir.disk # <<>>
    <3>1. q' = [q EXCEPT ![p].pc = "size", ![p].m.trusted = ~dir.marker]
      BY <1>3, <2>2 DEF InitImage
    <3>2. (~dir.marker) \in BOOLEAN
      OBVIOUS
    <3> QED BY <1>2, <2>2, <3>1, <3>2, NoteCopy
  <2> QED BY <2>1, <2>2
<1>4. ASSUME InitMarker(p)
      PROVE  Notes(p, "size", [q[p].m EXCEPT !.trusted = q[p].src \in Summed])
  <2>1. q' = [q EXCEPT ![p].pc = "size", ![p].m.trusted = q[p].src \in Summed]
    BY <1>4 DEF InitMarker
  <2>2. (q[p].src \in Summed) \in BOOLEAN
    OBVIOUS
  <2> QED BY <1>2, <2>1, <2>2, NoteCopy
<1>5. ASSUME SetGrow(p)
      PROVE  Notes(p, "savegrow", grown(q[p].m, q[p].o))
  <2>1. grown(q[p].m, q[p].o) \in Records
    BY <1>1, AskedShape DEF grown, Records
  <2>2. q' = [q EXCEPT ![p] = [q[p] EXCEPT !.pc = "savegrow", !.m = grown(q[p].m, q[p].o)]]
    BY <1>5 DEF SetGrow
  <2> QED BY <1>2, <2>1, <2>2, CopyStep
<1>6. ASSUME SetGuest(p)
      PROVE  Notes(p, "save", [q[p].m EXCEPT !.pending = FALSE])
  <2>1. q' = [q EXCEPT ![p].pc = "save", ![p].m.pending = FALSE]
    BY <1>6 DEF SetGuest
  <2> QED BY <1>2, <2>1, NoteCopy
<1>7. ASSUME StartSave(p)
      PROVE  \/ Keeps(p) /\ q'[p].pc = "boot" /\ UNCHANGED rec
             \/ /\ Notes(p, "boot", [q[p].m EXCEPT !.addr = given(q[p].o.addr, @)])
                /\ rec' = q'[p].m
  <2>1. CASE q[p].st = "suspended"
    BY <1>2, <1>7, <2>1, GotoKeeps DEF StartSave
  <2>2. CASE q[p].st # "suspended"
    <3> DEFINE m == [q[p].m EXCEPT !.addr = given(q[p].o.addr, @)]
    <3>1. rec' = m /\ q' = [q EXCEPT ![p] = [q[p] EXCEPT !.pc = "boot", !.m = m]]
      BY <1>7, <2>2 DEF StartSave
    <3>2. m \in Records
      BY <1>1 DEF given, Records, Options
    <3> HIDE DEF m
    <3>3. Notes(p, "boot", m)
      BY <1>2, <3>1, <3>2, CopyStep
    <3>4. q'[p].m = m
      BY <3>3 DEF Notes
    <3> QED BY <3>1, <3>3, <3>4 DEF m
  <2> QED BY <2>1, <2>2
<1>8. ASSUME StartGrow(p)
      PROVE  \/ Keeps(p) /\ q'[p].pc = "arc" /\ UNCHANGED vm
             \/ /\ growGuest(q[p].m).ok /\ vm' = [vm EXCEPT !.pool = growGuest(q[p].m).pool]
                /\ Notes(p, "saved", [q[p].m EXCEPT !.pending = FALSE])
  <2>1. \/ goto(p, "arc") /\ UNCHANGED vm
        \/ /\ growGuest(q[p].m).ok /\ vm' = [vm EXCEPT !.pool = growGuest(q[p].m).pool]
           /\ q' = [q EXCEPT ![p].pc = "saved", ![p].m.pending = FALSE]
    BY <1>8 DEF StartGrow
  <2>2. FALSE \in BOOLEAN
    OBVIOUS
  <2> QED BY <1>2, <2>1, <2>2, GotoKeeps, NoteCopy
<1> QED BY <1>3, <1>4, <1>5, <1>6, <1>7, <1>8

\* A set that goes on keeps what it was not asked to change, and notes whether
\* the cap changed.
LEMMA ApplyCopy ==
    ASSUME ShapeInv, NEW p \in Procs, SetApply(p), ~end(p)
    PROVE  /\ q'[p].m.trusted = q[p].m.trusted /\ q'[p].m.pending = q[p].m.pending
           /\ q'[p].arcChanged = (given(q[p].o.arc, q[p].m.arc) # q[p].m.arc)
           /\ q'[p].pc = IF grows(q[p].o, q[p].m) THEN "grow" ELSE "save"
<1> DEFINE m == apply(q[p].o, q[p].m)
           b == given(q[p].o.arc, q[p].m.arc) # q[p].m.arc
           x == IF grows(q[p].o, q[p].m) THEN "grow" ELSE "save"
<1>1. q \in [Procs -> Commands] /\ q[p] \in Commands /\ q[p].m \in Records
  BY DEF ShapeInv, Commands
<1>2. q' = [q EXCEPT ![p].m = m, ![p].arcChanged = b, ![p].pc = x]
  BY DEF SetApply
<1>3. m.trusted = q[p].m.trusted /\ m.pending = q[p].m.pending
  BY <1>1 DEF apply, Records
<1> HIDE DEF m, b, x
<1>4. q'[p].m = m /\ q'[p].arcChanged = b /\ q'[p].pc = x
  BY <1>1, <1>2 DEF Commands
<1> QED BY <1>3, <1>4 DEF b, x

\* What jm init is called with.
LEMMA CallInitAsks ==
    ASSUME ShapeInv, NEW p \in Procs, CallInit(p)
    PROVE  /\ q'[p].src \in Sources /\ q'[p].o.disk \in InitDisks /\ q'[p].m.disk = q'[p].o.disk
           /\ SmallReuse \/ dir.disk = <<>> \/ q'[p].o.disk <= dir.size
<1>1. PICK s \in Sources, mem \in Mems, d \in InitDisks :
        /\ SmallReuse \/ dir.disk = <<>> \/ d <= dir.size
        /\ begin(p, [idle EXCEPT !.cmd = "init", !.src = s, !.o.disk = d,
                                 !.m = created(mem, d, DefaultAddr, TRUE)])
  BY DEF CallInit
<1> DEFINE m == created(mem, d, DefaultAddr, TRUE)
           o == [noOpts EXCEPT !.disk = d]
           c == [idle EXCEPT !.pc = "lock", !.cmd = "init", !.src = s, !.o = o, !.m = m]
<1>2. m \in Records /\ m.disk = d
  BY CreatedShape, RecordAssumption DEF created
<1>3. idle.o = noOpts /\ o \in Options /\ o.disk = d
  BY RecordAssumption, NothingShape DEF Options, idle
<1>4. q' = [q EXCEPT ![p] = c]
  BY <1>1, <1>3 DEF begin
<1> HIDE DEF m, o
<1>5. c \in Commands /\ c.m = m /\ c.o = o /\ c.src = s
  BY <1>2, <1>3, NothingShape DEF Commands, PCs
<1> HIDE DEF c
<1>6. q'[p] = c
  BY <1>4, <1>5, UpdateStep DEF ShapeInv
<1> QED BY <1>1, <1>2, <1>3, <1>5, <1>6

\* What an init was asked for stays.
LEMMA AskedStays ==
    ASSUME ShapeInv, PlaceInv, AskedInv, Next
    PROVE  AskedInv'
<1>1. ASSUME NEW p \in Procs, Only(p),
             \/ q'[p].cmd # "init"
             \/ Same(p) /\ q'[p].m.disk = q[p].m.disk
             \/ /\ q'[p].src \in Sources /\ q'[p].o.disk \in InitDisks
                /\ q'[p].m.disk = q'[p].o.disk
      PROVE  AskedInv'
  BY <1>1 DEF AskedInv, Only, Same
<1>2. idle.cmd = "none"
  BY DEF idle
<1>3. ASSUME NEW p \in Procs, Leaves(p) \/ LockBusy(p)
      PROVE  AskedInv'
  BY <1>1, <1>2, <1>3, SaveSteps DEF Leaves
<1>4. ASSUME NEW p \in Procs, NEW X, Walks(p, X)
      PROVE  AskedInv'
  BY <1>1, <1>4 DEF Walks, Kept
<1>5. ASSUME NEW p \in Procs, Calls(p)
      PROVE  AskedInv'
  BY <1>1, <1>5, CallInitStep, CallInitAsks, CallsStep DEF Waiting
<1>6. ASSUME NEW p \in Procs, Lock(p)
      PROVE  AskedInv'
  BY <1>1, <1>6, LockStep
<1>9. ASSUME NEW p \in Procs, WakeDiscards(p)
      PROVE  AskedInv'
  BY <1>1, <1>9, WakeDiscardsStep
<1>7. ASSUME NEW p \in Procs, Reload(p) \/ SetApply(p) \/ SetGrow(p) \/ StartSave(p)
      PROVE  AskedInv'
  <2>1. q[p].cmd # "init"
    BY <1>7, AtSteps DEF PlaceInv, Placed, SetPCs, StartPCs
  <2>2. CASE end(p)
    BY <1>3, <2>2, EndStep DEF Leaves, ShapeInv
  <2>3. CASE ~end(p)
    BY <1>1, <1>7, <2>1, <2>3, ReloadStep, SetApplyStep, SetGrowStep, StartSaveStep DEF Same
  <2> QED BY <2>2, <2>3
<1>8. CASE HypervisorDies
  BY <1>8 DEF HypervisorDies, AskedInv
<1> QED
  BY <1>3, <1>4, <1>5, <1>6, <1>7, <1>8, <1>9, NextSplit, WalkSteps

\* What each step of init and set does to the files.
LEMMA DirSteps ==
    ASSUME ShapeInv, NEW p \in Procs
    PROVE  /\ InitReuse(p) \/ InitDownload(p) \/ InitVerify(p) =>
                dir'.disk = dir.disk /\ dir'.marker = dir.marker /\ dir'.size = dir.size
           /\ InitInstall(p) =>
                /\ dir'.disk = dir.archive[Slot(q[p].src)] /\ dir'.marker = dir.marker
                /\ dir'.size = Larger(ImageSize, q[p].o.disk)
           /\ InitClean(p) =>
                dir'.disk = dir.disk /\ dir'.marker = dir.marker /\ dir'.size = dir.size
           /\ InitMarker(p) =>
                dir'.disk = dir.disk /\ dir'.marker = marker(p) /\ dir'.size = dir.size
           /\ SetGrow(p) =>
                /\ dir'.disk = dir.disk /\ dir'.marker = dir.marker
                /\ dir'.size = Larger(dir.size, q[p].o.disk)
           /\ SetResize(p) =>
                dir'.disk = dir.disk /\ dir'.marker = dir.marker /\ dir'.size = q[p].o.disk
<1>1. dir \in Directories
  BY DEF ShapeInv
<1>2. ASSUME NEW s, NEW x, put(s, "part", x) \/ put(s, "archive", x)
      PROVE  dir'.disk = dir.disk /\ dir'.marker = dir.marker /\ dir'.size = dir.size
  BY <1>1, <1>2 DEF put, Directories
<1>3. InitReuse(p) =>
        dir'.disk = dir.disk /\ dir'.marker = dir.marker /\ dir'.size = dir.size
  BY <1>2 DEF InitReuse
<1>4. InitDownload(p) =>
        dir'.disk = dir.disk /\ dir'.marker = dir.marker /\ dir'.size = dir.size
  BY <1>2 DEF InitDownload
<1>5. ASSUME InitVerify(p)
      PROVE  dir'.disk = dir.disk /\ dir'.marker = dir.marker /\ dir'.size = dir.size
  <2> DEFINE s == Slot(q[p].src)
             y == dir.part[s]
  <2>1. \/ dir' = [dir EXCEPT !.part[s] = <<>>, !.archive[s] = y]
        \/ put(s, "part", <<>>)
    BY <1>5 DEF InitVerify
  <2> HIDE DEF s, y
  <2>2. CASE dir' = [dir EXCEPT !.part[s] = <<>>, !.archive[s] = y]
    BY <1>1, <2>2 DEF Directories
  <2> QED BY <1>2, <2>1, <2>2
<1>6. ASSUME InitInstall(p)
      PROVE  /\ dir'.disk = dir.archive[Slot(q[p].src)] /\ dir'.marker = dir.marker
             /\ dir'.size = Larger(ImageSize, q[p].o.disk)
  <2> DEFINE y == dir.archive[Slot(q[p].src)]
             n == Larger(ImageSize, q[p].o.disk)
  <2>1. dir' = [dir EXCEPT !.disk = y, !.size = n]
    BY <1>6 DEF InitInstall
  <2> HIDE DEF y, n
  <2>2. dir'.disk = y /\ dir'.marker = dir.marker /\ dir'.size = n
    BY <1>1, <2>1 DEF Directories
  <2> QED BY <2>2 DEF y, n
<1>7. ASSUME InitMarker(p)
      PROVE  dir'.disk = dir.disk /\ dir'.marker = marker(p) /\ dir'.size = dir.size
  <2> DEFINE b == marker(p)
  <2>1. dir' = [dir EXCEPT !.marker = b]
    BY <1>7 DEF InitMarker
  <2> HIDE DEF b
  <2>2. dir'.disk = dir.disk /\ dir'.marker = b /\ dir'.size = dir.size
    BY <1>1, <2>1 DEF Directories
  <2> QED BY <2>2 DEF b
<1>8. ASSUME NEW n, dir' = [dir EXCEPT !.size = n]
      PROVE  dir'.disk = dir.disk /\ dir'.marker = dir.marker /\ dir'.size = n
  BY <1>1, <1>8 DEF Directories
<1>9. SetGrow(p) =>
        /\ dir'.disk = dir.disk /\ dir'.marker = dir.marker
        /\ dir'.size = Larger(dir.size, q[p].o.disk)
  BY <1>8 DEF SetGrow
<1>10. SetResize(p) =>
         dir'.disk = dir.disk /\ dir'.marker = dir.marker /\ dir'.size = q[p].o.disk
  BY <1>8 DEF SetResize
<1>11. InitClean(p) =>
         dir'.disk = dir.disk /\ dir'.marker = dir.marker /\ dir'.size = dir.size
  BY <1>2 DEF InitClean
<1> QED BY <1>3, <1>4, <1>5, <1>6, <1>7, <1>9, <1>10, <1>11

\* An image installed from a checksummed source has been verified (verify).
LEMMA ArchiveSteps ==
    ASSUME ShapeInv, NEW p \in Procs, q[p].src \in Summed, InitReuse(p) \/ InitVerify(p)
    PROVE  Leaves(p) \/ dir'.archive[Slot(q[p].src)] = <<q[p].src, q[p].src>>
<1> DEFINE s == Slot(q[p].src)
<1>1. s \in Slots /\ dir \in Directories /\ q[p].src \notin Plain
  BY RecordAssumption DEF Slot, Slots, ShapeInv
<1>2. end(p) => Leaves(p)
  BY EndStep DEF Leaves, ShapeInv
<1>3. CASE InitReuse(p)
  BY <1>1, <1>2, <1>3 DEF InitReuse, verify
<1>4. CASE InitVerify(p)
  <2> DEFINE y == dir.part[s]
  <2>1. \/ /\ dir' = [dir EXCEPT !.part[s] = <<>>, !.archive[s] = y]
           /\ y = <<q[p].src, q[p].src>>
        \/ end(p)
    BY <1>1, <1>4 DEF InitVerify, verify
  <2> HIDE DEF y, s
  <2>2. CASE dir' = [dir EXCEPT !.part[s] = <<>>, !.archive[s] = y] /\ y = <<q[p].src, q[p].src>>
    <3>1. dir'.archive[s] = y
      BY <1>1, <2>2 DEF Directories
    <3> QED BY <2>2, <3>1 DEF s
  <2> QED BY <1>2, <2>1, <2>2
<1> QED BY <1>3, <1>4

\* Every step keeps who may call a disk trusted, as long as init is not killed
\* between the disk and its marker.
LEMMA TrustNext ==
    ASSUME ~MarkerGap, ShapeInv, PlaceInv, AskedInv, TrustInv, Next
    PROVE  TrustInv'
<1> DEFINE Told == dir.disk = <<>> \/ dir.marker \/ Verified(dir.disk)
<1> USE DEF Working, SetPCs, StartPCs, Marking
<1>0. \A p \in Procs : q[p].m \in Records /\ q[p].m.trusted \in BOOLEAN /\ Fetched(p)
  BY CopyShape DEF Records, TrustInv
<1>1. ASSUME NEW p \in Procs, Only(p), UNCHANGED dir, rec'.trusted => Verified(dir.disk),
             Fetched(p)', q[p].pc \notin Marking
      PROVE  TrustInv'
  <2>1. ASSUME NEW r \in Procs, r # p
        PROVE  Fetched(r)'
    BY <1>0, <1>1, <2>1 DEF Fetched, Only, Verified
  <2>2. (\A r \in Procs : q'[r].pc \notin Marking) => \A r \in Procs : q[r].pc \notin Marking
    BY <1>1 DEF Only
  <2>3. (\A r \in Procs : q'[r].pc \notin Marking) => Told'
    BY <1>1, <2>2 DEF TrustInv, Verified
  <2>4. (rec.trusted => Verified(dir.disk))'
    BY <1>1 DEF Verified
  <2> QED BY <1>1, <2>1, <2>3, <2>4 DEF TrustInv
<1>2. ASSUME NEW p \in Procs, Only(p), lock = p, (rec.trusted => Verified(dir.disk))',
             Fetched(p)', q'[p].pc \notin Marking => Told'
      PROVE  TrustInv'
  <2>1. ASSUME NEW r \in Procs, r # p
        PROVE  Fetched(r)'
    <3>1. q'[r].pc \in {"lock", "end"}
      BY <1>2, <2>1 DEF Only, PlaceInv, Placed
    <3> QED BY <3>1 DEF Fetched
  <2>2. (\A r \in Procs : q'[r].pc \notin Marking) => Told'
    BY <1>2
  <2> QED BY <1>2, <2>1, <2>2 DEF TrustInv
<1>3. idle.pc = "end"
  BY DEF idle
<1>4. ~Verified(<<>>)
  BY DEF Verified
<1>5. rec.trusted => Verified(dir.disk)
  BY DEF TrustInv
<1>6. ASSUME NEW p \in Procs, lock = p, q[p].pc \notin Marking
      PROVE  Told
  <2>1. ASSUME NEW r \in Procs
        PROVE  q[r].pc \notin Marking
    BY <1>6, <2>1 DEF PlaceInv, Placed
  <2> QED BY <2>1 DEF TrustInv
<1>7. ASSUME NEW p \in Procs, Only(p),
             q'[p].pc \in {"end", "lock", "reload", "stop", "delete", "image"},
             UNCHANGED <<rec, dir>>, q[p].pc \notin Marking
      PROVE  TrustInv'
  <2>1. Fetched(p)'
    BY <1>7 DEF Fetched
  <2> QED BY <1>1, <1>5, <1>7, <2>1
<1>8. ASSUME NEW p \in Procs, Leaves(p), UNCHANGED <<rec, dir>>, q[p].pc \notin Marking
      PROVE  TrustInv'
  BY <1>3, <1>7, <1>8 DEF Leaves
\* A copy under way: the record, the files and the verdict stay.
<1>9. ASSUME NEW p \in Procs, Keeps(p), UNCHANGED dir, q[p].pc \in Working, q'[p].pc \in Working,
             rec' = rec \/ rec' = q[p].m
      PROVE  TrustInv'
  <2>1. q[p].m.trusted => Verified(dir.disk)
    BY <1>0, <1>9 DEF Fetched
  <2>2. Fetched(p)'
    BY <1>9, <2>1 DEF Fetched, Keeps, Verified
  <2>3. rec'.trusted => Verified(dir.disk)
    BY <1>5, <1>9, <2>1
  <2> QED BY <1>1, <1>9, <2>2, <2>3 DEF Keeps
<1>10. ASSUME NEW p \in Procs, Calls(p)
      PROVE  TrustInv'
  <2>1. Only(p) /\ q'[p].pc = "lock" /\ UNCHANGED <<rec, dir>>
    BY <1>10, CallInitStep, CallsStep DEF Waiting
  <2>2. q[p].cmd = "none"
    BY <1>10 DEF Calls, CallInit, CallSet, CallStart, CallStop, CallSuspend, CallRm, begin
  <2>3. q[p].pc \notin Marking
    BY <2>2 DEF PlaceInv, Placed, InitPCs
  <2> QED BY <1>7, <2>1, <2>3
<1>11. ASSUME NEW p \in Procs, Lock(p)
       PROVE  TrustInv'
  BY <1>7, <1>11, LockStep, SaveSteps, Frames
<1>12. ASSUME NEW p \in Procs, LockBusy(p)
       PROVE  TrustInv'
  <2>1. q[p].pc = "lock" /\ Only(p) /\ q'[p] = idle /\ UNCHANGED <<rec, dir>>
    BY <1>12, SaveSteps, Frames DEF LockBusy
  <2> QED BY <1>3, <1>7, <2>1
<1>13. ASSUME NEW p \in Procs, Reload(p)
       PROVE  TrustInv'
  <2>1. q[p].pc = "reload" /\ UNCHANGED <<rec, dir>>
    BY <1>13, AtSteps, Frames
  <2>2. CASE end(p)
    BY <1>8, <2>1, <2>2, EndStep DEF Leaves, ShapeInv
  <2>3. CASE ~end(p)
    <3>1. /\ Only(p) /\ q'[p].m = rec
          /\ q'[p].pc \in {"apply", "addr", "stop"}
      BY <1>13, <2>3, ReloadStep
    <3>2. Fetched(p)'
      BY <1>5, <2>1, <3>1 DEF Fetched, Verified
    <3> QED BY <1>1, <1>5, <2>1, <3>1, <3>2
  <2> QED BY <2>2, <2>3
<1>14. ASSUME NEW p \in Procs, InitImage(p)
       PROVE  TrustInv'
  <2>1. q[p].pc = "image" /\ lock = p /\ UNCHANGED <<rec, dir>> /\ dir.marker \in BOOLEAN
    BY <1>14, AtSteps, Frames DEF ShapeInv, Directories
  <2>2. Told
    BY <1>6, <2>1
  <2>3. CASE dir.disk = <<>> /\ Keeps(p) /\ q'[p].pc = "fetch"
    <3>1. Fetched(p)'
      BY <2>1, <2>3 DEF Fetched
    <3> QED BY <1>1, <1>5, <2>1, <2>3, <3>1 DEF Keeps
  <2>4. CASE dir.disk # <<>> /\ Notes(p, "size", [q[p].m EXCEPT !.trusted = ~dir.marker])
    <3>1. q'[p].m.trusted = ~dir.marker /\ q'[p].pc = "size" /\ Only(p)
      BY <1>0, <2>4 DEF Notes, Records
    <3>2. Fetched(p)'
      BY <2>1, <2>2, <2>4, <3>1 DEF Fetched, Verified
    <3> QED BY <1>1, <1>5, <2>1, <3>1, <3>2
  <2> QED BY <1>14, <2>3, <2>4, NoteSteps
<1>15. ASSUME NEW p \in Procs, InitReuse(p) \/ InitDownload(p) \/ InitVerify(p)
       PROVE  TrustInv'
  <2>1. /\ q[p].pc \in {"fetch", "verify"} /\ lock = p /\ UNCHANGED rec
        /\ dir'.disk = dir.disk /\ dir'.marker = dir.marker
    BY <1>15, AtSteps, Frames, DirSteps
  <2>2. dir.disk = <<>>
    BY <1>0, <2>1 DEF Fetched
  <2>3. Told' /\ (rec.trusted => Verified(dir.disk))'
    BY <1>5, <2>1, <2>2 DEF Verified
  <2>4. CASE Leaves(p)
    <3>1. Fetched(p)'
      BY <1>3, <2>4 DEF Fetched, Leaves
    <3> QED BY <1>2, <2>1, <2>3, <2>4, <3>1 DEF Leaves
  <2>5. CASE ~Leaves(p)
    <3>1. /\ Keeps(p) /\ q'[p].pc \in {"fetch", "verify", "install"}
          /\ q'[p].pc = "install" => ~InitDownload(p)
      BY <1>15, <2>5, KeepSteps, WalkSteps DEF Walks
    <3>2. (q'[p].pc = "install" /\ q[p].src \in Summed) =>
             dir'.archive[Slot(q[p].src)] = <<q[p].src, q[p].src>>
      BY <1>15, <2>5, <3>1, ArchiveSteps
    <3>3. Fetched(p)'
      BY <2>1, <2>2, <3>1, <3>2 DEF Fetched, Keeps, Same
    <3> QED BY <1>2, <2>1, <2>3, <3>1, <3>3 DEF Keeps
  <2> QED BY <2>4, <2>5
<1>16. ASSUME NEW p \in Procs, InitInstall(p)
       PROVE  TrustInv'
  <2>1. /\ q[p].pc = "install" /\ lock = p /\ UNCHANGED rec /\ Keeps(p) /\ q'[p].pc = "clean"
        /\ dir'.disk = dir.archive[Slot(q[p].src)]
    BY <1>16, AtSteps, Frames, KeepSteps, WalkSteps, DirSteps DEF Walks
  <2>2. ~rec.trusted
    BY <1>0, <1>5, <1>4, <2>1 DEF Fetched
  <2>3. q[p].src \in Summed => dir'.disk = <<q[p].src, q[p].src>>
    BY <1>0, <2>1 DEF Fetched, Slot
  <2>4. Fetched(p)'
    BY <2>1, <2>3 DEF Fetched, Keeps, Same
  <2> QED BY <1>2, <2>1, <2>2, <2>4 DEF Keeps
<1>17. ASSUME NEW p \in Procs, InitMarker(p)
       PROVE  TrustInv'
  <2>1. /\ q[p].pc = "marker" /\ lock = p /\ UNCHANGED rec
        /\ dir'.disk = dir.disk /\ dir'.marker = marker(p) /\ q[p].cmd = "init"
        /\ Notes(p, "size", [q[p].m EXCEPT !.trusted = q[p].src \in Summed])
    BY <1>17, AtSteps, Frames, NoteSteps, DirSteps DEF PlaceInv, Placed, InitPCs
  <2>2. q'[p].m.trusted = (q[p].src \in Summed) /\ q'[p].pc = "size" /\ Only(p)
    BY <1>0, <2>1 DEF Notes, Records
  <2>3. q[p].src \in Summed => Verified(dir.disk)
    BY <1>0, <2>1 DEF Fetched, Verified
  <2>4. Told'
    <3>1. q[p].src \in Summed \/ q[p].src \in Plain
      BY <2>1 DEF AskedInv, Sources
    <3> QED BY <2>1, <2>3, <3>1 DEF marker, Verified
  <2>5. Fetched(p)'
    BY <2>1, <2>2, <2>3 DEF Fetched, Verified
  <2>6. (rec.trusted => Verified(dir.disk))'
    BY <1>5, <2>1 DEF Verified
  <2> QED BY <1>2, <2>1, <2>2, <2>4, <2>5, <2>6
<1>29. ASSUME NEW p \in Procs, InitClean(p)
       PROVE  TrustInv'
  <2>1. /\ q[p].pc = "clean" /\ lock = p /\ UNCHANGED rec /\ Keeps(p) /\ q'[p].pc = "marker"
        /\ dir'.disk = dir.disk
    BY <1>29, AtSteps, Frames, KeepSteps, WalkSteps, DirSteps DEF Walks
  <2>2. Fetched(p)'
    BY <1>0, <2>1 DEF Fetched, Keeps, Same
  <2>3. (rec.trusted => Verified(dir.disk))'
    BY <1>5, <2>1 DEF Verified
  <2> QED BY <1>2, <2>1, <2>2, <2>3 DEF Keeps
<1>30. ASSUME NEW p \in Procs, WakeDiscards(p)
       PROVE  TrustInv'
  <2>1. q[p].m.trusted => Verified(dir.disk)
    BY <1>0, <1>30, WakeDiscardsStep DEF Fetched
  <2>2. Fetched(p)'
    BY <1>30, <2>1, WakeDiscardsStep DEF Fetched, Verified
  <2> QED BY <1>1, <1>5, <1>30, <2>2, WakeDiscardsStep
<1>18. ASSUME NEW p \in Procs, InitSave(p)
       PROVE  TrustInv'
  <2>1. /\ q[p].pc = "size" /\ lock = p /\ Leaves(p) /\ UNCHANGED dir
        /\ rec' = [q[p].m EXCEPT !.disk = Larger(@, dir.size)]
    BY <1>18, AtSteps, Frames, WalkSteps DEF InitSave
  <2>2. rec'.trusted = q[p].m.trusted
    BY <1>0, <2>1 DEF Records
  <2>3. rec'.trusted => Verified(dir.disk)
    BY <1>0, <2>1, <2>2 DEF Fetched
  <2>4. Fetched(p)'
    BY <1>3, <2>1 DEF Fetched, Leaves
  <2> QED BY <1>1, <2>1, <2>3, <2>4 DEF Leaves
<1>19. ASSUME NEW p \in Procs, SetApply(p)
       PROVE  TrustInv'
  <2>2. CASE end(p)
    BY <1>8, <1>19, <2>2, AtSteps, Frames, EndStep DEF Leaves, ShapeInv
  <2>3. CASE ~end(p)
    <3>1. Only(p) /\ q'[p].pc \in {"grow", "save"} /\ q'[p].m.trusted = q[p].m.trusted
      BY <1>19, <2>3, SetApplyStep, ApplyCopy
    <3>2. q[p].m.trusted => Verified(dir.disk)
      BY <1>0, <1>19, AtSteps DEF Fetched
    <3>3. Fetched(p)'
      BY <1>19, Frames, <3>1, <3>2 DEF Fetched, Verified
    <3> QED BY <1>1, <1>5, <1>19, <3>1, <3>3, AtSteps, Frames
  <2> QED BY <2>2, <2>3
<1>20. ASSUME NEW p \in Procs, SetGrow(p) \/ SetGuest(p) \/ SetResize(p)
       PROVE  TrustInv'
  <2>1. /\ q[p].pc \in {"grow", "guest", "resize"} /\ lock = p /\ UNCHANGED rec
        /\ dir'.disk = dir.disk /\ dir'.marker = dir.marker
    BY <1>20, AtSteps, Frames, DirSteps
  <2>2. Only(p) /\ q'[p].m.trusted = q[p].m.trusted /\ q'[p].pc \in {"savegrow", "save", "guest"}
    <3>1. CASE SetGrow(p)
      BY <1>0, <3>1, NoteSteps, KeepSteps, WalkSteps DEF Notes, Keeps, Walks, grown, Records
    <3>2. CASE SetGuest(p)
      BY <1>0, <3>2, NoteSteps, KeepSteps, WalkSteps DEF Notes, Keeps, Walks, grown, Records
    <3>3. CASE SetResize(p)
      BY <1>0, <3>3, NoteSteps, KeepSteps, WalkSteps DEF Notes, Keeps, Walks, grown, Records
    <3> QED BY <1>20, <3>1, <3>2, <3>3
  <2>3. Fetched(p)'
    BY <1>0, <2>1, <2>2 DEF Fetched, Verified
  <2>4. Told' /\ (rec.trusted => Verified(dir.disk))'
    BY <1>5, <1>6, <2>1 DEF Verified
  <2> QED BY <1>2, <2>1, <2>2, <2>3, <2>4
<1>21. ASSUME NEW p \in Procs, SetSaveGrow(p) \/ SetSave(p) \/ StartGrown(p)
       PROVE  TrustInv'
  <2>1. /\ q[p].pc \in {"savegrow", "save", "saved"} /\ UNCHANGED dir /\ rec' = q[p].m
    BY <1>21, AtSteps, Frames, SaveSteps
  <2>2. q[p].m.trusted => Verified(dir.disk)
    BY <1>0, <2>1 DEF Fetched
  <2>3. CASE Leaves(p)
    <3>1. Fetched(p)'
      BY <1>3, <2>3 DEF Fetched, Leaves
    <3> QED BY <1>1, <2>1, <2>2, <2>3, <3>1 DEF Leaves
  <2>4. CASE ~Leaves(p)
    <3>1. Keeps(p) /\ q'[p].pc \in {"resize", "save", "arc"}
      BY <1>21, <2>4, KeepSteps, WalkSteps DEF Walks
    <3> QED BY <1>9, <2>1, <3>1
  <2> QED BY <2>3, <2>4
<1>22. ASSUME NEW p \in Procs, StartSave(p)
       PROVE  TrustInv'
  <2>1. q[p].pc = "addr" /\ UNCHANGED dir
    BY <1>22, AtSteps, Frames
  <2>2. CASE Keeps(p) /\ q'[p].pc = "boot" /\ UNCHANGED rec
    BY <1>9, <2>1, <2>2
  <2>3. CASE /\ Notes(p, "boot", [q[p].m EXCEPT !.addr = given(q[p].o.addr, @)])
             /\ rec' = q'[p].m
    <3>1. /\ Only(p) /\ q'[p].pc = "boot" /\ q'[p].m.trusted = q[p].m.trusted
          /\ rec'.trusted = q[p].m.trusted
      BY <1>0, <2>3 DEF Notes, Records
    <3>2. q[p].m.trusted => Verified(dir.disk)
      BY <1>0, <2>1 DEF Fetched
    <3>3. Fetched(p)'
      BY <2>1, <3>1, <3>2 DEF Fetched, Verified
    <3> QED BY <1>1, <2>1, <3>1, <3>2, <3>3
  <2> QED BY <1>22, <2>2, <2>3, NoteSteps
<1>23. ASSUME NEW p \in Procs, StartBoot(p) \/ StartWarns(p)
       PROVE  TrustInv'
  <2>1. /\ q[p].pc \in {"boot", "finish", "saved", "arc"} /\ UNCHANGED <<rec, dir>>
    BY <1>23, AtSteps, Frames
  <2>2. Leaves(p) \/ (Keeps(p) /\ q'[p].pc \in {"finish", "arc"})
    BY <1>23, KeepSteps, WalkSteps DEF Walks
  <2> QED BY <1>8, <1>9, <2>1, <2>2
<1>24. ASSUME NEW p \in Procs, StartGrow(p)
       PROVE  TrustInv'
  <2>1. q[p].pc = "finish" /\ UNCHANGED <<rec, dir>>
    BY <1>24, AtSteps, Frames
  <2>2. Only(p) /\ q'[p].pc \in {"arc", "saved"} /\ q'[p].m.trusted = q[p].m.trusted
    BY <1>0, <1>24, NoteSteps DEF Keeps, Notes, Records
  <2>3. Fetched(p)'
    BY <1>0, <2>1, <2>2 DEF Fetched, Verified
  <2> QED BY <1>1, <1>5, <2>1, <2>2, <2>3
<1>25. ASSUME NEW p \in Procs, StopOrSuspend(p)
       PROVE  TrustInv'
  <2>1. q[p].pc = "stop" /\ UNCHANGED <<rec, dir>>
    BY <1>25, AtSteps, Frames
  <2>2. Leaves(p) \/ (Keeps(p) /\ q'[p].pc = "delete")
    BY <1>25, KeepSteps, WalkSteps DEF Walks
  <2> QED BY <1>7, <1>8, <2>1, <2>2 DEF Keeps
<1>26. ASSUME NEW p \in Procs, RmDelete(p)
       PROVE  TrustInv'
  <2>1. lock = p /\ Leaves(p) /\ rec' = NoRec /\ dir' = noDir
    BY <1>26, AtSteps, WalkSteps, SaveSteps
  <2>2. Fetched(p)'
    BY <1>3, <2>1 DEF Fetched, Leaves
  <2>3. Told' /\ (rec.trusted => Verified(dir.disk))'
    BY <2>1 DEF noDir, NoRec
  <2> QED BY <1>2, <2>1, <2>2, <2>3 DEF Leaves
<1>27. ASSUME NEW p \in Procs, Cut(p) \/ GuestGone(p) \/ SetArc(p) \/ StartArc(p)
       PROVE  TrustInv'
  <2>1. Leaves(p) /\ lock = p /\ UNCHANGED <<rec, dir>>
    BY <1>27, WalkSteps, AtSteps, Frames
  <2>2. CASE q[p].pc \notin Marking
    BY <1>8, <2>1, <2>2
  <2>3. CASE q[p].pc \in Marking
    <3>1. q[p].src \in Summed
      BY <1>27, <2>3, AtSteps DEF Cut, GuestGone
    <3>2. Verified(dir.disk)
      BY <1>0, <2>3, <3>1 DEF Fetched, Verified
    <3>3. Fetched(p)'
      BY <1>3, <2>1 DEF Fetched, Leaves
    <3>4. Told' /\ (rec.trusted => Verified(dir.disk))'
      BY <2>1, <3>2 DEF Verified
    <3> QED BY <1>2, <2>1, <3>3, <3>4 DEF Leaves
  <2> QED BY <2>2, <2>3
<1>28. CASE HypervisorDies
  <2>1. UNCHANGED <<rec, dir, q>>
    BY <1>28 DEF HypervisorDies
  <2> QED BY <2>1 DEF TrustInv, Fetched, Verified
<1> QED
  BY <1>10, <1>11, <1>12, <1>13, <1>14, <1>15, <1>16, <1>17, <1>18, <1>19, <1>20, <1>21, <1>22,
     <1>23, <1>24, <1>25, <1>26, <1>27, <1>28, <1>29, <1>30, NextSplit

\* What each step does to the machine, field by field.
LEMMA VmFields ==
    ASSUME ShapeInv, NEW p \in Procs
    PROVE  /\ SetResize(p) =>
                /\ vm'.st = vm.st /\ vm'.arc = vm.arc /\ vm'.meta = vm.meta
                /\ vm'.disk = q[p].o.disk /\ vm'.pool = vm.pool
           /\ vm' = [vm EXCEPT !.pool = growGuest(q[p].m).pool] =>
                /\ vm'.st = vm.st /\ vm'.arc = vm.arc /\ vm'.meta = vm.meta
                /\ vm'.disk = vm.disk /\ vm'.pool = growGuest(q[p].m).pool
           /\ SetArc(p) \/ StartArc(p) =>
                /\ vm'.st = vm.st /\ vm'.arc = q[p].m.arc /\ vm'.meta = vm.meta
                /\ vm'.disk = vm.disk /\ vm'.pool = vm.pool
           /\ StartBoot(p) =>
                \/ /\ q[p].st = "stopped" /\ vm'.st = "running" /\ vm'.disk = dir.size
                   /\ vm'.pool = IF vm.pool = 0 THEN dir.size ELSE vm.pool
                \/ /\ q[p].st = "suspended" /\ vm'.st = "running" /\ vm'.arc = vm.arc
                   /\ vm'.meta = vm.meta /\ vm'.disk = vm.disk /\ vm'.pool = vm.pool
                \/ q[p].st = "running" /\ vm' = vm
           /\ StopOrSuspend(p) =>
                \/ q[p].cmd # "suspend" /\ vm'.st = "stopped" /\ vm'.disk = 0 /\ vm'.pool = vm.pool
                \/ /\ q[p].cmd = "suspend" /\ vm.st = "running" /\ vm'.st = "suspended"
                   /\ vm'.arc = vm.arc /\ vm'.meta = q[p].m.arc
                   /\ vm'.disk = vm.disk /\ vm'.pool = vm.pool
                \/ q[p].cmd = "suspend" /\ vm.st # "running" /\ vm' = vm
<1>1. vm \in Machines
  BY DEF ShapeInv
<1>2. ASSUME SetResize(p)
      PROVE  /\ vm'.st = vm.st /\ vm'.arc = vm.arc /\ vm'.meta = vm.meta
             /\ vm'.disk = q[p].o.disk /\ vm'.pool = vm.pool
  BY <1>1, <1>2 DEF SetResize, Machines
<1>3. ASSUME vm' = [vm EXCEPT !.pool = growGuest(q[p].m).pool]
      PROVE  /\ vm'.st = vm.st /\ vm'.arc = vm.arc /\ vm'.meta = vm.meta
             /\ vm'.disk = vm.disk /\ vm'.pool = growGuest(q[p].m).pool
  BY <1>1, <1>3 DEF Machines
<1>4. ASSUME SetArc(p) \/ StartArc(p)
      PROVE  /\ vm'.st = vm.st /\ vm'.arc = q[p].m.arc /\ vm'.meta = vm.meta
             /\ vm'.disk = vm.disk /\ vm'.pool = vm.pool
  <2>1. vm' = [vm EXCEPT !.arc = q[p].m.arc, !.loader = q[p].m.arc]
    BY <1>4 DEF SetArc, StartArc, capped
  <2> QED BY <1>1, <2>1 DEF Machines
<1>5. ASSUME StartBoot(p)
      PROVE  \/ /\ q[p].st = "stopped" /\ vm'.st = "running" /\ vm'.disk = dir.size
                /\ vm'.pool = IF vm.pool = 0 THEN dir.size ELSE vm.pool
             \/ /\ q[p].st = "suspended" /\ vm'.st = "running" /\ vm'.arc = vm.arc
                /\ vm'.meta = vm.meta /\ vm'.disk = vm.disk /\ vm'.pool = vm.pool
             \/ q[p].st = "running" /\ vm' = vm
  <2>1. q[p].st \in States
    BY CopyShape
  <2>2. \/ q[p].st = "stopped" /\ vm' = booted(q[p].m)
        \/ q[p].st = "suspended" /\ vm' = [vm EXCEPT !.st = "running"]
        \/ q[p].st = "running" /\ vm' = vm
    BY <1>5, <2>1 DEF StartBoot, States
  <2>3. CASE q[p].st = "stopped" /\ vm' = booted(q[p].m)
    <3> DEFINE n == IF vm.pool = 0 THEN dir.size ELSE vm.pool
    <3>1. vm' = [vm EXCEPT !.st = "running", !.mem = q[p].m.mem, !.disk = dir.size,
                           !.arc = vm.loader, !.pool = n]
      BY <1>1, <2>3 DEF booted, Machines
    <3> HIDE DEF n
    <3>2. vm'.st = "running" /\ vm'.disk = dir.size /\ vm'.pool = n
      BY <1>1, <3>1 DEF Machines
    <3> QED BY <2>3, <3>2 DEF n
  <2>4. CASE q[p].st = "suspended" /\ vm' = [vm EXCEPT !.st = "running"]
    BY <1>1, <2>4 DEF Machines
  <2> QED BY <2>2, <2>3, <2>4
<1>6. ASSUME StopOrSuspend(p)
      PROVE  \/ q[p].cmd # "suspend" /\ vm'.st = "stopped" /\ vm'.disk = 0 /\ vm'.pool = vm.pool
             \/ /\ q[p].cmd = "suspend" /\ vm.st = "running" /\ vm'.st = "suspended"
                /\ vm'.arc = vm.arc /\ vm'.meta = q[p].m.arc
                /\ vm'.disk = vm.disk /\ vm'.pool = vm.pool
             \/ q[p].cmd = "suspend" /\ vm.st # "running" /\ vm' = vm
  <2>1. \/ q[p].cmd # "suspend" /\ vm' = stopped
        \/ /\ q[p].cmd = "suspend" /\ vm.st = "running"
           /\ vm' = [vm EXCEPT !.st = "suspended", !.meta = q[p].m.arc]
        \/ q[p].cmd = "suspend" /\ vm.st # "running" /\ vm' = vm
    BY <1>6 DEF StopOrSuspend
  <2>2. stopped.st = "stopped" /\ stopped.disk = 0 /\ stopped.pool = vm.pool
    BY <1>1 DEF stopped, Machines
  <2> QED BY <1>1, <2>1, <2>2 DEF Machines
<1> QED BY <1>2, <1>3, <1>4, <1>5, <1>6

\* The steps during which nothing fails.
LEMMA TornFrames ==
    ASSUME NEW p \in Procs,
           \/ Calls(p) \/ Lock(p) \/ LockBusy(p) \/ Reload(p)
           \/ InitImage(p) \/ InitReuse(p) \/ InitDownload(p) \/ InitVerify(p)
           \/ InitInstall(p) \/ InitClean(p) \/ InitMarker(p) \/ InitSave(p)
           \/ SetApply(p) \/ SetGrow(p) \/ SetSaveGrow(p) \/ SetResize(p) \/ SetGuest(p)
           \/ SetSave(p) \/ SetArc(p)
           \/ StartSave(p) \/ StartBoot(p) \/ StartGrow(p) \/ StartGrown(p) \/ StopOrSuspend(p)
    PROVE  UNCHANGED torn
<1>1. Calls(p) => UNCHANGED torn
  BY DEF Calls, CallInit, CallSet, CallStart, CallStop, CallSuspend, CallRm, begin
<1>2. Lock(p) \/ LockBusy(p) \/ Reload(p) => UNCHANGED torn
  BY DEF Lock, LockBusy, Reload
<1>3. InitImage(p) \/ InitReuse(p) \/ InitDownload(p) \/ InitVerify(p) => UNCHANGED torn
  BY DEF InitImage, InitReuse, InitDownload, InitVerify
<1>4. InitInstall(p) \/ InitClean(p) \/ InitMarker(p) \/ InitSave(p) => UNCHANGED torn
  BY DEF InitInstall, InitClean, InitMarker, InitSave
<1>5. SetApply(p) \/ SetGrow(p) \/ SetSaveGrow(p) \/ SetResize(p) => UNCHANGED torn
  BY DEF SetApply, SetGrow, SetSaveGrow, SetResize
<1>6. SetGuest(p) \/ SetSave(p) \/ SetArc(p) => UNCHANGED torn
  BY DEF SetGuest, SetSave, SetArc
<1>7. StartSave(p) \/ StartBoot(p) \/ StartGrow(p) => UNCHANGED torn
  BY DEF StartSave, StartBoot, StartGrow
<1>8. StartGrown(p) \/ StopOrSuspend(p) => UNCHANGED torn
  BY DEF StartGrown, StopOrSuspend
<1> QED BY <1>1, <1>2, <1>3, <1>4, <1>5, <1>6, <1>7, <1>8

\* Every step keeps the cap in force the record's, or about to be.
LEMMA ArcNext ==
    ASSUME RecordInv, ArcInv, Next
    PROVE  ArcInv'
<1> USE DEF Applying, Capping
<1>0. ShapeInv /\ PlaceInv /\ CreateInv /\ CopyInv /\ HardwareIsRecord
  BY DEF RecordInv
<1>1. ASSUME NEW p \in Procs, Only(p), lock = p, Caps(p)', CapInForce'
      PROVE  ArcInv'
  <2>1. ASSUME NEW r \in Procs, r # p
        PROVE  Caps(r)'
    <3>1. q'[r].pc \in {"lock", "end"}
      BY <1>0, <1>1, <2>1 DEF Only, PlaceInv, Placed
    <3> QED BY <3>1 DEF Caps
  <2> QED BY <1>1, <2>1 DEF ArcInv
<1>2. ASSUME NEW p \in Procs, Only(p), UNCHANGED <<rec, vm, torn>>, q[p].pc \in {"lock", "end"},
             q'[p].pc \in {"lock", "end", "image", "reload"} \/ (q'[p].pc = "stop" /\ q'[p].cmd = "rm"),
             lock' = lock \/ lock = Nobody
      PROVE  ArcInv'
  <2>1. ASSUME NEW r \in Procs
        PROVE  Caps(r)'
    <3>1. CASE r = p
      BY <1>2, <3>1 DEF Caps
    <3>2. CASE r # p
      BY <1>2, <3>2 DEF Caps, Only, ArcInv
    <3> QED BY <3>1, <3>2
  <2>2. CapInForce'
    BY <1>2, RecordAssumption DEF CapInForce, ArcInv, Only
  <2> QED BY <2>1, <2>2 DEF ArcInv
<1>3. idle.pc = "end" /\ idle.cmd = "none"
  BY DEF idle
<1>4. ASSUME NEW p \in Procs, lock = p, q[p].pc \notin Applying \cup Capping, ~torn
      PROVE  /\ vm.st = "running" => vm.arc = rec.arc
             /\ vm.st = "suspended" => vm.arc = vm.meta
  BY <1>4 DEF CapInForce, ArcInv
<1>5. \A p \in Procs : Caps(p) /\ q[p].m \in Records
  BY <1>0, CopyShape DEF ArcInv
<1>6. ~torn /\ vm.st = "suspended" => vm.arc = vm.meta
  BY DEF ArcInv, CapInForce
\* A command that changes neither the cap of the record nor the machine.
<1>7. ASSUME NEW p \in Procs, Only(p), lock = p, UNCHANGED <<vm, torn>>, rec'.arc = rec.arc,
             q[p].pc \notin Applying \cup Capping, Caps(p)'
      PROVE  ArcInv'
  <2>1. CapInForce'
    BY <1>4, <1>7 DEF CapInForce
  <2> QED BY <1>1, <1>7, <2>1
<1>8. ASSUME NEW p \in Procs, Leaves(p), lock = p,
             (~torn => /\ vm.st = "suspended" => vm.arc = vm.meta
                       /\ vm.st = "running" => vm.arc = rec.arc)'
      PROVE  ArcInv'
  <2>1. Caps(p)'
    BY <1>3, <1>8 DEF Caps, Leaves
  <2>2. CapInForce'
    BY <1>8 DEF CapInForce
  <2> QED BY <1>1, <1>8, <2>1, <2>2 DEF Leaves
<1>9. ASSUME NEW p \in Procs, Calls(p)
      PROVE  ArcInv'
  <2>1. Only(p) /\ q'[p].pc = "lock" /\ UNCHANGED <<rec, vm, lock, torn>>
    BY <1>0, <1>9, CallInitStep, CallsStep, TornFrames DEF Waiting
  <2>2. q[p].cmd = "none"
    BY <1>9 DEF Calls, CallInit, CallSet, CallStart, CallStop, CallSuspend, CallRm, begin
  <2>3. ASSUME NEW r \in Procs
        PROVE  Caps(r)'
    <3>1. CASE r = p
      BY <2>1, <3>1 DEF Caps
    <3>2. CASE r # p
      BY <1>5, <2>1, <3>2 DEF Caps, Only
    <3> QED BY <3>1, <3>2
  <2>4. q[p].pc \notin Applying \cup Capping
    BY <1>0, <2>2 DEF PlaceInv, Placed, SetPCs, StartPCs
  <2>5. CapInForce'
    BY <2>1, <2>4 DEF CapInForce, ArcInv, Only
  <2> QED BY <2>3, <2>5 DEF ArcInv
<1>10. ASSUME NEW p \in Procs, Lock(p)
       PROVE  ArcInv'
  <2>1. /\ Only(p) /\ UNCHANGED <<rec, vm, torn>> /\ q[p].pc = "lock" /\ lock = Nobody
        /\ q'[p].pc \in {"image", "reload"} \/ (q'[p].pc = "stop" /\ q'[p].cmd = "rm")
    BY <1>0, <1>10, LockStep, SaveSteps, Frames, TornFrames DEF Same
  <2> QED BY <1>2, <2>1
<1>11. ASSUME NEW p \in Procs, LockBusy(p)
       PROVE  ArcInv'
  <2>1. /\ Only(p) /\ UNCHANGED <<rec, vm, torn, lock>> /\ q[p].pc = "lock" /\ q'[p].pc = "end"
    BY <1>0, <1>3, <1>11, SaveSteps, Frames, TornFrames DEF LockBusy
  <2> QED BY <1>2, <2>1
<1>12. ASSUME NEW p \in Procs, Reload(p)
       PROVE  ArcInv'
  <2>1. q[p].pc = "reload" /\ lock = p /\ UNCHANGED <<rec, vm, torn>>
    BY <1>12, AtSteps, Frames, TornFrames
  <2>2. CASE end(p)
    BY <1>0, <1>4, <1>8, <2>1, <2>2, EndStep DEF Leaves, ShapeInv
  <2>3. CASE ~end(p)
    <3>1. Only(p) /\ q'[p].m = rec /\ q'[p].pc \in {"apply", "addr", "stop"}
      BY <1>0, <1>12, <2>3, ReloadStep
    <3>2. Caps(p)'
      BY <2>1, <3>1 DEF Caps
    <3> QED BY <1>7, <2>1, <3>1, <3>2
  <2> QED BY <2>2, <2>3
<1>13. ASSUME NEW p \in Procs,
              \/ InitImage(p) \/ InitReuse(p) \/ InitDownload(p) \/ InitVerify(p)
              \/ InitInstall(p) \/ InitClean(p) \/ InitMarker(p)
       PROVE  ArcInv'
  <2>1. /\ q[p].pc \in {"image", "fetch", "verify", "install", "clean", "marker"} /\ lock = p
        /\ UNCHANGED <<rec, vm, torn>>
    BY <1>13, AtSteps, Frames, TornFrames
  <2>2. \/ Leaves(p)
        \/ Only(p) /\ q'[p].pc \in {"size", "fetch", "verify", "install", "clean", "marker"}
    BY <1>0, <1>13, WalkSteps DEF Walks
  <2>3. CASE Leaves(p)
    BY <1>4, <1>8, <2>1, <2>3
  <2>4. CASE Only(p) /\ q'[p].pc \in {"size", "fetch", "verify", "install", "clean", "marker"}
    <3>1. Caps(p)'
      BY <2>4 DEF Caps
    <3> QED BY <1>7, <2>1, <2>4, <3>1
  <2> QED BY <2>2, <2>3, <2>4
<1>14. ASSUME NEW p \in Procs, InitSave(p)
       PROVE  ArcInv'
  <2>1. /\ lock = p /\ UNCHANGED <<vm, torn>> /\ Leaves(p) /\ q[p].cmd = "init"
    BY <1>0, <1>14, AtSteps, Frames, TornFrames, WalkSteps DEF PlaceInv, Placed, InitPCs
  <2>2. vm.st = "stopped"
    BY <1>0, <2>1 DEF CreateInv, HardwareIsRecord, Exists
  <2> QED BY <1>8, <2>1, <2>2
<1>15. ASSUME NEW p \in Procs, SetApply(p)
       PROVE  ArcInv'
  <2>1. /\ q[p].pc = "apply" /\ lock = p /\ UNCHANGED <<rec, vm, torn>> /\ Copied(p)
    BY <1>0, <1>15, AtSteps, Frames, TornFrames DEF CopyInv, Working, SetPCs
  <2>2. CASE end(p)
    BY <1>0, <1>4, <1>8, <2>1, <2>2, EndStep DEF Leaves, ShapeInv
  <2>3. CASE ~end(p)
    <3>1. /\ Only(p) /\ q'[p].pc \in {"grow", "save"} /\ q'[p].st = q[p].st
          /\ q'[p].m.arc = given(q[p].o.arc, q[p].m.arc)
      BY <1>0, <1>15, <2>3, SetApplyStep
    <3>2. q'[p].arcChanged \/ q'[p].m.arc = q[p].m.arc
      BY <1>0, <1>15, <2>3, <3>1, ApplyCopy
    <3>3. vm.st = "running" => q[p].st = "running"
      BY <1>0, <2>1, CopyShape DEF Copied, States
    <3>4. q[p].m.arc = rec.arc
      BY <1>5, <2>1 DEF Caps
    <3>5. Caps(p)'
      BY <1>4, <2>1, <3>1, <3>2, <3>3, <3>4 DEF Caps
    <3> QED BY <1>7, <2>1, <3>1, <3>5
  <2> QED BY <2>2, <2>3
\* A set that has not yet applied its cap: who is about to is still there.
<1>16. ASSUME NEW p \in Procs, Only(p), lock = p, lock' = lock, q'[p].pc \in Applying \cup Capping,
              Caps(p)', vm'.st = "suspended" /\ ~torn' => vm'.arc = vm'.meta
       PROVE  ArcInv'
  <2>1. CapInForce'
    BY <1>16 DEF CapInForce
  <2> QED BY <1>1, <1>16, <2>1
<1>17. ASSUME NEW p \in Procs, SetGrow(p) \/ SetResize(p) \/ SetGuest(p)
       PROVE  ArcInv'
  <2>1. /\ q[p].pc \in {"grow", "resize", "guest"} /\ lock = p /\ UNCHANGED <<rec, torn, lock>>
        /\ vm'.st = vm.st /\ vm'.arc = vm.arc /\ vm'.meta = vm.meta
    BY <1>0, <1>17, AtSteps, Frames, TornFrames, VmFields DEF SetGuest
  <2>2. /\ Only(p) /\ q'[p].pc \in {"savegrow", "save", "guest"} /\ q'[p].m.arc = q[p].m.arc
        /\ q'[p].st = q[p].st /\ q'[p].arcChanged = q[p].arcChanged
    BY <1>0, <1>5, <1>17, NoteSteps, KeepSteps, WalkSteps DEF Notes, Keeps, Walks, grown, Records
  <2>3. Caps(p)'
    BY <1>5, <2>1, <2>2 DEF Caps
  <2> QED BY <1>6, <1>16, <2>1, <2>2, <2>3
<1>18. ASSUME NEW p \in Procs, SetSaveGrow(p)
       PROVE  ArcInv'
  <2>1. /\ q[p].pc = "savegrow" /\ lock = p /\ UNCHANGED <<vm, torn, lock>>
        /\ Keeps(p) /\ q'[p].pc \in {"resize", "save"}
    BY <1>0, <1>18, AtSteps, Frames, TornFrames, KeepSteps, WalkSteps DEF Walks
  <2>2. Caps(p)'
    BY <1>5, <2>1 DEF Caps, Keeps
  <2> QED BY <1>6, <1>16, <2>1, <2>2 DEF Keeps
<1>19. ASSUME NEW p \in Procs, SetSave(p)
       PROVE  ArcInv'
  <2>1. q[p].pc = "save" /\ lock = p /\ UNCHANGED <<vm, torn>> /\ rec' = q[p].m
    BY <1>0, <1>19, AtSteps, Frames, TornFrames, SaveSteps
  <2>2. CASE q[p].arcChanged /\ q[p].st = "running"
    <3>1. Keeps(p) /\ q'[p].pc = "arc" /\ lock' = lock
      BY <1>0, <1>19, <2>2, GotoKeeps DEF SetSave, PCs, Working
    <3>2. Caps(p)'
      BY <2>1, <3>1 DEF Caps, Keeps
    <3> QED BY <1>6, <1>16, <2>1, <3>1, <3>2 DEF Keeps
  <2>3. CASE ~(q[p].arcChanged /\ q[p].st = "running")
    <3>1. Leaves(p)
      BY <1>0, <1>19, <2>3, EndStep DEF SetSave, Leaves, ShapeInv
    <3>2. vm.st = "running" /\ ~torn => q[p].m.arc = vm.arc
      BY <1>5, <2>1, <2>3 DEF Caps
    <3> QED BY <1>6, <1>8, <2>1, <3>1, <3>2
  <2> QED BY <2>2, <2>3
<1>20. ASSUME NEW p \in Procs, SetArc(p) \/ StartArc(p)
       PROVE  ArcInv'
  <2>1. /\ q[p].pc = "arc" /\ lock = p /\ UNCHANGED rec /\ Leaves(p)
        /\ vm'.st = vm.st /\ vm'.arc = q[p].m.arc /\ vm.st = "running"
    BY <1>0, <1>20, AtSteps, Frames, VmFields, WalkSteps DEF SetArc, StartArc
  <2>2. q[p].m.arc = rec.arc
    BY <1>5, <2>1 DEF Caps
  <2> QED BY <1>8, <2>1, <2>2
<1>21. ASSUME NEW p \in Procs, StartSave(p)
       PROVE  ArcInv'
  <2>1. /\ q[p].pc = "addr" /\ lock = p /\ UNCHANGED <<vm, torn>> /\ Only(p) /\ q'[p].pc = "boot"
        /\ q'[p].m.arc = q[p].m.arc /\ (rec' = rec \/ rec' = q'[p].m)
    BY <1>0, <1>21, AtSteps, Frames, TornFrames, StartSaveStep
  <2>2. q[p].m.arc = rec.arc
    BY <1>5, <2>1 DEF Caps
  <2>3. rec'.arc = rec.arc /\ Caps(p)'
    BY <2>1, <2>2 DEF Caps
  <2> QED BY <1>7, <2>1, <2>3
<1>22. ASSUME NEW p \in Procs, StartBoot(p)
       PROVE  ArcInv'
  <2>1. /\ q[p].pc = "boot" /\ lock = p /\ UNCHANGED <<rec, torn>> /\ Copied(p)
        /\ q[p].m.arc = rec.arc
    BY <1>0, <1>5, <1>22, AtSteps, Frames, TornFrames DEF CopyInv, Working, StartPCs, Caps
  <2>2. vm'.st = "suspended" /\ ~torn' => vm'.arc = vm'.meta
    BY <1>0, <1>6, <1>22, <2>1, VmFields
  <2>3. CASE q[p].st # "suspended" \/ wakeCaps(q[p].m)
    <3>1. (goto(p, "finish") \/ goto(p, "arc")) /\ UNCHANGED lock
      BY <1>22, <2>3 DEF StartBoot
    <3>2. {"finish", "arc"} \subseteq PCs
      BY DEF PCs, Working, StartPCs
    <3>3. Keeps(p) /\ q'[p].pc \in {"finish", "arc"}
      BY <1>0, <3>1, <3>2, GotoKeeps
    <3>4. Caps(p)'
      BY <2>1, <3>3 DEF Caps, Keeps
    <3> QED BY <1>16, <2>1, <2>2, <3>1, <3>3, <3>4 DEF Keeps
  <2>4. CASE q[p].st = "suspended" /\ ~wakeCaps(q[p].m)
    <3>1. end(p)
      BY <1>22, <2>4 DEF StartBoot
    <3>2. Leaves(p)
      BY <1>0, <3>1, EndStep DEF Leaves, ShapeInv
    <3>3. vm.st = "suspended" /\ vm'.arc = vm.arc /\ vm.meta = q[p].m.arc
      BY <1>0, <1>22, <2>1, <2>4, VmFields DEF Copied, wakeCaps
    <3> QED BY <1>6, <1>8, <2>1, <2>2, <3>2, <3>3
  <2> QED BY <2>3, <2>4
<1>23. ASSUME NEW p \in Procs, StartGrow(p)
       PROVE  ArcInv'
  <2>1. /\ q[p].pc = "finish" /\ lock = p /\ UNCHANGED <<rec, torn, lock>>
        /\ vm'.st = vm.st /\ vm'.arc = vm.arc /\ vm'.meta = vm.meta
    BY <1>0, <1>23, AtSteps, Frames, TornFrames, VmFields DEF StartGrow
  <2>2. Only(p) /\ q'[p].pc \in {"arc", "saved"} /\ q'[p].m.arc = q[p].m.arc
    BY <1>0, <1>5, <1>23, NoteSteps DEF Notes, Keeps, Records
  <2>3. Caps(p)'
    BY <1>5, <2>1, <2>2 DEF Caps
  <2> QED BY <1>6, <1>16, <2>1, <2>2, <2>3
<1>24. ASSUME NEW p \in Procs, StartGrown(p)
       PROVE  ArcInv'
  <2>1. /\ q[p].pc = "saved" /\ lock = p /\ UNCHANGED <<vm, torn, lock>> /\ rec' = q[p].m
        /\ Keeps(p) /\ q'[p].pc = "arc"
    BY <1>0, <1>24, AtSteps, Frames, TornFrames, SaveSteps, KeepSteps, WalkSteps DEF Walks
  <2>2. Caps(p)'
    BY <2>1 DEF Caps, Keeps
  <2> QED BY <1>6, <1>16, <2>1, <2>2 DEF Keeps
<1>25. ASSUME NEW p \in Procs, StopOrSuspend(p)
       PROVE  ArcInv'
  <2>1. q[p].pc = "stop" /\ lock = p /\ UNCHANGED <<rec, torn>>
    BY <1>25, AtSteps, Frames, TornFrames
  <2>2. /\ vm'.st = "running" /\ ~torn' => vm'.arc = rec'.arc
        /\ vm'.st = "suspended" /\ ~torn' => vm'.arc = vm'.meta
    BY <1>0, <1>4, <1>5, <1>25, <2>1, VmFields DEF Caps
  <2>3. CASE Leaves(p)
    BY <1>8, <2>1, <2>2, <2>3
  <2>4. CASE ~Leaves(p)
    <3>1. Only(p) /\ q'[p].pc = "delete"
      BY <1>0, <1>25, <2>4, WalkSteps DEF Walks
    <3>2. Caps(p)'
      BY <3>1 DEF Caps
    <3>3. CapInForce'
      BY <2>2 DEF CapInForce
    <3> QED BY <1>1, <2>1, <3>1, <3>2, <3>3
  <2> QED BY <2>3, <2>4
<1>26. ASSUME NEW p \in Procs, RmDelete(p)
       PROVE  ArcInv'
  <2>1. lock = p /\ Leaves(p) /\ vm'.st = "stopped"
    BY <1>0, <1>26, AtSteps, WalkSteps, SaveSteps DEF noVM
  <2> QED BY <1>8, <2>1
<1>27. ASSUME NEW p \in Procs, Cut(p) \/ GuestGone(p)
       PROVE  ArcInv'
  <2>1. lock = p /\ Leaves(p) /\ torn'
    BY <1>0, <1>27, AtSteps, WalkSteps DEF Cut, GuestGone
  <2> QED BY <1>8, <2>1
<1>28. ASSUME NEW p \in Procs, StartWarns(p)
       PROVE  ArcInv'
  <2>1. /\ lock = p /\ torn' /\ UNCHANGED <<rec, vm>> /\ q[p].pc \in Capping
    BY <1>28, AtSteps, Frames DEF StartWarns
  <2>2. CASE Leaves(p)
    BY <1>8, <2>1, <2>2
  <2>3. CASE ~Leaves(p)
    <3>1. Keeps(p) /\ q'[p].pc = "arc"
      BY <1>0, <1>28, <2>3, KeepSteps, WalkSteps DEF Walks
    <3>2. Caps(p)'
      BY <1>5, <2>1, <3>1 DEF Caps, Keeps
    <3>3. CapInForce'
      BY <2>1 DEF CapInForce
    <3> QED BY <1>1, <2>1, <3>1, <3>2, <3>3 DEF Keeps
  <2> QED BY <2>2, <2>3
<1>29. CASE HypervisorDies
  <2>1. UNCHANGED <<rec, q, lock, torn>> /\ vm'.st = "stopped"
    BY <1>0, <1>29, DiesStep DEF HypervisorDies
  <2>2. ASSUME NEW p \in Procs
        PROVE  Caps(p)'
    BY <1>5, <2>1 DEF Caps
  <2>3. CapInForce'
    BY <2>1 DEF CapInForce
  <2> QED BY <2>2, <2>3 DEF ArcInv
<1>30. ASSUME NEW p \in Procs, WakeDiscards(p)
       PROVE  ArcInv'
  <2>1. CapInForce'
    BY <1>30, WakeDiscardsStep, <1>0 DEF CapInForce
  <2>2. Caps(p)'
    BY <1>0, <1>5, <1>30, WakeDiscardsStep DEF Caps
  <2> QED BY <1>0, <1>1, <1>30, <2>1, <2>2, WakeDiscardsStep
<1> QED
  BY <1>9, <1>10, <1>11, <1>12, <1>13, <1>14, <1>15, <1>17, <1>18, <1>19, <1>20, <1>21, <1>22,
     <1>23, <1>24, <1>25, <1>26, <1>27, <1>28, <1>29, <1>30, NextSplit

\* What each step of init does to the archives of a fetch.
LEMMA FetchSteps ==
    ASSUME ShapeInv, NEW p \in Procs
    PROVE  /\ InitReuse(p) => Leaves(p) \/ dir'.archive[Slot(q[p].src)] # <<>>
           /\ InitDownload(p) /\ q'[p].pc = "verify" =>
                Len(dir'.part[Slot(q[p].src)]) = 2
           /\ InitVerify(p) /\ Len(dir.part[Slot(q[p].src)]) = 2 =>
                Leaves(p) \/ dir'.archive[Slot(q[p].src)] # <<>>
<1> DEFINE s == Slot(q[p].src)
<1>1. s \in Slots /\ dir \in Directories
  BY DEF Slot, Slots, ShapeInv
<1>2. end(p) => Leaves(p)
  BY EndStep DEF Leaves, ShapeInv
<1>3. InitReuse(p) => Leaves(p) \/ dir'.archive[s] # <<>>
  BY <1>2 DEF InitReuse
<1>4. ASSUME InitDownload(p), q'[p].pc = "verify"
      PROVE  Len(dir'.part[s]) = 2
  <2>1. q[p].pc = "fetch"
    BY <1>4, AtSteps
  <2>2. q' # q
    BY <1>4, <2>1
  <2> QED BY <1>4, <2>2 DEF InitDownload
<1>5. ASSUME InitVerify(p), Len(dir.part[s]) = 2
      PROVE  Leaves(p) \/ dir'.archive[s] # <<>>
  <2> DEFINE y == dir.part[s]
  <2>1. \/ dir' = [dir EXCEPT !.part[s] = <<>>, !.archive[s] = y]
        \/ end(p)
    BY <1>5 DEF InitVerify
  <2>2. y # <<>>
    BY <1>5
  <2> HIDE DEF s, y
  <2> QED BY <1>1, <1>2, <2>1, <2>2 DEF Directories
<1> QED BY <1>3, <1>4, <1>5

\* An init that waits for the lock finds no smaller a disk than it asked for:
\* only an rm, or another init or a set, touches the disk in between, and the
\* latter two need that there is no other init, or a record.
LEMMA RoomNext ==
    ASSUME ~SmallReuse, RecordInv, Room, Next
    PROVE  Room'
<1>0. ShapeInv /\ PlaceInv /\ CreateInv /\ CopyInv
  BY DEF RecordInv
<1> DEFINE Waits(p) == q[p].cmd = "init" /\ q[p].pc \in {"lock", "image"}
\* A step that leaves the disk alone and calls no init.
<1>1. ASSUME NEW p \in Procs, Only(p), dir'.disk = dir.disk, dir'.size = dir.size,
             Waits(p)' => Waits(p) /\ q'[p].o = q[p].o
      PROVE  Room'
  BY <1>1 DEF Room, Only
\* A step after which no init waits.
<1>2. ASSUME NEW p \in Procs, Only(p), \A r \in Procs : q[r].cmd = "init" => r = p, ~Waits(p)'
      PROVE  Room'
  BY <1>2 DEF Room, Only
<1>3. idle.pc = "end"
  BY DEF idle
<1>4. ASSUME NEW p \in Procs, Leaves(p), dir'.disk = dir.disk, dir'.size = dir.size
      PROVE  Room'
  BY <1>1, <1>3, <1>4 DEF Leaves
<1>5. ASSUME NEW p \in Procs, NEW X, Walks(p, X), X \cap {"lock", "image"} = {},
             dir'.disk = dir.disk, dir'.size = dir.size
      PROVE  Room'
  BY <1>1, <1>5 DEF Walks
<1>6. ASSUME NEW p \in Procs, CallInit(p)
      PROVE  Room'
  <2>1. Only(p) /\ UNCHANGED dir /\ (dir.disk = <<>> \/ q'[p].o.disk <= dir.size)
    BY <1>0, <1>6, CallInitStep, CallInitAsks DEF Waiting
  <2> QED BY <2>1 DEF Room, Only
<1>7. ASSUME NEW p \in Procs, Calls(p), ~CallInit(p)
      PROVE  Room'
  BY <1>0, <1>1, <1>7, CallsStep DEF Waiting
<1>8. ASSUME NEW p \in Procs, Lock(p)
      PROVE  Room'
  BY <1>0, <1>1, <1>8, LockStep, SaveSteps, Frames DEF Same
<1>9. ASSUME NEW p \in Procs, LockBusy(p)
      PROVE  Room'
  BY <1>0, <1>1, <1>3, <1>9, SaveSteps, Frames
<1>10. ASSUME NEW p \in Procs, Reload(p) \/ SetApply(p)
       PROVE  Room'
  <2>1. UNCHANGED dir
    BY <1>10, Frames
  <2>2. CASE end(p)
    BY <1>0, <1>4, <2>1, <2>2, EndStep DEF Leaves, ShapeInv
  <2>3. CASE ~end(p)
    BY <1>0, <1>1, <1>10, <2>1, <2>3, ReloadStep, SetApplyStep
  <2> QED BY <2>2, <2>3
<1>11. ASSUME NEW p \in Procs, InitInstall(p)
       PROVE  Room'
  <2>1. q[p].cmd = "init" /\ Walks(p, {"clean"})
    BY <1>0, <1>11, AtSteps, WalkSteps DEF PlaceInv, Placed, InitPCs
  <2> QED BY <1>0, <1>2, <2>1 DEF CreateInv, Walks
<1>12. ASSUME NEW p \in Procs, SetGrow(p) \/ SetResize(p)
       PROVE  Room'
  <2>1. rec # NoRec
    BY <1>0, <1>12, AtSteps DEF CopyInv, Copied, Working, SetPCs
  <2>2. Only(p) /\ q'[p].pc \in {"savegrow", "guest"}
    BY <1>0, <1>12, SetGrowStep, WalkSteps DEF Walks
  <2> QED BY <1>0, <1>2, <2>1, <2>2 DEF CreateInv
<1>13. ASSUME NEW p \in Procs, RmDelete(p)
       PROVE  Room'
  <2>1. dir'.disk = <<>>
    BY <1>0, <1>13, SaveSteps DEF noDir
  <2> QED BY <2>1 DEF Room
<1>14. ASSUME NEW p \in Procs, StartSave(p) \/ WakeDiscards(p)
       PROVE  Room'
  BY <1>0, <1>1, <1>14, StartSaveStep, WakeDiscardsStep, Frames
<1>15. ASSUME NEW p \in Procs,
              \/ InitImage(p) \/ InitReuse(p) \/ InitDownload(p) \/ InitVerify(p)
              \/ InitClean(p) \/ InitMarker(p) \/ InitSave(p)
       PROVE  Room'
  <2>1. dir'.disk = dir.disk /\ dir'.size = dir.size
    BY <1>0, <1>15, DirSteps, Frames
  <2> QED BY <1>0, <1>4, <1>5, <1>15, <2>1, WalkSteps
<1>16. ASSUME NEW p \in Procs,
              \/ SetSaveGrow(p) \/ SetGuest(p) \/ SetSave(p) \/ SetArc(p) \/ StartBoot(p)
              \/ StartGrow(p) \/ StartGrown(p) \/ StartArc(p) \/ StopOrSuspend(p)
              \/ Cut(p) \/ GuestGone(p) \/ StartWarns(p)
       PROVE  Room'
  <2>1. UNCHANGED dir
    BY <1>16, Frames
  <2> QED BY <1>0, <1>4, <1>5, <1>16, <2>1, WalkSteps
<1>17. CASE HypervisorDies
  BY <1>17 DEF HypervisorDies, Room
<1> QED
  BY <1>6, <1>7, <1>8, <1>9, <1>10, <1>11, <1>12, <1>13, <1>14, <1>15, <1>16, <1>17, NextSplit

\* Every step keeps record, file and pool in agreement.
LEMMA DiskNext ==
    ASSUME ~SmallReuse, RecordInv, CapInv, AskedInv, DiskInv, Next
    PROVE  DiskInv'
<1> USE DEF Working, SetPCs, StartPCs
<1>0. ShapeInv /\ PlaceInv /\ CreateInv /\ CopyInv /\ Room'
  BY RoomNext DEF RecordInv, DiskInv
<1>1. ASSUME NEW p \in Procs, Only(p), lock = p, Sized(p)', SizesAgree'
      PROVE  DiskInv'
  <2>1. ASSUME NEW r \in Procs, r # p
        PROVE  Sized(r)'
    <3>1. q'[r].pc \in {"lock", "end"}
      BY <1>0, <1>1, <2>1 DEF Only, PlaceInv, Placed
    <3> QED BY <3>1 DEF Sized
  <2> QED BY <1>0, <1>1, <2>1 DEF DiskInv
<1>2. UNCHANGED <<rec, dir, vm>> => SizesAgree'
  BY DEF DiskInv, SizesAgree, DiskHoldsRecord, GrowNotForgotten, Exists
<1>3. ASSUME NEW p \in Procs, Only(p), UNCHANGED <<rec, dir, vm>>,
             q'[p].pc \in {"end", "lock", "reload", "stop", "delete", "image", "fetch"}
      PROVE  DiskInv'
  <2>1. ASSUME NEW r \in Procs
        PROVE  Sized(r)'
    <3>1. CASE r = p
      BY <1>3, <3>1 DEF Sized
    <3>2. CASE r # p
      BY <1>3, <3>2 DEF Sized, Only, DiskInv
    <3> QED BY <3>1, <3>2
  <2> QED BY <1>0, <1>2, <1>3, <2>1 DEF DiskInv
<1>4. idle.pc = "end"
  BY DEF idle
<1>5. ASSUME NEW p \in Procs, Leaves(p), UNCHANGED <<rec, dir, vm>>
      PROVE  DiskInv'
  BY <1>3, <1>4, <1>5 DEF Leaves
<1>6. ASSUME NEW p \in Procs, Leaves(p), lock = p, SizesAgree'
      PROVE  DiskInv'
  <2>1. Sized(p)'
    BY <1>4, <1>6 DEF Sized, Leaves
  <2> QED BY <1>1, <1>6, <2>1 DEF Leaves
<1>7. /\ rec.disk \in Int /\ dir.size \in Int /\ vm.pool \in Int /\ vm.disk \in Int
      /\ \A p \in Procs : /\ q[p].m \in Records /\ q[p].m.disk \in Int /\ q[p].o.disk \in Int
                          /\ q[p].m.pending \in BOOLEAN
  BY <1>0, CopyShape, AskedShape DEF ShapeInv, Records, Directories, Machines
<1>8. /\ SizesAgree /\ \A p \in Procs : Sized(p)
      /\ ImageSize \in Int /\ \A d \in InitDisks : d \in Int
  BY RecordAssumption DEF DiskInv
<1>9. ASSUME NEW p \in Procs, q[p].pc \in Working
      PROVE  /\ rec # NoRec /\ dir.disk # <<>>
             /\ rec.disk <= q[p].m.disk /\ q[p].m.disk <= dir.size
             /\ (~q[p].m.pending /\ vm.pool # 0) => q[p].m.disk <= vm.pool
  BY <1>0, <1>8, <1>9 DEF CopyInv, Copied, Sized, SizesAgree, DiskHoldsRecord, Exists
<1>10. ASSUME NEW p \in Procs, Calls(p) \/ Lock(p) \/ LockBusy(p)
       PROVE  DiskInv'
  <2>1. /\ Only(p) /\ q'[p].pc \in {"lock", "end", "image", "stop", "reload"}
        /\ UNCHANGED <<rec, dir, vm>>
    BY <1>0, <1>4, <1>10, CallInitStep, CallsStep, LockStep, SaveSteps, Frames DEF Waiting
  <2> QED BY <1>3, <2>1
<1>11. ASSUME NEW p \in Procs, Reload(p)
       PROVE  DiskInv'
  <2>1. q[p].pc = "reload" /\ lock = p /\ UNCHANGED <<rec, dir, vm>>
    BY <1>11, AtSteps, Frames
  <2>2. CASE end(p)
    BY <1>0, <1>5, <2>1, <2>2, EndStep DEF Leaves, ShapeInv
  <2>3. CASE ~end(p)
    <3>1. Only(p) /\ q'[p].m = rec /\ rec # NoRec /\ q'[p].pc \in {"apply", "addr", "stop"}
      BY <1>0, <1>11, <2>3, ReloadStep
    <3>2. Sized(p)'
      BY <1>7, <1>8, <2>1, <3>1
         DEF Sized, SizesAgree, DiskHoldsRecord, GrowNotForgotten, Exists
    <3> QED BY <1>1, <1>2, <2>1, <3>1, <3>2
  <2> QED BY <2>2, <2>3
<1>12. ASSUME NEW p \in Procs, InitImage(p)
       PROVE  DiskInv'
  <2>1. q[p].pc = "image" /\ lock = p /\ UNCHANGED <<rec, dir, vm>>
    BY <1>12, AtSteps, Frames
  <2>2. \/ Only(p) /\ q'[p].pc = "fetch"
        \/ dir.disk # <<>> /\ Only(p) /\ q'[p].pc = "size"
    BY <1>0, <1>12, NoteSteps DEF Keeps, Notes
  <2>3. CASE dir.disk # <<>> /\ Only(p) /\ q'[p].pc = "size"
    <3>1. q[p].cmd = "init" /\ q'[p].o = q[p].o
      BY <1>0, <1>12, <2>1, WalkSteps DEF PlaceInv, Placed, InitPCs, Walks, Same
    <3>2. q[p].o.disk <= dir.size
      BY <2>1, <2>3, <3>1 DEF DiskInv, Room
    <3>3. Sized(p)'
      BY <2>1, <2>3, <3>1, <3>2 DEF Sized
    <3> QED BY <1>1, <1>2, <2>1, <2>3, <3>3
  <2> QED BY <1>3, <2>1, <2>2, <2>3
<1>13. ASSUME NEW p \in Procs, InitReuse(p) \/ InitDownload(p) \/ InitVerify(p)
       PROVE  DiskInv'
  <2>1. /\ q[p].pc \in {"fetch", "verify"} /\ lock = p /\ UNCHANGED <<rec, vm>>
        /\ dir'.disk = dir.disk /\ dir'.size = dir.size
    BY <1>0, <1>13, AtSteps, Frames, DirSteps
  <2>2. SizesAgree'
    BY <1>8, <2>1 DEF SizesAgree, DiskHoldsRecord, GrowNotForgotten, Exists
  <2>3. CASE Leaves(p)
    BY <1>6, <2>1, <2>2, <2>3
  <2>4. CASE ~Leaves(p)
    <3>1. /\ Keeps(p) /\ q'[p].pc \in {"fetch", "verify", "install"}
          /\ q'[p].pc = "install" => ~InitDownload(p)
          /\ q'[p].pc = "verify" => InitDownload(p)
      BY <1>0, <1>13, <2>4, KeepSteps, WalkSteps DEF Walks
    <3>2. q'[p].src = q[p].src
      BY <3>1 DEF Keeps, Same
    <3>3. q'[p].pc = "verify" => Len(dir'.part[Slot(q[p].src)]) = 2
      BY <1>0, <1>13, <3>1, FetchSteps
    <3>4. InitVerify(p) => Len(dir.part[Slot(q[p].src)]) = 2
      BY <1>8, AtSteps DEF Sized
    <3>5. q'[p].pc = "install" => dir'.archive[Slot(q[p].src)] # <<>>
      BY <1>0, <1>13, <2>4, <3>1, <3>4, FetchSteps
    <3>6. Sized(p)'
      BY <3>1, <3>2, <3>3, <3>5 DEF Sized
    <3> QED BY <1>1, <2>1, <2>2, <3>1, <3>6 DEF Keeps
  <2> QED BY <2>3, <2>4
<1>14. ASSUME NEW p \in Procs, InitInstall(p)
       PROVE  DiskInv'
  <2>1. /\ q[p].pc = "install" /\ lock = p /\ UNCHANGED <<rec, vm>> /\ q[p].cmd = "init"
        /\ Only(p) /\ q'[p].pc = "clean"
        /\ q'[p].o = q[p].o /\ dir'.disk = dir.archive[Slot(q[p].src)] /\ dir'.size = Larger(ImageSize, q[p].o.disk)
    BY <1>0, <1>14, AtSteps, Frames, WalkSteps, DirSteps DEF Walks, Same, PlaceInv, Placed, InitPCs
  <2>2. rec = NoRec
    BY <1>0, <2>1 DEF CreateInv
  <2>3. q[p].o.disk <= dir'.size
    BY <1>7, <1>8, <2>1 DEF Larger
  <2>4. dir'.disk # <<>>
    BY <1>8, <2>1 DEF Sized
  <2>5. SizesAgree'
    BY <1>8, <2>1, <2>2 DEF SizesAgree, DiskHoldsRecord, GrowNotForgotten, Exists
  <2>6. Sized(p)'
    BY <2>1, <2>3, <2>4 DEF Sized
  <2> QED BY <1>1, <2>1, <2>5, <2>6
<1>15. ASSUME NEW p \in Procs, InitClean(p) \/ InitMarker(p)
       PROVE  DiskInv'
  <2>1. /\ q[p].pc \in {"clean", "marker"} /\ lock = p /\ UNCHANGED <<rec, vm>> /\ Only(p)
        /\ q'[p].pc \in {"marker", "size"} /\ q'[p].o = q[p].o
        /\ dir'.disk = dir.disk /\ dir'.size = dir.size
    BY <1>0, <1>15, AtSteps, Frames, WalkSteps, DirSteps DEF Walks, Same
  <2>2. SizesAgree'
    BY <1>8, <2>1 DEF SizesAgree, DiskHoldsRecord, GrowNotForgotten, Exists
  <2>3. Sized(p)'
    BY <1>8, <2>1 DEF Sized
  <2> QED BY <1>1, <2>1, <2>2, <2>3
<1>16. ASSUME NEW p \in Procs, InitSave(p)
       PROVE  DiskInv'
  <2>1. /\ q[p].pc = "size" /\ lock = p /\ Leaves(p) /\ UNCHANGED <<dir, vm>>
        /\ q[p].cmd = "init" /\ rec' = [q[p].m EXCEPT !.disk = Larger(@, dir.size)]
    BY <1>0, <1>16, AtSteps, Frames, WalkSteps DEF InitSave, PlaceInv, Placed, InitPCs
  <2>2. /\ rec = NoRec /\ q[p].m.disk <= dir.size /\ dir.disk # <<>> /\ vm.pool = 0
    BY <1>0, <1>8, <2>1 DEF CreateInv, AskedInv, Sized, SizesAgree
  <2>3. rec'.disk = dir.size
    BY <1>7, <2>1, <2>2 DEF Records, Larger
  <2>4. rec' # NoRec
    <3>1. rec'.addr \in Addrs
      BY <1>0, <1>16, <2>1, InitSaveStep DEF CreateInv
    <3> QED BY <3>1, RecordAssumption DEF NoRec
  <2>5. SizesAgree'
    BY <1>7, <2>1, <2>2, <2>3, <2>4 DEF SizesAgree, DiskHoldsRecord, GrowNotForgotten, Exists
  <2> QED BY <1>6, <2>1, <2>5
<1>17. ASSUME NEW p \in Procs, SetApply(p)
       PROVE  DiskInv'
  <2>1. q[p].pc = "apply" /\ lock = p /\ UNCHANGED <<rec, dir, vm>>
    BY <1>17, AtSteps, Frames
  <2>2. CASE end(p)
    BY <1>0, <1>5, <2>1, <2>2, EndStep DEF Leaves, ShapeInv
  <2>3. CASE ~end(p)
    <3>1. /\ Only(p) /\ q'[p].o = q[p].o /\ q'[p].m.disk = q[p].m.disk
          /\ q'[p].m.pending = q[p].m.pending /\ q'[p].pc \in {"grow", "save"}
          /\ q'[p].pc = "grow" => grows(q[p].o, q[p].m)
      BY <1>0, <1>17, <2>3, SetApplyStep, ApplyCopy DEF Same
    <3>2. grows(q[p].o, q[p].m) => q[p].m.disk < q[p].o.disk
      BY <1>7, <2>1 DEF CapInv, validate, grows
    <3>3. Sized(p)'
      BY <1>9, <2>1, <3>1, <3>2 DEF Sized
    <3> QED BY <1>1, <1>2, <2>1, <3>1, <3>3
  <2> QED BY <2>2, <2>3
<1>18. ASSUME NEW p \in Procs, SetGrow(p)
       PROVE  DiskInv'
  <2>1. /\ q[p].pc = "grow" /\ lock = p /\ UNCHANGED <<rec, vm>>
        /\ dir'.disk = dir.disk /\ dir'.size = Larger(dir.size, q[p].o.disk)
        /\ Notes(p, "savegrow", grown(q[p].m, q[p].o))
    BY <1>0, <1>18, AtSteps, Frames, DirSteps, NoteSteps
  <2>2. /\ Only(p) /\ q'[p].pc = "savegrow" /\ q'[p].o = q[p].o
        /\ q'[p].m.disk = q[p].o.disk /\ q'[p].m.pending = TRUE
    BY <1>7, <2>1 DEF Notes, Same, grown, Records
  <2>3. q[p].m.disk < q[p].o.disk
    BY <1>8, <2>1 DEF Sized
  <2>4. dir.size <= dir'.size /\ q[p].o.disk <= dir'.size /\ dir'.size \in Int
    BY <1>7, <2>1 DEF Larger
  <2>5. SizesAgree'
    BY <1>7, <1>8, <2>1, <2>4
       DEF SizesAgree, DiskHoldsRecord, GrowNotForgotten, Exists
  <2>6. Sized(p)'
    BY <1>7, <1>9, <2>1, <2>2, <2>3, <2>4 DEF Sized
  <2> QED BY <1>1, <2>1, <2>2, <2>5, <2>6
\* A save of the copy: what it asks for is in the file, and in the pool unless
\* a grow is outstanding.
<1>19. ASSUME NEW p \in Procs, q[p].pc \in Working, rec' # NoRec, UNCHANGED <<dir, vm>>,
              rec'.disk = q[p].m.disk, rec'.pending = q[p].m.pending
       PROVE  SizesAgree'
  <2>1. /\ rec # NoRec /\ dir.disk # <<>>
        /\ rec.disk <= q[p].m.disk /\ q[p].m.disk <= dir.size
    BY <1>9, <1>19
  <2>2. (~q[p].m.pending /\ vm.pool # 0) => q[p].m.disk <= vm.pool
    BY <1>9, <1>19
  <2>4. (DiskHoldsRecord /\ GrowNotForgotten)'
    BY <1>7, <1>19, <2>1, <2>2 DEF DiskHoldsRecord, GrowNotForgotten, Exists
  <2> QED BY <1>19, <2>1, <2>4 DEF SizesAgree
<1>20. ASSUME NEW p \in Procs, SetSaveGrow(p) \/ SetSave(p) \/ StartGrown(p)
       PROVE  DiskInv'
  <2>1. /\ q[p].pc \in {"savegrow", "save", "saved"} /\ lock = p /\ UNCHANGED <<dir, vm>>
        /\ rec' = q[p].m /\ rec' # NoRec
    BY <1>0, <1>20, AtSteps, Frames, SaveSteps, SavedRecord
  <2>2. SizesAgree'
    BY <1>19, <2>1
  <2>3. CASE Leaves(p)
    BY <1>6, <2>1, <2>2, <2>3
  <2>4. CASE ~Leaves(p)
    <3>1. /\ Keeps(p) /\ q'[p].pc \in {"resize", "save", "arc"}
          /\ q'[p].pc = "resize" => q[p].pc = "savegrow"
      BY <1>0, <1>20, <2>4, KeepSteps, WalkSteps, AtSteps DEF Walks
    <3>2. q'[p].pc = "resize" => q[p].m.disk = q[p].o.disk
      BY <1>8, <3>1 DEF Sized
    <3>3. Sized(p)'
      BY <1>7, <1>9, <2>1, <3>1, <3>2 DEF Sized, Keeps, Same
    <3> QED BY <1>1, <2>1, <2>2, <3>1, <3>3 DEF Keeps
  <2> QED BY <2>3, <2>4
<1>21. ASSUME NEW p \in Procs, SetResize(p)
       PROVE  DiskInv'
  <2>1. /\ q[p].pc = "resize" /\ lock = p /\ UNCHANGED rec /\ Keeps(p) /\ q'[p].pc = "guest"
        /\ dir'.disk = dir.disk /\ dir'.size = q[p].o.disk
        /\ vm'.disk = q[p].o.disk /\ vm'.pool = vm.pool
    BY <1>0, <1>21, AtSteps, Frames, KeepSteps, WalkSteps, DirSteps, VmFields DEF Walks
  <2>2. q[p].m.disk = q[p].o.disk /\ rec.disk = q[p].o.disk
    BY <1>8, <2>1 DEF Sized
  <2>3. SizesAgree'
    BY <1>7, <1>8, <1>9, <2>1, <2>2
       DEF SizesAgree, DiskHoldsRecord, GrowNotForgotten, Exists
  <2>4. Sized(p)'
    BY <1>7, <1>9, <2>1, <2>2 DEF Sized, Keeps, Same
  <2> QED BY <1>1, <2>1, <2>3, <2>4 DEF Keeps
\* The guest takes the grow: its pool is the disk it sees.
<1>22. ASSUME NEW p \in Procs, q[p].pc \in Working, UNCHANGED <<rec, dir>>, growGuest(q[p].m).ok,
              vm' = [vm EXCEPT !.pool = growGuest(q[p].m).pool]
       PROVE  SizesAgree' /\ q[p].m.disk <= vm'.pool
  <2>1. vm'.disk = vm.disk /\ vm'.pool = growGuest(q[p].m).pool
    BY <1>0, <1>22, VmFields
  <2>2. vm'.pool = vm.disk /\ q[p].m.disk <= vm.disk
    BY <1>7, <1>22, <2>1 DEF growGuest
  <2>3. /\ rec # NoRec /\ dir.disk # <<>>
        /\ rec.disk <= q[p].m.disk
    BY <1>9, <1>22
  <2>4. (DiskHoldsRecord /\ GrowNotForgotten)'
    BY <1>7, <1>8, <1>22, <2>2, <2>3 DEF SizesAgree, DiskHoldsRecord, GrowNotForgotten, Exists
  <2> QED BY <1>7, <1>22, <2>2, <2>3, <2>4 DEF SizesAgree
<1>23. ASSUME NEW p \in Procs, SetGuest(p)
       PROVE  DiskInv'
  <2>1. /\ q[p].pc = "guest" /\ lock = p /\ UNCHANGED <<rec, dir>> /\ growGuest(q[p].m).ok
        /\ vm' = [vm EXCEPT !.pool = growGuest(q[p].m).pool]
        /\ Notes(p, "save", [q[p].m EXCEPT !.pending = FALSE])
    BY <1>0, <1>23, AtSteps, Frames, NoteSteps DEF SetGuest
  <2>2. Only(p) /\ q'[p].pc = "save" /\ q'[p].m.disk = q[p].m.disk
    BY <1>7, <2>1 DEF Notes, Records
  <2>3. SizesAgree' /\ q[p].m.disk <= vm'.pool
    BY <1>22, <2>1
  <2>4. Sized(p)'
    BY <1>9, <2>1, <2>2, <2>3 DEF Sized
  <2> QED BY <1>1, <2>1, <2>2, <2>3, <2>4
<1>24. ASSUME NEW p \in Procs, StartGrow(p)
       PROVE  DiskInv'
  <2>1. q[p].pc = "finish" /\ lock = p /\ UNCHANGED <<rec, dir>>
    BY <1>24, AtSteps, Frames
  <2>2. CASE Keeps(p) /\ q'[p].pc = "arc" /\ UNCHANGED vm
    <3>1. Sized(p)'
      BY <1>9, <2>1, <2>2 DEF Sized, Keeps
    <3> QED BY <1>1, <1>2, <2>1, <2>2, <3>1 DEF Keeps
  <2>3. CASE /\ growGuest(q[p].m).ok /\ vm' = [vm EXCEPT !.pool = growGuest(q[p].m).pool]
             /\ Notes(p, "saved", [q[p].m EXCEPT !.pending = FALSE])
    <3>1. Only(p) /\ q'[p].pc = "saved" /\ q'[p].m.disk = q[p].m.disk
      BY <1>7, <2>3 DEF Notes, Records
    <3>2. SizesAgree' /\ q[p].m.disk <= vm'.pool
      BY <1>22, <2>1, <2>3
    <3>3. Sized(p)'
      BY <1>9, <2>1, <3>1, <3>2 DEF Sized
    <3> QED BY <1>1, <2>1, <3>1, <3>2, <3>3
  <2> QED BY <1>0, <1>24, <2>2, <2>3, NoteSteps
<1>25. ASSUME NEW p \in Procs, StartSave(p)
       PROVE  DiskInv'
  <2>1. q[p].pc = "addr" /\ lock = p /\ UNCHANGED <<dir, vm>> /\ rec' # NoRec
    BY <1>0, <1>25, AtSteps, Frames, SavedRecord
  <2>2. CASE Keeps(p) /\ q'[p].pc = "boot" /\ UNCHANGED rec
    <3>1. Sized(p)'
      BY <1>9, <2>1, <2>2 DEF Sized, Keeps
    <3> QED BY <1>1, <1>2, <2>1, <2>2, <3>1 DEF Keeps
  <2>3. CASE /\ Notes(p, "boot", [q[p].m EXCEPT !.addr = given(q[p].o.addr, @)])
             /\ rec' = q'[p].m
    <3>1. /\ Only(p) /\ q'[p].pc = "boot" /\ q'[p].m.disk = q[p].m.disk
          /\ q'[p].m.pending = q[p].m.pending
      BY <1>7, <2>3 DEF Notes, Records
    <3>2. SizesAgree'
      BY <1>19, <2>1, <2>3, <3>1
    <3>3. Sized(p)'
      BY <1>7, <1>9, <2>1, <2>3, <3>1 DEF Sized
    <3> QED BY <1>1, <2>1, <3>1, <3>2, <3>3
  <2> QED BY <1>0, <1>25, <2>2, <2>3, NoteSteps
\* The pool is kept, or first filled from the file.
<1>26. ASSUME NEW p \in Procs, StartBoot(p)
       PROVE  DiskInv'
  <2>1. q[p].pc = "boot" /\ lock = p /\ UNCHANGED <<rec, dir>>
    BY <1>26, AtSteps, Frames
  <2>2. vm'.pool = vm.pool \/ (vm.pool = 0 /\ vm'.pool = dir.size)
    BY <1>0, <1>26, VmFields
  <2>3. SizesAgree'
    BY <1>7, <1>8, <1>9, <2>1, <2>2
       DEF SizesAgree, DiskHoldsRecord, GrowNotForgotten, Exists
  <2>4. CASE Leaves(p)
    BY <1>6, <2>1, <2>3, <2>4
  <2>5. CASE ~Leaves(p)
    <3>1. Keeps(p) /\ q'[p].pc \in {"finish", "arc"}
      BY <1>0, <1>26, <2>5, KeepSteps, WalkSteps DEF Walks
    <3>2. Sized(p)'
      BY <1>7, <1>9, <2>1, <2>2, <3>1 DEF Sized, Keeps
    <3> QED BY <1>1, <2>1, <2>3, <3>1, <3>2 DEF Keeps
  <2> QED BY <2>4, <2>5
<1>27. ASSUME NEW p \in Procs, SetArc(p) \/ StartArc(p)
       PROVE  DiskInv'
  <2>1. /\ lock = p /\ UNCHANGED <<rec, dir>> /\ Leaves(p)
        /\ vm'.disk = vm.disk /\ vm'.pool = vm.pool
    BY <1>0, <1>27, AtSteps, Frames, VmFields, WalkSteps
  <2>2. SizesAgree'
    BY <1>8, <2>1 DEF SizesAgree, DiskHoldsRecord, GrowNotForgotten, Exists
  <2> QED BY <1>6, <2>1, <2>2
<1>28. ASSUME NEW p \in Procs, StopOrSuspend(p)
       PROVE  DiskInv'
  <2>1. lock = p /\ UNCHANGED <<rec, dir>> /\ vm'.disk \in {0, vm.disk} /\ vm'.pool = vm.pool
    BY <1>0, <1>28, AtSteps, Frames, VmFields
  <2>2. SizesAgree'
    BY <1>8, <2>1 DEF SizesAgree, DiskHoldsRecord, GrowNotForgotten, Exists
  <2>3. CASE Leaves(p)
    BY <1>6, <2>1, <2>2, <2>3
  <2>4. CASE ~Leaves(p)
    <3>1. Only(p) /\ q'[p].pc = "delete"
      BY <1>0, <1>28, <2>4, WalkSteps DEF Walks
    <3>2. Sized(p)'
      BY <3>1 DEF Sized
    <3> QED BY <1>1, <2>1, <2>2, <3>1, <3>2
  <2> QED BY <2>3, <2>4
<1>29. ASSUME NEW p \in Procs, RmDelete(p)
       PROVE  DiskInv'
  <2>1. lock = p /\ Leaves(p) /\ rec' = NoRec /\ dir' = noDir /\ vm' = noVM
    BY <1>0, <1>29, AtSteps, WalkSteps, SaveSteps
  <2>2. SizesAgree'
    BY <2>1 DEF SizesAgree, DiskHoldsRecord, GrowNotForgotten, Exists, noDir, noVM
  <2> QED BY <1>6, <2>1, <2>2
<1>30. ASSUME NEW p \in Procs, Cut(p) \/ GuestGone(p)
       PROVE  DiskInv'
  BY <1>0, <1>5, <1>30, WalkSteps, Frames
<1>31. ASSUME NEW p \in Procs, StartWarns(p)
       PROVE  DiskInv'
  <2>1. q[p].pc \in {"finish", "saved", "arc"} /\ lock = p /\ UNCHANGED <<rec, dir, vm>>
    BY <1>31, AtSteps, Frames
  <2>2. CASE Leaves(p)
    BY <1>5, <2>1, <2>2
  <2>3. CASE ~Leaves(p)
    <3>1. Keeps(p) /\ q'[p].pc = "arc"
      BY <1>0, <1>31, <2>3, KeepSteps, WalkSteps DEF Walks
    <3>2. Sized(p)'
      BY <1>9, <2>1, <3>1 DEF Sized, Keeps
    <3> QED BY <1>1, <1>2, <2>1, <3>1, <3>2 DEF Keeps
  <2> QED BY <2>2, <2>3
<1>32. CASE HypervisorDies
  <2>1. UNCHANGED <<rec, dir, q>> /\ vm'.disk = 0 /\ vm'.pool = vm.pool
    BY <1>0, <1>32 DEF HypervisorDies, stopped, ShapeInv, Machines
  <2>2. SizesAgree'
    BY <1>8, <2>1 DEF SizesAgree, DiskHoldsRecord, GrowNotForgotten, Exists
  <2>3. ASSUME NEW p \in Procs
        PROVE  Sized(p)'
    BY <1>8, <2>1 DEF Sized
  <2> QED BY <1>0, <2>2, <2>3 DEF DiskInv
<1>33. ASSUME NEW p \in Procs, WakeDiscards(p)
       PROVE  DiskInv'
  <2>1. SizesAgree'
    BY <1>8, <1>0, <1>33, WakeDiscardsStep DEF SizesAgree, DiskHoldsRecord, GrowNotForgotten, Exists
  <2>2. q[p].pc \in Working
    BY <1>0, <1>33, WakeDiscardsStep
  <2>3. Sized(p)'
    BY <1>0, <1>9, <1>33, <2>2, WakeDiscardsStep DEF Sized
  <2> QED BY <1>0, <1>1, <1>33, <2>1, <2>3, WakeDiscardsStep
<1> QED
  BY <1>10, <1>11, <1>12, <1>13, <1>14, <1>15, <1>16, <1>17, <1>18, <1>20, <1>21, <1>23, <1>24,
     <1>25, <1>26, <1>27, <1>28, <1>29, <1>30, <1>31, <1>32, <1>33, NextSplit

\* The invariants hold at the start.
LEMMA InitInv ==
    ASSUME Init
    PROVE  ShapeInv /\ CapInv /\ PlaceInv /\ CreateInv /\ CopyInv /\ HardwareIsRecord
<1>1. q \in [Procs -> Commands] /\ lock \in Procs \cup {Nobody} /\ \A p \in Procs : q[p] = idle
  BY NothingShape DEF Init
<1>2. Fits(NoRec) /\ idle.m = NoRec /\ idle.pc = "end" /\ idle.cmd = "none"
  BY DEF Fits, validateArc, NoRec, idle
<1>3. rec \in Records /\ dir \in Directories /\ vm \in Machines /\ Fits(rec)
  <2>1. CASE rec = NoRec /\ dir = noDir /\ vm = noVM
    BY <1>2, <2>1, NothingShape
  <2>2. CASE ~(rec = NoRec /\ dir = noDir /\ vm = noVM)
    <3> DEFINE s == CHOOSE s \in Summed : TRUE
    <3>1. PICK mem \in Mems, d \in InitDisks :
            /\ rec = created(mem, Larger(d, ImageSize), DefaultAddr, TRUE)
            /\ dir = [noDir EXCEPT !.disk = <<s, s>>, !.size = Larger(d, ImageSize)]
            /\ vm \in {noVM, [st |-> "running", mem |-> mem, disk |-> Larger(d, ImageSize),
                              arc |-> DefaultArcFor(mem), loader |-> DefaultArcFor(mem),
                              pool |-> Larger(d, ImageSize), meta |-> 0]}
      BY <2>2 DEF Init
    <3> DEFINE n == Larger(d, ImageSize)
               a == DefaultArcFor(mem)
    <3>2. n \in Disks /\ n \in Int
      BY RecordAssumption DEF Larger
    <3>3. s \in Summed /\ <<s, s>> \in Contents
      BY RecordAssumption DEF Contents, Sources
    <3>4. mem \in Nat /\ a \in Nat
      BY RecordAssumption DEF DefaultArcFor
    <3>5. rec \in Records /\ Fits(rec)
      BY <3>1, <3>2, CreatedShape, RecordAssumption
    <3> HIDE DEF s, n, a
    <3>6. dir \in Directories
      BY <3>1, <3>2, <3>3, NothingShape DEF Directories, n
    <3>7. vm \in Machines
      BY <3>1, <3>2, <3>4, NothingShape DEF Machines, States, n, a
    <3> QED BY <3>5, <3>6, <3>7
  <2> QED BY <2>1, <2>2
<1>4. ShapeInv /\ CapInv
  BY <1>1, <1>2, <1>3 DEF ShapeInv, CapInv
<1>5. PlaceInv /\ CopyInv
  BY <1>1, <1>2 DEF PlaceInv, Placed, CopyInv, Working, InitPCs, SetPCs, StartPCs
<1>6. CreateInv /\ HardwareIsRecord
  <2>1. CASE rec = NoRec /\ vm = noVM
    BY <1>1, <1>2, <2>1 DEF CreateInv, HardwareIsRecord, noVM
  <2>2. CASE ~(rec = NoRec /\ vm = noVM)
    <3>1. PICK mem \in Mems, d \in InitDisks :
            /\ rec = created(mem, Larger(d, ImageSize), DefaultAddr, TRUE)
            /\ vm \in {noVM, [st |-> "running", mem |-> mem, disk |-> Larger(d, ImageSize),
                              arc |-> DefaultArcFor(mem), loader |-> DefaultArcFor(mem),
                              pool |-> Larger(d, ImageSize), meta |-> 0]}
      BY <2>2 DEF Init
    <3>2. /\ rec.addr \in Addrs /\ rec.mem = mem /\ rec # NoRec /\ noVM.st = "stopped"
          /\ vm = noVM \/ vm.mem = mem
      BY <3>1, RecordAssumption DEF created, NoRec, noVM
    <3> QED BY <1>1, <1>2, <3>1, <3>2 DEF CreateInv, HardwareIsRecord, Exists
  <2> QED BY <2>1, <2>2
<1> QED BY <1>4, <1>5, <1>6

\* The other invariants hold at the start.
LEMMA InitMore ==
    ASSUME Init
    PROVE  AskedInv /\ TrustInv /\ ArcInv /\ DiskInv
<1>1. \A p \in Procs : q[p] = idle
  BY DEF Init
<1>2. idle.pc = "end" /\ idle.cmd = "none"
  BY DEF idle
<1>3. /\ AskedInv
      /\ \A p \in Procs : Fetched(p) /\ Caps(p) /\ Sized(p)
      /\ \A p \in Procs : q[p].pc = "end"
      /\ Room
  BY <1>1, <1>2
     DEF AskedInv, Fetched, Caps, Sized, Working, SetPCs, StartPCs, Applying, Capping, Marking, Room
<1>4. CASE rec = NoRec /\ dir = noDir /\ vm = noVM
  <2>1. ~rec.trusted /\ dir.disk = <<>> /\ dir.size = 0
    BY <1>4 DEF NoRec, noDir
  <2>2. vm.st = "stopped" /\ vm.pool = 0 /\ vm.disk = 0
    BY <1>4 DEF noVM
  <2>3. TrustInv
    BY <1>3, <2>1 DEF TrustInv, Marking
  <2>4. ArcInv
    BY <1>3, <2>2 DEF ArcInv, CapInForce
  <2>5. DiskInv
    BY <1>3, <1>4, <2>1, <2>2 DEF DiskInv, SizesAgree, DiskHoldsRecord, GrowNotForgotten, Exists
  <2> QED BY <1>3, <2>3, <2>4, <2>5
<1>5. CASE ~(rec = NoRec /\ dir = noDir /\ vm = noVM)
  <2> DEFINE s == CHOOSE s \in Summed : TRUE
  <2>1. PICK mem \in Mems, d \in InitDisks :
          /\ rec = created(mem, Larger(d, ImageSize), DefaultAddr, TRUE)
          /\ dir = [noDir EXCEPT !.disk = <<s, s>>, !.size = Larger(d, ImageSize)]
          /\ vm \in {noVM, [st |-> "running", mem |-> mem, disk |-> Larger(d, ImageSize),
                            arc |-> DefaultArcFor(mem), loader |-> DefaultArcFor(mem),
                            pool |-> Larger(d, ImageSize), meta |-> 0]}
    BY <1>5 DEF Init
  <2> DEFINE n == Larger(d, ImageSize)
             a == DefaultArcFor(mem)
  <2>2. /\ n \in Disks /\ n \in Int /\ 0 < n /\ ImageSize <= n /\ d <= n
        /\ ImageSize \in Int /\ d \in Int
    BY RecordAssumption DEF Larger
  <2>3. s \in Summed
    BY RecordAssumption
  <2>4. n = Larger(ImageSize, d)
    BY <2>2 DEF Larger
  <2> HIDE DEF s, n, a
  <2>5. dir.disk = <<s, s>> /\ dir.size = n
    BY <2>1 DEF noDir, n
  <2>6. rec.disk = n /\ rec.arc = a /\ rec # NoRec
    BY <2>1, RecordAssumption DEF created, n, a, NoRec
  <2>7. \/ vm.st = "stopped" /\ vm.pool = 0 /\ vm.disk = 0
        \/ vm.st = "running" /\ vm.arc = a /\ vm.pool = n /\ vm.disk = n
    BY <2>1 DEF noVM, n, a
  <2>8. Verified(dir.disk)
    BY <2>3, <2>5 DEF Verified
  <2>9. TrustInv
    BY <1>3, <2>8 DEF TrustInv, Marking
  <2>10. ArcInv
    BY <1>3, <2>6, <2>7 DEF ArcInv, CapInForce
  <2>11. dir.disk # <<>>
    BY <2>5
  <2>12. DiskInv
    BY <1>3, <2>2, <2>5, <2>6, <2>7, <2>11
       DEF DiskInv, SizesAgree, DiskHoldsRecord, GrowNotForgotten, Exists
  <2> QED BY <1>3, <2>9, <2>10, <2>12
<1> QED BY <1>4, <1>5

\* A stuttering step keeps every part of the invariants.
LEMMA StutterMore ==
    ASSUME UNCHANGED vars
    PROVE  /\ AskedInv => AskedInv'
           /\ TrustInv => TrustInv'
           /\ ArcInv => ArcInv'
           /\ DiskInv => DiskInv'
<1>0. rec' = rec /\ dir' = dir /\ vm' = vm /\ q' = q /\ lock' = lock /\ torn' = torn
  BY DEF vars
<1>1. AskedInv => AskedInv'
  BY <1>0 DEF AskedInv
<1>2. TrustInv => TrustInv'
  BY <1>0 DEF TrustInv, Fetched, Verified
<1>3. ArcInv => ArcInv'
  BY <1>0 DEF ArcInv, Caps, CapInForce
<1>4. DiskInv => DiskInv'
  BY <1>0 DEF DiskInv, SizesAgree, Sized, DiskHoldsRecord, GrowNotForgotten, Exists, Room
<1> QED BY <1>1, <1>2, <1>3, <1>4

\* The record never holds an ARC cap the guest would refuse, whichever sets,
\* starts and inits interleave and wherever they are cut: every copy of the
\* record fits, and a set is validated again against the copy it changes
\* (validateArc, reloadLocked, Store.Save).
THEOREM ArcAlwaysFits == Spec => []ArcFits
<1>1. Init => ShapeInv /\ CapInv
  BY InitInv
<1>2. ShapeInv /\ CapInv /\ [Next]_vars => (ShapeInv /\ CapInv)'
  <2>1. CASE Next
    BY <2>1, ShapeNext, CapNext
  <2>2. CASE UNCHANGED vars
    BY <2>2 DEF vars, ShapeInv, CapInv
  <2> QED BY <2>1, <2>2
<1>3. CapInv => ArcFits
  BY DEF CapInv, ArcFits, Fits
<1> QED BY <1>1, <1>2, <1>3, PTL DEF Spec

\* The inductive invariant: where two inits do not overlap, the copy a command
\* works on is the record but for what it was asked to set, and the memory of
\* the machine is the record's.
THEOREM RecordInvHolds ==
    ASSUME ~ConcurrentInit
    PROVE  Spec => []RecordInv
<1>1. Init => RecordInv
  BY InitInv DEF RecordInv
<1>2. RecordInv /\ [Next]_vars => RecordInv'
  <2>1. CASE RecordInv /\ Next
    BY <2>1, ShapeNext, PlaceNext, CreateNext, CopyNext, HardwareNext DEF RecordInv
  <2>2. CASE RecordInv /\ UNCHANGED vars
    BY <2>2 DEF vars, RecordInv, ShapeInv, PlaceInv, Placed, CreateInv, CopyInv, Copied,
                HardwareIsRecord, Exists
  <2> QED BY <2>1, <2>2
<1> QED BY <1>1, <1>2, PTL DEF Spec

\* The memory of a running or suspended machine is the one in its record,
\* for any number of commands, sizes and faults (needsStopped, reloadLocked).
THEOREM HardwareAlwaysRecord ==
    ASSUME ~ConcurrentInit
    PROVE  Spec => []HardwareIsRecord
<1>1. RecordInv => HardwareIsRecord
  BY DEF RecordInv
<1> QED BY <1>1, RecordInvHolds, PTL

\* No update of the record is lost: a field changes only under a command that
\* holds the lock and was asked to set it to that value (reloadLocked,
\* Store.Save).
THEOREM NoUpdateLost ==
    ASSUME ~ConcurrentInit
    PROVE  Spec => OnlyAskedChanges
<1>1. RecordInv /\ [Next]_vars =>
        [(Exists /\ Exists') => \A f \in {"mem", "arc", "disk", "addr"} :
            rec'[f] # rec[f] => Asked(f)]_vars
  <2>1. CASE RecordInv /\ Next
    BY <2>1, AskedNext DEF RecordInv
  <2>2. CASE UNCHANGED vars
    BY <2>2
  <2> QED BY <2>1, <2>2
<1> QED BY <1>1, RecordInvHolds, PTL DEF Spec, OnlyAskedChanges

\* Where nothing is cut between the image and its marker, a record calls a disk
\* trusted only if both its halves came from one source with a checksum,
\* whichever inits, sources and faults interleave: two inits at once included
\* (fetchVerified, installImage, the untrusted marker).
THEOREM TrustedAlwaysVerified ==
    ASSUME ~MarkerGap
    PROVE  Spec => []TrustedIsVerified
<1> DEFINE I == ShapeInv /\ PlaceInv /\ AskedInv /\ TrustInv
<1>1. Init => I
  BY InitInv, InitMore
<1>2. I /\ [Next]_vars => I'
  <2>1. CASE I /\ Next
    BY <2>1, ShapeNext, PlaceNext, AskedStays, TrustNext
  <2>2. CASE I /\ UNCHANGED vars
    <3>1. ShapeInv' /\ PlaceInv'
      BY <2>2 DEF vars, ShapeInv, PlaceInv, Placed
    <3> QED BY <2>2, <3>1, StutterMore
  <2> QED BY <2>1, <2>2
<1>3. I => TrustedIsVerified
  BY DEF TrustInv, Verified, TrustedIsVerified
<1> QED BY <1>1, <1>2, <1>3, PTL DEF Spec

\* Where two inits do not overlap, a running guest whose starts, sets and wakes
\* all finished has the record's ARC cap (applyArcLive, syncGuestArc,
\* postResume).
THEOREM CapAlwaysAgrees ==
    ASSUME ~ConcurrentInit
    PROVE  Spec => []ArcAgrees
<1>1. Init => ArcInv
  BY InitMore
<1>2. RecordInv /\ ArcInv /\ [Next]_vars => ArcInv'
  <2>1. CASE RecordInv /\ ArcInv /\ Next
    BY <2>1, ArcNext
  <2>2. CASE ArcInv /\ UNCHANGED vars
    BY <2>2, StutterMore
  <2> QED BY <2>1, <2>2
<1>3. ArcInv => ArcAgrees
  BY RecordAssumption DEF ArcInv, CapInForce, ArcAgrees
<1> QED BY <1>1, <1>2, <1>3, RecordInvHolds, PTL DEF Spec

\* The inductive invariant of the disk: where two inits do not overlap and none
\* asks for more than the disk an interrupted one left.
THEOREM DiskInvHolds ==
    ASSUME ~ConcurrentInit, ~SmallReuse
    PROVE  Spec => [](CapInv /\ AskedInv /\ DiskInv)
<1> DEFINE I == CapInv /\ AskedInv /\ DiskInv
<1>1. Init => I
  BY InitInv, InitMore
<1>2. RecordInv /\ I /\ [Next]_vars => I'
  <2>1. CASE RecordInv /\ I /\ Next
    BY <2>1, CapNext, AskedStays, DiskNext DEF RecordInv
  <2>2. CASE I /\ UNCHANGED vars
    <3>1. CapInv'
      BY <2>2 DEF vars, CapInv
    <3> QED BY <2>2, <3>1, StutterMore
  <2> QED BY <2>1, <2>2
<1> QED BY <1>1, <1>2, RecordInvHolds, PTL DEF Spec

\* Wherever a grow, an init or an rm is cut, the disk file holds what the record
\* names, and a guest that has booted fills it unless the record says a grow is
\* outstanding: whatever sizes are asked for, in whichever order (image.Grow,
\* SetPendingGrow, finishPendingGrow).
THEOREM DisksAlwaysAgree ==
    ASSUME ~ConcurrentInit, ~SmallReuse
    PROVE  Spec => []DisksAgree
<1>1. DiskInv => DisksAgree
  BY DEF DiskInv, SizesAgree, DisksAgree
<1> QED BY <1>1, DiskInvHolds, PTL

=============================================================================
