---------------------------- MODULE MachineRecord ----------------------------
(***************************************************************************)
(* A machine's record, machine.json, and the disk, hypervisor and guest it *)
(* describes, under init, set, start, stop, suspend and rm.  Commands read *)
(* the record before they take the lock and again under it; they may be    *)
(* killed, or a save or a call into the guest may fail, at any step.       *)
(***************************************************************************)
EXTENDS Integers, Sequences, FiniteSets

CONSTANTS
    Procs, Nobody,  \* commands that may run at once; the free lock
    Mems, Arcs, MinArc, DefaultArc, \* memory sizes, ARC caps to ask for, the bounds on a cap
    Disks, InitDisks, ImageSize,    \* sizes jm set and jm init ask for; what an image holds
    Addrs, DefaultAddr, \* publish addresses: what may change in every state
    Summed, Plain,  \* image sources with and without a published checksum
    Byo,            \* the sources that are the user's own URLs
    ConcurrentInit, \* whether two jm init may run at once
    MarkerGap,      \* whether init may be killed between the disk and its untrusted marker
    SmallReuse,     \* whether init may ask for more than the disk an interrupted one left
    FlagSets,       \* the flags one jm set may give together
    MaxCalls, MaxFaults \* bounds

Unset == -1

ASSUME RecordAssumption ==
    /\ Nobody \notin Procs
    /\ Mems \subseteq Nat /\ Arcs \subseteq Nat /\ MinArc \in Nat \ {0} /\ DefaultArc \in Nat
    /\ Disks \subseteq Nat \ {0} /\ InitDisks \subseteq Disks /\ ImageSize \in Disks
    /\ Unset \notin Addrs /\ DefaultAddr \in Addrs
    /\ Summed # {}
    /\ Summed \cap Plain = {} /\ Plain \subseteq Byo
    /\ ConcurrentInit \in BOOLEAN /\ MarkerGap \in BOOLEAN /\ SmallReuse \in BOOLEAN
    /\ MaxCalls \in Nat /\ MaxFaults \in Nat
    /\ FlagSets \subseteq (SUBSET {"mem", "arc", "disk", "addr"}) \ {{}}

VARIABLES
    rec,    \* machine.json
    dir,    \* disk.raw, its untrusted marker, and what a fetch left
    vm,     \* the hypervisor, the guest on it, and the meta of its suspend
    q,      \* the commands
    lock,
    calls, faults,
    torn    \* something failed or was killed since a start last finished its stages

vars == <<rec, dir, vm, q, lock, calls, faults, torn>>

Larger(a, b) == IF a >= b THEN a ELSE b

NoRec == [mem |-> 0, arc |-> 0, disk |-> 0, addr |-> Unset, pending |-> FALSE, trusted |-> FALSE]
Exists == rec # NoRec

Sources == Summed \cup Plain
Slots == {"sum", "byo"}
Slot(s) == IF s \in Byo THEN "byo" ELSE "sum"

\* A file's content is the two halves it was downloaded in, each by its source.
Halves == {<<>>} \cup {<<s>> : s \in Sources} \cup (Sources \X Sources)

noDir == [disk |-> <<>>, size |-> 0, marker |-> FALSE,
          part |-> [s \in Slots |-> <<>>], archive |-> [s \in Slots |-> <<>>]]
noVM == [st |-> "stopped", mem |-> 0, disk |-> 0, arc |-> 0, loader |-> 0, pool |-> 0, meta |-> 0]
noOpts == [mem |-> Unset, arc |-> Unset, disk |-> Unset, addr |-> Unset]
idle == [cmd |-> "none", pc |-> "end", o |-> noOpts, src |-> "none", m |-> NoRec, st |-> "stopped",
         arcChanged |-> FALSE]

\* The type invariant.
TypeOK ==
    /\ DOMAIN rec = DOMAIN NoRec /\ rec.pending \in BOOLEAN /\ rec.trusted \in BOOLEAN
    /\ Exists => rec.mem \in Mems /\ rec.disk \in Disks /\ rec.addr \in Addrs
    /\ dir.disk \in Halves /\ dir.size \in Disks \cup {0} /\ dir.marker \in BOOLEAN
    /\ \A s \in Slots : dir.part[s] \in Halves /\ dir.archive[s] \in Halves
    /\ vm.st \in {"stopped", "running", "suspended"}
    /\ vm.mem \in Mems \cup {0} /\ vm.disk \in Disks \cup {0} /\ vm.pool \in Disks \cup {0}
    /\ \A p \in Procs :
        /\ q[p].cmd \in {"none", "init", "set", "start", "stop", "suspend", "rm"}
        /\ q[p].st \in {"stopped", "running", "suspended"}
    /\ lock \in Procs \cup {Nobody}
    /\ calls \in 0 .. MaxCalls /\ faults \in 0 .. MaxFaults /\ torn \in BOOLEAN

\* validateArc: no cap, or one the guest accepts below its memory.
validateArc(arc, mem) == arc = 0 \/ (MinArc <= arc /\ arc < mem)

\* DefaultArcFor: at most half the memory, and no cap below the least one.
DefaultArcFor(mem) ==
    LET arc == IF DefaultArc <= mem \div 2 THEN DefaultArc ELSE mem \div 2
    IN  IF arc < MinArc THEN 0 ELSE arc

created(mem, d, a, trusted) ==
    [mem |-> mem, arc |-> DefaultArcFor(mem), disk |-> d, addr |-> a,
     pending |-> FALSE, trusted |-> trusted]

\* Nothing yet, or a machine that an undisturbed init of a checksummed image
\* has created and perhaps a start has booted.
Init ==
    /\ \/ rec = NoRec /\ dir = noDir /\ vm = noVM
       \/ \E mem \in Mems, d \in InitDisks :
            LET s == CHOOSE s \in Summed : TRUE
                size == Larger(d, ImageSize)
                arc == DefaultArcFor(mem) IN
            /\ rec = created(mem, size, DefaultAddr, TRUE)
            /\ dir = [noDir EXCEPT !.disk = <<s, s>>, !.size = size]
            /\ vm \in {noVM, [st |-> "running", mem |-> mem, disk |-> size, arc |-> arc,
                              loader |-> arc, pool |-> size, meta |-> 0]}
    /\ q = [p \in Procs |-> idle] /\ lock = Nobody
    /\ calls = 0 /\ faults = 0 /\ torn = FALSE

--------------------------------------------------------------------------
(* Calling a command, and the lock. *)

given(new, old) == IF new = Unset THEN old ELSE new

\* Mutant: a smaller memory is not held against the cap of the record.
validateArcFlag(o, m) ==
    /\ o.arc # Unset => validateArc(o.arc, given(o.mem, m.mem))
    /\ o.disk # Unset => o.disk >= m.disk

\* setOpts.validate: something to set, a cap that fits the memory the machine
\* will have, a disk that only grows.
validate(o, m) ==
    /\ validateArc(given(o.arc, m.arc), given(o.mem, m.mem)) \/ (o.arc = Unset /\ o.mem = Unset)
    /\ o.disk # Unset => o.disk >= m.disk

SetOpts ==
    {o \in [mem: Mems \cup {Unset}, arc: Arcs \cup {Unset}, disk: Disks \cup {Unset},
            addr: Addrs \cup {Unset}] :
        {f \in DOMAIN o : o[f] # Unset} \in FlagSets}

begin(p, c) ==
    /\ q[p].cmd = "none" /\ calls < MaxCalls
    /\ q' = [q EXCEPT ![p] = [c EXCEPT !.pc = "lock"]]
    /\ calls' = calls + 1
    /\ UNCHANGED <<rec, dir, vm, lock, faults, torn>>

\* jm init refuses a name that has a record, before it takes the lock.
CallInit(p) ==
    /\ ~Exists
    /\ ConcurrentInit \/ \A r \in Procs : q[r].cmd # "init"
    /\ \E s \in Sources, mem \in Mems, d \in InitDisks :
        /\ SmallReuse \/ dir.disk = <<>> \/ d <= dir.size
        /\ begin(p, [idle EXCEPT !.cmd = "init", !.src = s, !.o.disk = d,
                                 !.m = created(mem, d, DefaultAddr, TRUE)])

CallSet(p) ==
    /\ Exists
    /\ \E o \in SetOpts :
        validate(o, rec) /\ begin(p, [idle EXCEPT !.cmd = "set", !.o = o, !.m = rec])

\* A start may carry a publish address from its environment.
CallStart(p) ==
    /\ Exists
    /\ \E a \in Addrs \cup {Unset} :
        begin(p, [idle EXCEPT !.cmd = "start", !.o.addr = a, !.m = rec])

CallStop(p) == Exists /\ begin(p, [idle EXCEPT !.cmd = "stop", !.m = rec])

CallSuspend(p) == Exists /\ begin(p, [idle EXCEPT !.cmd = "suspend", !.m = rec])

\* rm converges a directory without a record too.
CallRm(p) == (Exists \/ dir # noDir) /\ begin(p, [idle EXCEPT !.cmd = "rm", !.m = rec])

at(p, pc) == q[p].pc = pc /\ lock = p

goto(p, pc) == q' = [q EXCEPT ![p].pc = pc]

\* The command returns and its deferred unlock runs.
end(p) == q' = [q EXCEPT ![p] = idle] /\ lock' = Nobody

Lock(p) ==
    /\ q[p].pc = "lock" /\ lock = Nobody
    /\ lock' = p
    /\ goto(p, CASE q[p].cmd = "init" -> "image" [] q[p].cmd = "rm" -> "stop" [] OTHER -> "reload")
    /\ UNCHANGED <<rec, dir, vm, calls, faults, torn>>

\* Another command holds the lock: all but a start that waits for it give up.
LockBusy(p) ==
    /\ q[p].pc = "lock" /\ lock # Nobody
    /\ q' = [q EXCEPT ![p] = idle]
    /\ UNCHANGED <<rec, dir, vm, lock, calls, faults, torn>>

\* Mutant: the record read before the lock is used under it.
reloadLockedKept(p) == q[p].m

\* reloadLocked: the record as it is under the lock.
reloadLocked(p) == rec

firstPC(cmd) == CASE cmd = "set" -> "apply" [] cmd = "start" -> "addr" [] OTHER -> "stop"

\* A set validates its options again; a record that has gone ends the command.
Reload(p) ==
    /\ at(p, "reload")
    /\ LET m == reloadLocked(p) IN
       IF m = NoRec \/ (q[p].cmd = "set" /\ ~validate(q[p].o, m))
       THEN end(p)
       ELSE /\ q' = [q EXCEPT ![p].m = m, ![p].st = vm.st, ![p].pc = firstPC(q[p].cmd)]
            /\ UNCHANGED lock
    /\ UNCHANGED <<rec, dir, vm, calls, faults, torn>>

fault == faults < MaxFaults /\ faults' = faults + 1

--------------------------------------------------------------------------
(* jm init. *)

put(slot, f, content) == dir' = [dir EXCEPT ![f][slot] = content]

\* An existing disk.raw is done, with the verdict kept beside it.
InitImage(p) ==
    /\ at(p, "image")
    /\ q' = IF dir.disk # <<>>
            THEN [q EXCEPT ![p].pc = "size", ![p].m.trusted = ~dir.marker]
            ELSE [q EXCEPT ![p].pc = "fetch"]
    /\ UNCHANGED <<rec, dir, vm, lock, calls, faults, torn>>

\* verify: the file is the source's image.
verify(p, content) == content = <<q[p].src, q[p].src>>

\* A checksummed archive left behind is verified again and used, or removed.
InitReuse(p) ==
    /\ at(p, "fetch")
    /\ LET s == Slot(q[p].src) IN
       /\ q[p].src \in Summed /\ dir.archive[s] # <<>>
       /\ IF verify(p, dir.archive[s])
          THEN goto(p, "install") /\ UNCHANGED <<dir, lock>>
          ELSE end(p) /\ put(s, "archive", <<>>)
    /\ UNCHANGED <<rec, vm, calls, faults, torn>>

\* download: resume what is there, or start over when the server does not.
InitDownload(p) ==
    /\ at(p, "fetch")
    /\ LET s == Slot(q[p].src) IN
       /\ q[p].src \in Summed => dir.archive[s] = <<>>
       /\ IF Len(dir.part[s]) = 2 THEN goto(p, "verify") /\ UNCHANGED dir
          ELSE /\ \/ put(s, "part", Append(dir.part[s], q[p].src))
                  \/ dir.part[s] # <<>> /\ put(s, "part", <<q[p].src>>)
               /\ UNCHANGED q
    /\ UNCHANGED <<rec, vm, lock, calls, faults, torn>>

\* A checksum that does not match removes the file; a plain source has none.
InitVerify(p) ==
    /\ at(p, "verify")
    /\ LET s == Slot(q[p].src)
           part == dir.part[s] IN
       IF q[p].src \in Plain \/ verify(p, part)
       THEN /\ dir' = [dir EXCEPT !.part[s] = <<>>, !.archive[s] = part]
            /\ goto(p, "install") /\ UNCHANGED lock
       ELSE put(s, "part", <<>>) /\ end(p)
    /\ UNCHANGED <<rec, vm, calls, faults, torn>>

\* installRaw: decompress, grow, rename into place.
InitInstall(p) ==
    /\ at(p, "install")
    /\ dir' = [dir EXCEPT !.disk = dir.archive[Slot(q[p].src)],
                          !.size = Larger(ImageSize, q[p].o.disk)]
    /\ goto(p, "clean")
    /\ UNCHANGED <<rec, vm, lock, calls, faults, torn>>

\* Fetch removes the archive it installed from.
InitClean(p) ==
    /\ at(p, "clean")
    /\ put(Slot(q[p].src), "archive", <<>>)
    /\ goto(p, "marker")
    /\ UNCHANGED <<rec, vm, lock, calls, faults, torn>>

\* Mutant: the verdict is not kept beside the disk.
markerForgotten(p) == dir.marker

\* The verdict on an image without a checksum, kept beside the disk.
marker(p) == dir.marker \/ q[p].src \in Plain

InitMarker(p) ==
    /\ at(p, "marker")
    /\ dir' = [dir EXCEPT !.marker = marker(p)]
    /\ q' = [q EXCEPT ![p].pc = "size", ![p].m.trusted = q[p].src \in Summed]
    /\ UNCHANGED <<rec, vm, lock, calls, faults, torn>>

\* The record takes the size of disk.raw when that is the larger one.
InitSave(p) ==
    /\ at(p, "size")
    /\ rec' = [q[p].m EXCEPT !.disk = Larger(@, dir.size)]
    /\ end(p)
    /\ UNCHANGED <<dir, vm, calls, faults, torn>>

--------------------------------------------------------------------------
(* jm set. *)

needsStopped(o) == o.mem # Unset

\* The fields whose flags were given.
apply(o, m) == [m EXCEPT !.mem = given(o.mem, @), !.arc = given(o.arc, @), !.addr = given(o.addr, @)]

grows(o, m) == o.disk # Unset /\ o.disk # m.disk

\* Mutant: the state of the machine is not asked.
refusesNothing(o, m, st) == FALSE

\* What runSet refuses on a machine that is not stopped.
refuses(o, m, st) ==
    \/ needsStopped(o) /\ st # "stopped"
    \/ grows(o, m) /\ st = "suspended"

SetApply(p) ==
    /\ at(p, "apply")
    /\ LET o == q[p].o
           m == q[p].m IN
       IF refuses(o, m, q[p].st) THEN end(p)
       ELSE /\ q' = [q EXCEPT ![p].m = apply(o, m), ![p].arcChanged = given(o.arc, m.arc) # m.arc,
                              ![p].pc = IF grows(o, m) THEN "grow" ELSE "save"]
            /\ UNCHANGED lock
    /\ UNCHANGED <<rec, dir, vm, calls, faults, torn>>

\* Mutant: the grow is not recorded as outstanding before the guest is told.
grownDone(m, o) == [m EXCEPT !.disk = o.disk]

\* The record of a grow whose guest side is still to come.
grown(m, o) == [m EXCEPT !.disk = o.disk, !.pending = TRUE]

\* image.Grow extends the file and never shrinks it.
SetGrow(p) ==
    /\ at(p, "grow")
    /\ dir' = [dir EXCEPT !.size = Larger(@, q[p].o.disk)]
    /\ q' = [q EXCEPT ![p].pc = "savegrow", ![p].m = grown(q[p].m, q[p].o)]
    /\ UNCHANGED <<rec, vm, lock, calls, faults, torn>>

\* Store.Save replaces the whole record.
SetSaveGrow(p) ==
    /\ at(p, "savegrow")
    /\ rec' = q[p].m
    /\ goto(p, IF q[p].st = "running" THEN "resize" ELSE "save")
    /\ UNCHANGED <<dir, vm, lock, calls, faults, torn>>

\* block_resize sets the size of the image, and of the disk the guest sees.
SetResize(p) ==
    /\ at(p, "resize") /\ vm.st = "running"
    /\ dir' = [dir EXCEPT !.size = q[p].o.disk]
    /\ vm' = [vm EXCEPT !.disk = q[p].o.disk]
    /\ goto(p, "guest")
    /\ UNCHANGED <<rec, lock, calls, faults, torn>>

\* GuestGrowCmd: refuse a disk that is not yet as large as the record says,
\* else let the pool take all of it.
growGuest(m) == [ok |-> vm.disk >= m.disk, pool |-> IF vm.disk >= m.disk THEN vm.disk ELSE vm.pool]

SetGuest(p) ==
    /\ at(p, "guest") /\ vm.st = "running" /\ growGuest(q[p].m).ok
    /\ vm' = [vm EXCEPT !.pool = growGuest(q[p].m).pool]
    /\ q' = [q EXCEPT ![p].pc = "save", ![p].m.pending = FALSE]
    /\ UNCHANGED <<rec, dir, lock, calls, faults, torn>>

SetSave(p) ==
    /\ at(p, "save")
    /\ rec' = q[p].m
    /\ IF q[p].arcChanged /\ q[p].st = "running" THEN goto(p, "arc") /\ UNCHANGED lock ELSE end(p)
    /\ UNCHANGED <<dir, vm, calls, faults, torn>>

\* applyArc: the runtime cap, and loader.conf for the boots to come.
capped(m) == [vm EXCEPT !.arc = m.arc, !.loader = m.arc]

SetArc(p) ==
    /\ at(p, "arc") /\ q[p].cmd = "set" /\ vm.st = "running"
    /\ vm' = capped(q[p].m)
    /\ end(p)
    /\ UNCHANGED <<rec, dir, calls, faults, torn>>

--------------------------------------------------------------------------
(* jm start, stop, suspend and rm. *)

\* A suspended machine is woken; otherwise the address of the environment,
\* the link size and the guest's address are saved on the way.
StartSave(p) ==
    /\ at(p, "addr")
    /\ IF q[p].st = "suspended" THEN goto(p, "boot") /\ UNCHANGED rec
       ELSE LET m == [q[p].m EXCEPT !.addr = given(q[p].o.addr, @)] IN
            rec' = m /\ q' = [q EXCEPT ![p].m = m, ![p].pc = "boot"]
    /\ UNCHANGED <<dir, vm, lock, calls, faults, torn>>

\* The hypervisor reads the record and the size of disk.raw.  The first boot
\* grows the pool into the disk, and loader.conf sets the cap.
booted(m) ==
    [vm EXCEPT !.st = "running", !.mem = m.mem, !.disk = dir.size, !.arc = vm.loader,
               !.pool = IF @ = 0 THEN dir.size ELSE @]

stopped == [vm EXCEPT !.st = "stopped", !.mem = 0, !.disk = 0]

\* Mutant: a wake leaves the cap the guest was saved with.
wakeCapsNever(m) == FALSE

\* postResume pushes the cap only when the record no longer has the one the
\* suspend noted.
wakeCaps(m) == vm.meta # m.arc

StartBoot(p) ==
    /\ at(p, "boot")
    /\ vm' = CASE q[p].st = "stopped" -> booted(q[p].m)
               [] q[p].st = "suspended" -> [vm EXCEPT !.st = "running"]
               [] OTHER -> vm
    /\ CASE q[p].st # "suspended" -> goto(p, "finish") /\ UNCHANGED lock
         [] q[p].st = "suspended" /\ wakeCaps(q[p].m) -> goto(p, "arc") /\ UNCHANGED lock
         [] OTHER -> end(p)
    /\ UNCHANGED <<rec, dir, calls, faults, torn>>

\* A saved state that cannot be restored is discarded, and the same start
\* goes on as one of a stopped machine.
WakeDiscards(p) ==
    /\ at(p, "boot") /\ q[p].st = "suspended" /\ fault
    /\ vm' = stopped
    /\ q' = [q EXCEPT ![p].st = "stopped", ![p].pc = "addr"]
    /\ UNCHANGED <<rec, dir, lock, calls, torn>>

\* finishPendingGrow: a grow the guest refuses stays outstanding.
StartGrow(p) ==
    /\ at(p, "finish") /\ vm.st = "running"
    /\ IF q[p].m.pending /\ growGuest(q[p].m).ok
       THEN /\ vm' = [vm EXCEPT !.pool = growGuest(q[p].m).pool]
            /\ q' = [q EXCEPT ![p].pc = "saved", ![p].m.pending = FALSE]
       ELSE goto(p, "arc") /\ UNCHANGED vm
    /\ UNCHANGED <<rec, dir, lock, calls, faults, torn>>

StartGrown(p) ==
    /\ at(p, "saved")
    /\ rec' = q[p].m /\ goto(p, "arc")
    /\ UNCHANGED <<dir, vm, lock, calls, faults, torn>>

\* syncGuestArc; the stages after it are HostResolver's and the sleeper's.
StartArc(p) ==
    /\ at(p, "arc") /\ q[p].cmd = "start" /\ vm.st = "running"
    /\ vm' = capped(q[p].m)
    /\ torn' = (torn /\ q[p].st = "suspended")
    /\ end(p)
    /\ UNCHANGED <<rec, dir, calls, faults>>

\* stopMachine, and a suspend that commits with the record's cap in its meta.
StopOrSuspend(p) ==
    /\ at(p, "stop")
    /\ vm' = IF q[p].cmd # "suspend" THEN stopped
             ELSE IF vm.st = "running" THEN [vm EXCEPT !.st = "suspended", !.meta = q[p].m.arc]
             ELSE vm
    /\ IF q[p].cmd = "rm" THEN goto(p, "delete") /\ UNCHANGED lock ELSE end(p)
    /\ UNCHANGED <<rec, dir, calls, faults, torn>>

\* Store.Delete removes the directory, the lock's file with it.
RmDelete(p) ==
    /\ at(p, "delete")
    /\ rec' = NoRec /\ dir' = noDir /\ vm' = noVM /\ torn' = FALSE
    /\ end(p)
    /\ UNCHANGED <<calls, faults>>

--------------------------------------------------------------------------
(* What goes wrong. *)

\* The command is killed, or a save, a download or a call into the guest
\* fails and it returns.  The record and the files stay as they are.
Cut(p) ==
    /\ q[p].cmd # "none" /\ lock = p
    /\ fault
    /\ MarkerGap \/ q[p].src \in Summed \/ q[p].pc \notin {"clean", "marker"}
    /\ end(p)
    /\ torn' = TRUE
    /\ UNCHANGED <<rec, dir, vm, calls>>

\* A guest call on a hypervisor that died fails; the command returns.
GuestGone(p) ==
    /\ q[p].pc \in {"resize", "guest", "finish", "arc"} /\ lock = p /\ vm.st # "running"
    /\ end(p)
    /\ torn' = TRUE
    /\ UNCHANGED <<rec, dir, vm, calls, faults>>

\* What a start takes as a warning: the guest does not take the grow, the
\* record of a finished grow is not saved, the guest does not take the cap.
StartWarns(p) ==
    /\ q[p].cmd = "start" /\ lock = p /\ q[p].pc \in {"finish", "saved", "arc"} /\ fault
    /\ torn' = TRUE
    /\ IF q[p].pc = "arc" THEN end(p) ELSE goto(p, "arc") /\ UNCHANGED lock
    /\ UNCHANGED <<rec, dir, vm, calls>>

HypervisorDies ==
    /\ vm.st = "running" /\ fault
    /\ vm' = stopped
    /\ UNCHANGED <<rec, dir, q, lock, calls, torn>>

Calls(p) == CallInit(p) \/ CallSet(p) \/ CallStart(p) \/ CallStop(p) \/ CallSuspend(p) \/ CallRm(p)
Inits(p) ==
    InitImage(p) \/ InitReuse(p) \/ InitDownload(p) \/ InitVerify(p) \/ InitInstall(p)
      \/ InitClean(p) \/ InitMarker(p) \/ InitSave(p)
Sets(p) ==
    SetApply(p) \/ SetGrow(p) \/ SetSaveGrow(p) \/ SetResize(p) \/ SetGuest(p) \/ SetSave(p)
      \/ SetArc(p)
Starts(p) == StartSave(p) \/ StartBoot(p) \/ WakeDiscards(p) \/ StartGrow(p) \/ StartGrown(p) \/ StartArc(p)

Next ==
    \/ \E p \in Procs :
        \/ Calls(p) \/ Lock(p) \/ LockBusy(p) \/ Reload(p)
        \/ Inits(p) \/ Sets(p) \/ Starts(p) \/ StopOrSuspend(p) \/ RmDelete(p)
        \/ Cut(p) \/ GuestGone(p) \/ StartWarns(p)
    \/ HypervisorDies

Spec == Init /\ [][Next]_vars

--------------------------------------------------------------------------
(* Properties. *)

\* The record never holds an ARC cap the guest would refuse: none, or one
\* between the least and the memory, whichever sets ran in between
\* (validateArc, reloadLocked).
ArcFits == Exists => validateArc(rec.arc, rec.mem)

\* A machine with a record has a disk at least as large as the record says
\* (runInit, image.Grow before the save of a grow, rm under the lock).
DiskHoldsRecord == Exists => dir.disk # <<>> /\ dir.size >= rec.disk

\* A grow is never forgotten: once the guest has booted, its pool fills the
\* disk the record names unless the record says the grow is outstanding
\* (SetPendingGrow, finishPendingGrow).
GrowNotForgotten == (Exists /\ ~rec.pending /\ vm.pool # 0) => vm.pool >= rec.disk

\* Wherever a grow, an init or an rm was cut, the disk file holds what the
\* record says and the pool fills it unless the record says otherwise: the two
\* parts above together.  Left out is an init that asks for more than the disk
\* an interrupted one installed (SmallReuse), which records more than there is;
\* that the file also holds the pool is PoolFitsDisk, which a second grow can
\* break.
DisksAgree == DiskHoldsRecord /\ GrowNotForgotten

\* The disk is never cut beneath the guest's pool: jm never shrinks a disk
\* (image.Grow, ResizeDisk).
PoolFitsDisk == vm.pool <= dir.size

\* The memory of a running or suspended machine is the one in its record
\* (needsStopped).
HardwareIsRecord == vm.st # "stopped" => Exists /\ vm.mem = rec.mem

\* A guest whose starts, sets and wakes all finished runs with the record's
\* ARC cap, through boots, suspends and sets in every state (applyArcLive,
\* syncGuestArc, postResume).
ArcAgrees == (vm.st = "running" /\ lock = Nobody /\ ~torn) => vm.arc = rec.arc

\* An image called trusted was verified against its source's checksum,
\* whatever interrupted runs of init left in the directory (fetchVerified,
\* the untrusted marker).
TrustedIsVerified ==
    (Exists /\ rec.trusted) => \E s \in Summed : dir.disk = <<s, s>>

Asked(f) ==
    \E p \in Procs : lock = p /\ q[p].cmd \in {"set", "start"} /\ q[p].o[f] = rec'[f]

\* No update is lost: a field of the record changes only under a command that
\* was asked to set it to that value (reloadLocked, Store.Save).
OnlyAskedChanges ==
    [][(Exists /\ Exists') => \A f \in {"mem", "arc", "disk", "addr"} :
        rec'[f] # rec[f] => Asked(f)]_vars

=============================================================================
