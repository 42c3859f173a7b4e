-------------------------- MODULE RecordInvariant --------------------------
(***************************************************************************)
(* The inductive invariants of MachineRecord.                              *)
(***************************************************************************)
EXTENDS MachineRecord

States == {"stopped", "running", "suspended"}
InitPCs == {"image", "fetch", "verify", "install", "clean", "marker", "size"}
SetPCs == {"apply", "grow", "savegrow", "resize", "guest", "save"}
StartPCs == {"addr", "boot", "finish", "saved"}

\* Where a command works on the record it has reloaded.
Working == SetPCs \cup StartPCs \cup {"arc"}

PCs == {"end", "lock", "reload", "stop", "delete"} \cup InitPCs \cup Working

Records ==
    [mem: Nat, arc: Nat, disk: Int, addr: Addrs \cup {Unset}, pending: BOOLEAN, trusted: BOOLEAN]
Options ==
    [mem: Mems \cup {Unset}, arc: Arcs \cup {Unset}, disk: Disks \cup {Unset},
     addr: Addrs \cup {Unset}]
Commands ==
    [cmd: {"none", "init", "set", "start", "stop", "suspend", "rm"},
     pc: PCs, o: Options, src: Sources \cup {"none"}, m: Records, st: States,
     arcChanged: BOOLEAN]
Contents == Seq(Sources \cup {"none"})
Directories ==
    [disk: Contents, size: Int, marker: BOOLEAN,
     part: [Slots -> Contents], archive: [Slots -> Contents]]
Machines ==
    [st: States, mem: Nat, disk: Int, arc: Nat, loader: Nat, pool: Int, meta: Nat]

\* The shape of the state, with the records that the commands carry.
ShapeInv ==
    /\ rec \in Records /\ dir \in Directories /\ vm \in Machines
    /\ q \in [Procs -> Commands] /\ lock \in Procs \cup {Nobody}

Fits(m) == validateArc(m.arc, m.mem)

\* Every copy of the record has a cap its memory allows, and a set about to
\* be applied has been held against the copy it will change.
CapInv ==
    /\ Fits(rec)
    /\ \A p \in Procs :
        /\ Fits(q[p].m)
        /\ q[p].pc = "apply" => validate(q[p].o, q[p].m)

\* Which command is where, and that it got there under the lock.
Placed(p) ==
    /\ q[p].pc \notin {"lock", "end"} => lock = p
    /\ q[p].pc = "end" => q[p].cmd = "none"
    /\ q[p].pc \in InitPCs => q[p].cmd = "init"
    /\ q[p].pc \in SetPCs => q[p].cmd = "set"
    /\ q[p].pc \in StartPCs => q[p].cmd = "start"
    /\ q[p].pc = "arc" => q[p].cmd \in {"set", "start"}
    /\ q[p].pc = "reload" => q[p].cmd \in {"none", "set", "start", "stop", "suspend"}

PlaceInv == \A p \in Procs : Placed(p)

\* A machine is created once: nobody has a record while an init is under way.
CreateInv ==
    /\ rec = NoRec \/ rec.addr \in Addrs
    /\ \A p \in Procs : q[p].cmd = "init" => rec = NoRec /\ q[p].m.addr \in Addrs
    /\ \A p, r \in Procs : (q[p].cmd = "init" /\ q[r].cmd = "init") => p = r

\* A field is the record's or the one asked for.
Taken(x, y, asked) == x = y \/ x = asked

\* What a command that works on its copy of the record knows: the copy is the
\* record but for what it was asked to set, and its memory is the record's
\* wherever the machine runs or the command will boot it.
Copied(p) ==
    /\ rec # NoRec /\ q[p].m.addr \in Addrs
    /\ Taken(q[p].m.mem, rec.mem, q[p].o.mem) /\ Taken(q[p].m.arc, rec.arc, q[p].o.arc)
    /\ Taken(q[p].m.disk, rec.disk, q[p].o.disk) /\ Taken(q[p].m.addr, rec.addr, q[p].o.addr)
    /\ (vm.st # "stopped" \/ q[p].cmd = "start") => q[p].m.mem = rec.mem
    /\ q[p].pc \in {"apply", "addr", "boot"} =>
         /\ q[p].st = "stopped" => vm.st = "stopped"
         /\ q[p].st = "suspended" => vm.st = "suspended"

CopyInv == \A p \in Procs : q[p].pc \in Working => Copied(p)

\* The record, its copies and the machine together.
RecordInv == ShapeInv /\ PlaceInv /\ CreateInv /\ CopyInv /\ HardwareIsRecord

\* What an init was asked for.
AskedInv ==
    \A p \in Procs : q[p].cmd = "init" =>
        q[p].src \in Sources /\ q[p].o.disk \in InitDisks /\ q[p].m.disk = q[p].o.disk

\* An image whose two halves came from one source with a checksum.
Verified(content) == \E s \in Summed : content = <<s, s>>

\* Where an init has installed a disk whose verdict it has yet to keep.
Marking == {"clean", "marker"}

\* What init knows of the files where it is: from the fetch to the install
\* there is no disk, what it installs from a checksummed source is that
\* source's image, and before it saves the record the verdict is the disk's.
Fetched(p) ==
    /\ q[p].pc \in {"fetch", "verify", "install"} => dir.disk = <<>>
    /\ (q[p].pc = "install" /\ q[p].src \in Summed) =>
         dir.archive[Slot(q[p].src)] = <<q[p].src, q[p].src>>
    /\ (q[p].pc \in Marking /\ q[p].src \in Summed) => dir.disk = <<q[p].src, q[p].src>>
    /\ (q[p].pc \in {"size"} \cup Working /\ q[p].m.trusted) => Verified(dir.disk)

\* Who may call a disk trusted: the record, the copies of it, and the absence
\* of a marker once no init is about to write one.
TrustInv ==
    /\ rec.trusted => Verified(dir.disk)
    /\ (\A p \in Procs : q[p].pc \notin Marking) =>
         dir.disk = <<>> \/ dir.marker \/ Verified(dir.disk)
    /\ \A p \in Procs : Fetched(p)

\* Where a set has its cap to save and to apply, and where a start or a set is
\* about to apply one.
Applying == {"grow", "savegrow", "resize", "guest", "save"}
Capping == {"finish", "saved", "arc"}

\* What a command under the lock knows of the cap in force.
Caps(p) ==
    /\ q[p].pc \in {"apply", "addr", "boot"} \cup Capping => q[p].m.arc = rec.arc
    /\ (q[p].pc = "stop" /\ q[p].cmd = "suspend") => q[p].m.arc = rec.arc
    /\ (q[p].pc \in Applying /\ vm.st = "running" /\ ~torn) =>
         q[p].st = "running" /\ (q[p].arcChanged \/ q[p].m.arc = vm.arc)

\* The cap in force is the record's but while a command is about to apply it,
\* and a suspended guest has the cap its meta notes.
CapInForce ==
    ~torn =>
      /\ vm.st = "suspended" => vm.arc = vm.meta
      /\ vm.st = "running" => \/ vm.arc = rec.arc
                              \/ \E p \in Procs : lock = p /\ q[p].pc \in Applying \cup Capping

ArcInv == CapInForce /\ \A p \in Procs : Caps(p)

\* The sizes of file, record and pool between two steps.
SizesAgree ==
    /\ DiskHoldsRecord /\ GrowNotForgotten
    /\ rec = NoRec => vm.pool = 0

\* An init that has yet to look at the disk asks for no more than it finds.
Room ==
    \A p \in Procs : (q[p].cmd = "init" /\ q[p].pc \in {"lock", "image"}) =>
        dir.disk = <<>> \/ q[p].o.disk <= dir.size

\* What a command knows of disk and pool: an init that it installs something
\* and that the disk is no smaller than it asks for, a set or a start that its
\* copy asks for no more than the file holds, no less than the record, and for
\* a pool that fills it unless a grow is outstanding.
Sized(p) ==
    /\ q[p].pc = "verify" => Len(dir.part[Slot(q[p].src)]) = 2
    /\ q[p].pc = "install" => dir.archive[Slot(q[p].src)] # <<>>
    /\ q[p].pc \in {"clean", "marker", "size"} => dir.disk # <<>> /\ q[p].o.disk <= dir.size
    /\ q[p].pc \in Working =>
         /\ rec.disk <= q[p].m.disk /\ q[p].m.disk <= dir.size
         /\ (~q[p].m.pending /\ vm.pool # 0) => q[p].m.disk <= vm.pool
    /\ q[p].pc = "grow" => q[p].m.disk < q[p].o.disk
    /\ q[p].pc \in {"savegrow", "resize", "guest"} => q[p].m.disk = q[p].o.disk
    /\ q[p].pc \in {"resize", "guest"} => rec.disk = q[p].o.disk

\* Record, file and pool, wherever a grow, an init or an rm is cut.
DiskInv == SizesAgree /\ Room /\ \A p \in Procs : Sized(p)

=============================================================================
