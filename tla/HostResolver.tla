---------------------------- MODULE HostResolver ----------------------------
(***************************************************************************)
(* The host resolver's process and the guest that forwards to it: launch,  *)
(* port, published address, the dns stage of start and wake, and the watch *)
(* that pushes the host's search list.  The lock serialises the commands;  *)
(* the resolver's own pushes into the guest take no lock.                  *)
(***************************************************************************)
EXTENDS Naturals, FiniteSets

CONSTANTS
    Ports,      \* loopback ports
    Lists,      \* search lists of the host
    MaxCommands, MaxFaults, \* bounds
    CheckFails  \* whether the ssh call that asks who owns resolv.conf may fail

NoPort == 0
NoList == "none"

ASSUME ResolverAssumption ==
    /\ Ports \subseteq Nat \ {NoPort} /\ IsFiniteSet(Ports) /\ Cardinality(Ports) >= 2
    /\ NoList \notin Lists /\ Lists # {}
    /\ MaxCommands \in Nat /\ MaxFaults \in Nat
    /\ CheckFails \in BOOLEAN

VARIABLES
    host,   \* the search list, and the ports other processes hold
    proc,   \* the resolver process and what its watch remembers
    files,  \* resolver.addr, resolver.port, resolver.pid, and the port of the suspend's journal
    guest,  \* machine state, unbound.conf, the running unbound, resolv.conf
    c,      \* the command that holds the lock
    faults

vars == <<host, proc, files, guest, c, faults>>

Maybe(S) == S \cup {NoPort}

\* The type invariant.
TypeOK ==
    /\ host \in [search: Lists, busy: SUBSET Ports]
    /\ proc \in [st: {"none", "launched", "bound", "named", "serving"}, port: Maybe(Ports),
                 search: Lists \cup {NoList}, pushed: Lists \cup {NoList},
                 job: {"idle", "conf", "probe"}]
    /\ files \in [addr: Maybe(Ports), port: Maybe(Ports), pid: BOOLEAN, meta: Maybe(Ports)]
    /\ guest \in [vm: {"stopped", "running", "suspended"}, works: BOOLEAN, conf: Maybe(Ports),
                  loaded: Maybe(Ports), owned: BOOLEAN, list: Lists \cup {NoList}]
    /\ c \in [cmd: {"none", "start", "stop", "suspend"}, kind: {"boot", "live", "wake"},
              pc: {"end", "resolver", "wait", "boot", "read", "conf", "probe", "verify", "owner",
                   "meta", "commit", "stop", "halt"},
              port: Maybe(Ports), list: Lists \cup {NoList}, full: BOOLEAN,
              out: {"none", "ok", "warn", "fail"}, ran: 0 .. MaxCommands,
              clean: BOOLEAN,   \* no fault since it began
              agree: BOOLEAN]   \* the list it wrote is the one the resolver takes the guest to have
    /\ faults \in 0 .. MaxFaults
    /\ guest.owned => guest.list \in Lists

noProc == [st |-> "none", port |-> NoPort, search |-> NoList, pushed |-> NoList, job |-> "idle"]

Init ==
    /\ host \in [search: Lists, busy: {{}}]
    /\ proc = noProc
    /\ files = [addr |-> NoPort, port |-> NoPort, pid |-> FALSE, meta |-> NoPort]
    /\ guest \in [vm: {"stopped"}, works: BOOLEAN, conf: {NoPort}, loaded: {NoPort},
                  owned: {FALSE}, list: {NoList}]
    /\ c = [cmd |-> "none", kind |-> "boot", pc |-> "end", port |-> NoPort, list |-> NoList,
            full |-> TRUE, out |-> "none", clean |-> TRUE, agree |-> FALSE, ran |-> 0]
    /\ faults = 0

\* A fault also marks the command under way as disturbed.
fault == faults < MaxFaults /\ faults' = faults + 1

disturbed == [c EXCEPT !.clean = FALSE]

Alive == files.pid /\ proc.st # "none"

\* A query reaches the host and comes back: unbound forwards to the port the
\* resolver serves.
Answers == guest.loaded # NoPort /\ proc.st = "serving" /\ proc.port = guest.loaded

--------------------------------------------------------------------------
(* The resolver process. *)

\* Listen: last run's port when it is free, else any free one.
Listen ==
    /\ proc.st = "launched"
    /\ \E p \in Ports \ host.busy :
        /\ files.port \in Ports \ host.busy => p = files.port
        /\ proc' = [proc EXCEPT !.st = "bound", !.port = p]
    /\ UNCHANGED <<host, files, guest, c, faults>>

\* No port is free on udp and tcp at once: the process exits.
ListenFails ==
    /\ proc.st = "launched" /\ Ports \subseteq host.busy
    /\ proc' = noProc
    /\ UNCHANGED <<host, files, guest, c, faults>>

\* PublishAddr: the port for the next run, then the address for the launcher.
PublishPort ==
    /\ proc.st = "bound"
    /\ files' = [files EXCEPT !.port = proc.port]
    /\ proc' = [proc EXCEPT !.st = "named"]
    /\ UNCHANGED <<host, guest, c, faults>>

\* With the address published the watch starts from the current list, which
\* it takes to be the one the guest has.
PublishAddr ==
    /\ proc.st = "named"
    /\ files' = [files EXCEPT !.addr = proc.port]
    /\ proc' = [proc EXCEPT !.st = "serving", !.search = host.search, !.pushed = host.search]
    /\ UNCHANGED <<host, guest, c, faults>>

\* Mutant: the watch remembers what it tried, not what the guest took.
pollOptimistic ==
    [proc EXCEPT !.search = host.search, !.pushed = host.search,
                 !.job = IF host.search = proc.pushed THEN "idle" ELSE "conf"]

\* watchHost: read the list again, and push it while the guest has not taken it.
poll == [proc EXCEPT !.search = host.search,
                     !.job = IF host.search = proc.pushed THEN "idle" ELSE "conf"]

Poll ==
    /\ proc.st = "serving" /\ proc.job = "idle" /\ poll # proc
    /\ proc' = poll
    /\ UNCHANGED <<host, files, guest, c, faults>>

\* Mutant: a changed configuration does not restart the forwarder.
writeConfKept(port, starts) ==
    [guest EXCEPT !.conf = port,
                  !.loaded = IF @ # NoPort THEN @ ELSE IF guest.works /\ starts THEN port ELSE NoPort]

\* The guest script's first half: write unbound.conf and restart unbound
\* when it changed or does not run.
writeConf(port, starts) ==
    [guest EXCEPT !.conf = port,
                  !.loaded = IF guest.conf = port /\ @ # NoPort THEN @
                             ELSE IF guest.works /\ starts THEN port ELSE NoPort]

\* The second half, reached when the forwarder answered.
takeOver(list) == [guest EXCEPT !.owned = TRUE, !.list = list]

\* A forwarder that works may still fail to start once.
Restarts(port) ==
    \/ guest' = writeConf(port, TRUE) /\ UNCHANGED faults
    \/ guest.works /\ fault /\ guest' = writeConf(port, FALSE)

PushConf ==
    /\ proc.job = "conf" /\ guest.vm = "running"
    /\ Restarts(proc.port)
    /\ c' = IF faults' = faults THEN c ELSE disturbed
    /\ proc' = [proc EXCEPT !.job = "probe"]
    /\ UNCHANGED <<host, files>>

PushProbe ==
    /\ proc.job = "probe" /\ guest.vm = "running" /\ Answers
    /\ guest' = takeOver(proc.search)
    /\ proc' = [proc EXCEPT !.job = "idle", !.pushed = proc.search]
    /\ UNCHANGED <<host, files, c, faults>>

\* The guest is gone, its forwarder does not answer, or the ssh call is lost
\* on the way: the next poll tries again.
PushFails ==
    /\ proc.job # "idle"
    /\ IF guest.vm # "running" \/ (proc.job = "probe" /\ ~Answers) THEN UNCHANGED faults ELSE fault
    /\ proc' = [proc EXCEPT !.job = "idle"]
    /\ UNCHANGED <<host, files, guest, c>>

--------------------------------------------------------------------------
(* The commands. *)

\* Process.Start after its Stop: the stale address goes before the launch.
launched == [files EXCEPT !.addr = NoPort, !.pid = TRUE]

Begin(cmd, kind, pc) ==
    /\ c.cmd = "none" /\ c.ran < MaxCommands
    /\ c' = [c EXCEPT !.cmd = cmd, !.kind = kind, !.pc = pc, !.port = NoPort, !.list = NoList,
                      !.full = TRUE, !.out = "none", !.clean = TRUE, !.agree = FALSE,
                      !.ran = @ + 1]
    /\ UNCHANGED <<host, proc, files, guest, faults>>

\* jm start boots a stopped machine, finishes a running one, wakes a suspended one.
BeginStart ==
    Begin("start", CASE guest.vm = "stopped" -> "boot" [] guest.vm = "running" -> "live"
                     [] OTHER -> "wake", "resolver")

BeginStop == guest.vm = "running" /\ Begin("stop", "live", "stop")

BeginSuspend == guest.vm = "running" /\ Begin("suspend", "live", "meta")

End(out) == [c EXCEPT !.cmd = "none", !.pc = "end", !.out = out]

\* startResolver: keep one that is alive and published, else stop what is
\* there and launch.
StartResolver ==
    /\ c.pc = "resolver"
    /\ IF Alive /\ files.addr # NoPort
       THEN UNCHANGED <<proc, files>>
       ELSE proc' = [noProc EXCEPT !.st = "launched"] /\ files' = launched
    /\ c' = [c EXCEPT !.pc = "wait"]
    /\ UNCHANGED <<host, guest, faults>>

Published ==
    /\ c.pc = "wait" /\ files.addr # NoPort
    /\ c' = [c EXCEPT !.pc = "boot", !.port = files.addr]
    /\ UNCHANGED <<host, proc, files, guest, faults>>

\* The process died, or did not publish in time and is killed.  A boot fails
\* on it; a wake goes on without the dns stage.
NotPublished ==
    /\ c.pc = "wait" /\ files.addr = NoPort
    /\ IF proc.st = "none" THEN UNCHANGED faults ELSE fault
    /\ proc' = noProc /\ files' = [files EXCEPT !.pid = FALSE]
    /\ c' = IF c.kind = "wake" THEN [c EXCEPT !.pc = "boot"]
            ELSE [End("fail") EXCEPT !.clean = @ /\ faults' = faults]
    /\ UNCHANGED <<host, guest>>

booted == [guest EXCEPT !.vm = "running",
                        !.loaded = IF guest.works THEN guest.conf ELSE NoPort]

\* The hypervisor boots or restores the guest.  Unbound comes up with the
\* configuration on disk; a restored guest goes on as it was.
Boot ==
    /\ c.pc = "boot"
    /\ guest' = CASE c.kind = "boot" -> booted
                  [] c.kind = "wake" -> [guest EXCEPT !.vm = "running"]
                  [] OTHER -> guest
    /\ c' = IF c.port = NoPort THEN [End("warn") EXCEPT !.clean = FALSE]
            ELSE [c EXCEPT !.pc = "read", !.full = c.kind # "wake" \/ files.meta # c.port]
    /\ UNCHANGED <<host, proc, files, faults>>

\* A boot or a restore that fails takes the resolver with it.
BootFails ==
    /\ c.pc = "boot" /\ c.kind # "live" /\ fault
    /\ proc' = noProc /\ files' = [files EXCEPT !.pid = FALSE]
    /\ c' = [End("fail") EXCEPT !.clean = FALSE]
    /\ UNCHANGED <<host, guest>>

\* The host's search list as it is when the dns stage begins.
ReadSearch ==
    /\ c.pc = "read"
    /\ c' = [c EXCEPT !.pc = "conf", !.list = host.search]
    /\ UNCHANGED <<host, proc, files, guest, faults>>

ApplyConf ==
    /\ c.pc = "conf" /\ Restarts(c.port)
    /\ c' = [c EXCEPT !.pc = "probe", !.clean = @ /\ faults' = faults]
    /\ UNCHANGED <<host, proc, files>>

\* The script waits for an answer and stops without one.  A search list that a
\* wake could not push is a warning; the dns stage of a start goes on to ask
\* who owns resolv.conf.
ApplyProbe ==
    /\ c.pc = "probe"
    /\ IF Answers
       THEN /\ guest' = takeOver(c.list)
            /\ c' = [IF c.full THEN [c EXCEPT !.pc = "verify"] ELSE End("ok")
                        EXCEPT !.agree = c.list = proc.pushed]
       ELSE /\ guest' = guest
            /\ c' = IF c.full THEN [c EXCEPT !.pc = "owner"] ELSE End("warn")
    /\ UNCHANGED <<host, proc, files, faults>>

Verify ==
    /\ c.pc = "verify"
    /\ c' = IF Answers THEN End("ok") ELSE [c EXCEPT !.pc = "owner"]
    /\ UNCHANGED <<host, proc, files, guest, faults>>

\* A guest whose resolv.conf is jm's has nothing to fall back on.
ownerOutcome(owned) == IF owned THEN "fail" ELSE "warn"

Owner ==
    /\ c.pc = "owner"
    /\ \/ c' = End(ownerOutcome(guest.owned)) /\ UNCHANGED faults
       \/ CheckFails /\ fault /\ c' = [End("warn") EXCEPT !.clean = FALSE]
    /\ UNCHANGED <<host, proc, files, guest>>

\* The resolver's address stays.  jm stop ends it before the guest.
StopResolver ==
    /\ c.pc = "stop"
    /\ proc' = noProc /\ files' = [files EXCEPT !.pid = FALSE]
    /\ c' = IF c.cmd = "stop" THEN [c EXCEPT !.pc = "halt"] ELSE End("ok")
    /\ UNCHANGED <<host, guest, faults>>

StopGuest ==
    /\ c.pc = "halt"
    /\ guest' = [guest EXCEPT !.vm = "stopped", !.loaded = NoPort]
    /\ c' = End("ok")
    /\ UNCHANGED <<host, proc, files, faults>>

\* jm suspend records the published port in its journal, commits, and stops
\* the resolver last.
SuspendMeta ==
    /\ c.pc = "meta"
    /\ files' = [files EXCEPT !.meta = files.addr]
    /\ c' = [c EXCEPT !.pc = "commit"]
    /\ UNCHANGED <<host, proc, guest, faults>>

SuspendCommit ==
    /\ c.pc = "commit"
    /\ guest' = [guest EXCEPT !.vm = "suspended"]
    /\ c' = [c EXCEPT !.pc = "stop"]
    /\ UNCHANGED <<host, proc, files, faults>>

--------------------------------------------------------------------------
(* What goes wrong around them. *)

\* The command is killed where it stands.
Killed ==
    /\ c.cmd # "none" /\ fault
    /\ c' = [End("none") EXCEPT !.clean = FALSE]
    /\ UNCHANGED <<host, proc, files, guest>>

ResolverDies ==
    /\ proc.st # "none" /\ fault
    /\ proc' = noProc /\ c' = disturbed
    /\ UNCHANGED <<host, files, guest>>

\* Another process takes or leaves a port.  One cannot take the resolver's.
PortTaken ==
    /\ fault
    /\ \E p \in Ports \ {proc.port} :
        host' = [host EXCEPT !.busy = IF p \in @ THEN @ \ {p} ELSE @ \cup {p}]
    /\ c' = disturbed
    /\ UNCHANGED <<proc, files, guest>>

\* Unbound dies in the guest.
ForwarderDies ==
    /\ guest.vm = "running" /\ guest.loaded # NoPort /\ fault
    /\ guest' = [guest EXCEPT !.loaded = NoPort] /\ c' = disturbed
    /\ UNCHANGED <<host, proc, files>>

\* Joining or leaving a VPN.
SearchMoves ==
    /\ fault
    /\ \E l \in Lists \ {host.search} : host' = [host EXCEPT !.search = l]
    /\ UNCHANGED <<proc, files, guest, c>>

ProcNext == Listen \/ ListenFails \/ PublishPort \/ PublishAddr
WatchNext == Poll \/ PushConf \/ PushProbe \/ PushFails
CommandNext ==
    \/ StartResolver \/ Published \/ NotPublished \/ Boot \/ BootFails
    \/ ReadSearch \/ ApplyConf \/ ApplyProbe \/ Verify \/ Owner
    \/ StopResolver \/ StopGuest \/ SuspendMeta \/ SuspendCommit
Events == Killed \/ ResolverDies \/ PortTaken \/ ForwarderDies \/ SearchMoves

Next ==
    \/ BeginStart \/ BeginStop \/ BeginSuspend
    \/ ProcNext \/ WatchNext \/ CommandNext \/ Events

Spec == Init /\ [][Next]_vars

\* The process and its watch run, and a command that began goes on.
FairSpec ==
    Spec /\ WF_vars(ProcNext) /\ WF_vars(Poll) /\ WF_vars(PushConf)
         /\ WF_vars(PushProbe \/ PushFails) /\ WF_vars(CommandNext)

--------------------------------------------------------------------------
(* Properties. *)

\* A start or wake that nothing disturbs ends with the guest resolving
\* through the live resolver, in whatever state crashes, dead helpers and
\* stolen ports left the files and the guest (Process.Start, applyGuestDNS,
\* postResume).
UndisturbedStartHeals ==
    (c.cmd = "none" /\ c.out # "none" /\ c.clean /\ guest.vm = "running" /\ guest.works
       /\ ~(Ports \subseteq host.busy))
        => (c.out = "ok" /\ guest.owned /\ Answers)

\* A dns stage that could not bring the forwarder up lets the command go on
\* only while the guest has its own resolution to fall back on
\* (configureGuestDNS).  With CheckFails it does not.
WarnOnlyWithFallback ==
    [][(c.cmd = "start" /\ c.full /\ c.port # NoPort /\ c'.cmd = "none" /\ c'.out = "warn")
        => ~guest.owned]_vars

Settled == c.cmd = "none" /\ guest.vm = "running" /\ c.out = "ok" /\ Answers

\* Joining or leaving a VPN converges without a restart: on a machine that
\* runs with its resolver and forwarder up since a dns stage that succeeded,
\* the guest ends with the host's search list (watchHost).
SearchFollows == <>[]Settled => <>[](Settled => guest.list = host.search)

\* The same where the dns stage wrote the list the resolver's watch started
\* from: a failed push is retried until the guest takes it (watchHost).
PushedListFollows ==
    <>[](Settled /\ c.agree) => <>[](Settled => guest.list = host.search)

=============================================================================
