# jailmachine in TLA+

A verification development for `jm`, the tool that runs a FreeBSD virtual
machine under QEMU, publishes its container engine on the host, and suspends
the machine to disk while nobody uses it.

## 1. Inventory

| Component | Source | State | Operations |
|---|---|---|---|
| suspend protocol | `internal/backend/qemu/suspend.go`, `journal.go` | `suspend.json`, saved image, partial image | PrepareSuspend, CommitSuspend, CancelSuspend, DiscardSuspend, Resume, Recover |
| QEMU lifecycle | `internal/backend/qemu/qemu.go` | `qemu.pid`, QMP socket, recorded argv | State, Start, Stop, Repair |
| lifecycle commands | `internal/cli/{start,stop,rm,recover,common}.go` | the machine lock | start, stop, stop --force, rm |
| suspend and wake commands | `internal/cli/{suspend,resume}.go` | steps S1-S18, W0-W10, rollbacks R-A, R-B, R-C | suspend, wake |
| sleeper | `internal/sleeper`, `internal/cli/sleeper.go` | held endpoints, parked clients, mode | take, park, abort, freeze, hand over, wake, auto-suspend |
| idle tracker | `internal/idle`, the monitor in `internal/cli/sleeper.go` | idle time, streaks of sightings, penalty, time of the last automatic suspend | Observe, Due, Reset, Restart, Woke; enter, sample, leave, autoSuspend |
| port forwarder | `internal/forwarder`, `internal/cli/forwarder.go` | `forwards.json`, the anchor it remembers, debounce timer, event stream | resync, ConvergeWith, Release, start, stop |
| network providers | `internal/netprov` | gvproxy's pid, its exposed ports and API forward | Start, Stop, Park, StartAPIForward |
| host resolver | `internal/resolver`, `internal/cli/resolver.go` | its process, `resolver.addr`, `resolver.port`, the guest's `unbound.conf` and `resolv.conf` | Start, Stop, dns stage, watchHost, Answer, ParityProbe |
| machine store | `internal/machine` | the record, the lock file | Load, Save, Lock, LockWait |
| settings, init, images | `internal/cli/{set,init,share,arc}.go`, `internal/image` | the record, `disk.raw`, its untrusted marker, partial downloads | set, grow, download, verify, install |

How they interact. A command takes the machine lock, resolves what an earlier
command left half done (`Recover`), reads the state from files, and then acts
on the hypervisor, the provider and the helper processes in order. The sleeper
takes the lock only for a transition; it takes over the engine socket and the
SSH port of a suspended machine and wakes it when a client connects. There is
no shared memory between commands: everything they know of each other is in
the machine directory, the processes, and QEMU's answers over QMP.

What is hard. Every one of these processes can be killed at any point, and the
directory is then all that is left. A directory change is visible before it is
durable, so a power loss can undo the newest of them. QEMU runs on when `jm`
dies, can die when `jm` relies on it, and can survive SIGKILL for a while. A
saved image and a live guest of the same machine must never both be continued:
the disk would be written by two histories.

What makes each part correct:

* suspend protocol: one copy of the guest's memory; a committed guest is never
  continued; a saved state is never loaded twice; QEMU ends only after a
  durable commit; no paused guest is forgotten; every command ends.
* lifecycle: at most one QEMU on a disk, and the lock always comes free.
* sleeper: a client that connects is served, whatever it raced with.
* idle tracker: a machine in use is not suspended, and one that is woken again
  and again is suspended ever more reluctantly.
* forwarder: the mappings, the guest's redirects and what `jm ports` shows
  converge to what the containers publish; nothing it exposes goes unrecorded
  and nothing it did not expose is removed.
* resolver: a start or wake that nothing disturbs leaves a guest that resolves
  as its host does, and goes on doing so when the host's network changes.
* record: no command loses another's update, and the record agrees with the
  disk, the hardware, the guest's pool and its ARC cap; an image called trusted
  was verified.

## 2. Modules

| Module | What it is |
|---|---|
| `SuspendDir` | the machine directory, QEMU and the command as variables; journal writes, directory syncs, `State` |
| `SuspendRecovery` | `Recover`, `Repair` and `discardJournalThenImage`, as subroutines of a command |
| `SuspendProtocol` | the commands: suspend, start or wake, stop, stop --force; QEMU; faults; the properties |
| `SuspendInvariant` | the inductive invariants of the protocol: `ControlInv`, `VersionInv`, `HandoverInv` and the ones built on them |
| `GuestMemory` | abstract specification: a single copy of the guest's memory |
| `SuspendRefinement` | the mapping from the protocol to `GuestMemory` |
| `Standin` | the host endpoints, the stand-in that holds them, the ssh forward and the provider |
| `Sleeper` | the sleeper daemon: mode loop, wakers' backoff, the suspend it runs |
| `SleeperSystem` | the sleeper composed with wakers, start and stop commands, clients and faults; the properties |
| `IdleMonitor` | the idle tracker, the monitor around it and the automatic suspend, against a clock |
| `Forwarder` | the forwarder's loop, debouncer, event stream and record, the provider's table, the guest's anchor |
| `HostResolver` | the resolver's process and files, the guest's forwarder, the dns stage, the watch |
| `MachineRecord` | the record, the disk and the guest under init, set, start, stop, suspend and rm |
| `PublishPlan` | the forwarder's plan from a container listing, as operators |
| `Shares` | the share set, as operators |
| `DnsAnswers` | what the resolver answers, its client, doctor's parity check, as operators |
| `Algorithms` | one input of one of these three and what the code computes from it; the properties |
| `MCSuspend`, `MCSleeper`, `MCIdle`, `MCForwarder`, `MCResolver`, `MCRecord`, `MCAlgorithms` | the modules TLC runs |
| `RecordInvariant`, `ForwarderInvariant`, `ResolverInvariant` | the inductive invariants of `MachineRecord`, `Forwarder` and `HostResolver` |
| `SuspendProofs`, `SuspendKeeping` | TLAPS proofs about the protocol: types, control and versions, recovery and durability; what is kept, and the refinement |
| `SleeperProofs`, `IdleProofs`, `ForwarderProofs`, `ResolverProofs`, `RecordProofs`, `AlgorithmProofs` | TLAPS proofs about the other components |

### The suspend protocol

*State.* `journal` is `suspend.json` as `readJournal` sees it: absent
(`"none"`), `"saving"`, `"saved"`, or present and not understood (`"bad"`),
with the disk's fingerprint when there is one. `image` and `tmp` are the saved
image and its partial sibling, each holding the guest version it was taken at.
`pidfile` and `incoming` are `qemu.pid`, which QEMU writes itself some time after
it was launched (`Launched`, `QemuStarts`; `"starting"` is a QEMU that has not
come up), and whether the recorded argv carries `-incoming`. `qemu` is the process: what `query-status` and `query-migrate`
tell apart, and the guest version in its memory. `ver` and `disk` are the
version the guest last executed to and last wrote to its disk. `pc`, `cmd` and
`ret` are the command that holds the lock: its position, which command it is,
and where a subroutine returns to.

*Guest versions.* Guest state is a number that grows when the guest runs. It is
what makes the interesting faults visible: a stale memory image is one whose
version is below `ver`, and one that disagrees with its disk is one whose
version is below `disk`.

*Durability.* `jdur` and `idur` are the contents the journal and the image may
have after a power loss: a rename or unlink adds to them, `syncDir` collapses
them. `PowerFails` picks from each independently. File contents are synced
before their rename (`writeAtomic`, `makeDurable`), so only directory entries
are at risk. The argv and the pid file are treated as surviving or not without
tracking (`pidfile` may vanish; a QEMU never survives).

*Granularity.* Each file operation, QMP command and sync that a crash can
separate from the next is an action with its own label. Reads followed by
decisions without an effect in between are one step, because only the command
that holds the lock writes the files; QEMU can still die between any two.

*Failures.* Every error return of the source is a disjunct: removing a file,
renaming, syncing (`DirSyncFails`), reading the journal (`ReadFails`), a
journal that another version or damage made unparseable (`BadJournals`), a QMP
command failing or timing out, a guest that is continued without the
confirmation arriving, a QEMU that survives SIGKILL (`Survives`: `jm` then
writes the pid file in its place), a partial image that cannot be removed.
`JmKilled` ends a command anywhere. `QemuDies` covers crashes and a guest that powers itself off.

*The launch window.* A `jm` killed between the launch and QEMU's writing of
`qemu.pid` leaves a process that `State` cannot see. `LaunchGap` says whether a
command may begin in that window. With it the next start launches a second QEMU
(`suspend_launch_gap`), and there is no telling what two of them do to one disk,
so the other runs and the theorems wait for the pid file.

*Network provider.* Its state only decides whether a machine reads as broken,
so `dispatch` may take the repair branch at any time.

*Recovery and the forced stop.* `Begin` encodes the difference between a forced
stop, which goes on when `Recover` fails (`ret.err = "dispatch"`), and the
others, which give up.

### The sleeper

*State.* `m` is what decides the machine's state: the hypervisor, the journal's
phase and the provider, each as its files show it. `sock` is the engine
socket's path, the ssh forward's process and whether its inode is on record.
The code tells sockets apart by inode; here the path is named after who bound
the inode it points at (`"litter"` when nobody listens on it any more). `sl` is
the stand-in's own fields: the listeners it believes it has, the socket it kept
aside, whom the SSH port was released to, and the abort flag with its arming.
`conn` is one connection per client: parked on an endpoint, or its outcome.
`loop`, `child`, `backoff`, `stoppedBefore` and `term` are the daemon; `sus` is
the suspend that runs in it; `cmd` and `lock` are the other `jm` processes.
`wanted` is a history variable: a client or a wrapper asked for the machine
since the suspend was armed and while it could still be cancelled.

*Actions.* `Loop` is `evaluate` and the loop around it, `Suspend` is
`suspendMachine` (steps S1 to S17) with its rollbacks, `Command(p)` is a
process that runs `jm start`, `jm _wake` or `jm stop` from the lock to its
release (steps W1 to W10, the cold boot, the repair, the shutdown). `_wake` is a
`jm start` that waits for the lock and never boots a machine that was stopped.

*Granularity.* The daemon is several goroutines. The mode loop holds no lock
that the control handlers or the suspend respect, so it is split wherever one
of them can answer in between: between reading the state and acting on it,
between looking at the port's owner and binding the port, between reaping and
spawning. A read and what is decided on it are one step where only a restore
or a boot, which take seconds, could invalidate it. The stand-in's operations
hold its mutex and are one step each. `startForward` is split at its rename and
at the inode record, since a command can be killed there.

*What is abstracted.* The automatic suspend is a suspend request like any
other; `IdleMonitor` says when it comes. A `jm suspend` reads the state without
the lock, starts the sleeper it needs and then asks; either may come late, so
`launchSleeper` and `runSuspend` are enabled in every state (the machine runs at
first, so each is a state that some `jm suspend` read). The saved state protocol is
the one of `SuspendProtocol`: here it is three phases of the journal, and a
rejected, failed or discarded saved state is a choice. The provisioning stages
of a start, the guest scripts and the probes are outcomes. The wrapper's own
probe of the engine socket is not a client. A pid is not recycled while the
sleeper remembers it.

### The idle monitor

*State.* `mon` is the sleeper's `idleMonitor` with its tracker: idle time, the
streak of each signal that counts only when seen twice, the penalty, the age of
the last automatic suspend, failures in a row. `mach` is the machine and the
age of its suspend, `wake` the age the suspend had at the first trigger of its
wake (`triggerAt`, `wokeAt`). `calm` is a history variable: the time, and the
quiet samples, since monitoring began or something was seen.

*Time.* Every time the code compares is an age, in clock steps, capped where
no comparison tells a longer one apart. `clockTicks` is a step of the clock and
`hostSleeps` a jump past every threshold.

*Actions.* `monitor` is a pass of the mode loop in monitor mode: enter if need
be, sample, decide. `autoSuspend` is what follows a decision; the suspend
itself is one step here and the subject of `Sleeper`. The guest probe is either
read or fails. A suspend and the loop's look at it are kept in order
(`Stalls`), because a wake takes seconds and the loop is poked at the end of
a suspend.

### The port forwarder

*State.* `fw` is the process: its place in `Run` and `ConvergeWith`, the state
it holds in memory and the anchor it remembers. `file` is `forwards.json`,
`prov.table` the provider's mappings with who made them (`"ours"`, or `"left"`
for somebody else's and for what a release gave up on), `guest` what containers
publish and the redirects pf has. `owed` is a history variable: what a trigger
still asks for. A mapping is its key; what turns a listing into keys and
redirects is `PublishPlan`.

*Granularity.* The loop, the debouncer's timer, the stream's goroutine and the
commands interleave at every call that leaves the process: listing, inspect,
anchor load, list, each unexpose and expose, each save. A call to the provider
that fails may have been served. The provider's death empties its table.

*Faults.* Kills of the forwarder anywhere, of the command that releases, of
the provider; an event stream that closes and loses what was not read; pf
flushed in the guest; a record that cannot be read. A save that fails is under
`SaveFails`, off in the run (section 3).

### The host resolver

*State.* `proc` is the resolver process from its launch to serving, with what
its watch remembers; `files` is `resolver.addr`, `.port`, `.pid` and the port in
the suspend's meta; `guest` is the machine, `unbound.conf`, the port the running
unbound forwards to, and `resolv.conf`. `c` is the command that holds the lock,
with two history fields: nothing has disturbed it, and the list it wrote is the
one the watch took for the guest's.

*Granularity.* The watch pushes into the guest without the lock, so the guest
script is split at its probe, and the command's read of the search list from
its use. Launch and pid file are one step here. A query is answered when unbound
forwards to the port the resolver serves; a guest whose image has no working
unbound (`works`) never answers.

### The machine record

*State.* `rec` is `machine.json`: memory and ARC cap, disk size, publish
address, an outstanding grow, the image's trust. CPUs, the ssh port and the
shares are changed under the same rule as the memory and have no field of their
own. `dir` is `disk.raw` and what a fetch left: a file's content is the source
of each of its two halves, so that a resumed download of another image shows;
it is in the slot of its URL (`Slot`), and every URL of the user's own shares one
slot, with a `.sha256` beside it or not.
`vm` is the hypervisor and the guest: memory, disk and pool, the cap in force,
the one in `loader.conf`, the cap noted by a suspend. `q` is the commands, each
with the record it read.

*Actions.* Each command reads the record, takes the lock or gives up, reads it
again and goes on step by step; every write of a file, the record, the
hypervisor or the guest is a step of its own, and a command may be cut before
any of them (`Cut`). A suspend and a boot are one step (`SuspendProtocol` and
`SleeperSystem` have theirs), so that set meets a suspend in flight
(`set.go:289`) does not arise. `WakeDiscards` is a wake whose saved state cannot
be restored: the same start goes on as one of a stopped machine. An init's fetch
removes its archive and writes the untrusted marker in two steps.

### The operators

`PublishPlan` is `Compute` and `Resolve`: ranges, the address each publish binds,
which of them need a redirect of jm's, clashes and missing addresses. `Shares`
is `NormaliseShares`, `AddShare`, `RemoveShare` and `applyMounts`; a path is the
sequence of its parts. `DnsAnswers` is the handler's policy from the checks on
a query to truncation, the client that follows a truncated reply, and the parity
check with doctor's own alias table and its bound on the names it looks at
(`MaxProbeCandidates`); an address is its family, its class and an identity,
v4-mapped ones included, sizes are counts of answers, and TXT, SRV, MX and NS are
one type. A PTR is asked of the host only for a reverse name, and a name is not
its own CNAME. Each module ends with reference definitions that
say what the result should be without following the code. `Algorithms` takes one
input and computes its result once; the inputs are constants, and `MCAlgorithms`
gives TLC bounded ones. The code's loops are recursive functions on the number
of turns, and `kept`, a loop over the shares sorted by path, one on the shares.

## 3. Runs

| Run | Faults | Checks |
|---|---|---|
| `suspend_crashes` | kills, QEMU deaths, sync and read errors, bad journals | types, `OneHypervisor`, `SavedNeverRuns`, `NeverStale`, `SavedIsNewest`, `RecoverResolves`, `Terminates`, and that the protocol implements `GuestMemory` |
| `suspend_power` | kills, QEMU deaths, sync errors, power loss | `QuitIsDurable`, `NoStrandedGuest`, `SuspendKeepsSaved`, `RestoredNeverResurrected`, `GuestNeverLost` |
| `sleeper_safety` | kills and deaths, 4 events | `ClientCancelsFreeze`, `ServedSocketStays` |
| `sleeper_clients` | kills and deaths, 3 events | `HeldClientWakes`, `HeldClientServed`, `RunningIsServed`, `SuspendedIsHeld` |
| `forwarder_loop` | kills, lost events, failed calls, a flushed anchor, 3 events | `RecordedBeforeExposed`, `TriggerNotLost`, `OthersStay`, `Converges`, `AnchorHeals` |
| `idle` | a sleeping host, failed probes and suspends, restarts, 4 events | `IdleIsReal`, `PenaltyFollowsFlaps`, `FlapsSlowDown`, `QuietMachineSuspends` |
| `resolver` | kills, deaths, stolen ports, a moving search list, 3 faults | `UndisturbedStartHeals`, `PushedListFollows` |
| `machine_record` | kills, failed saves and guest calls, 1 fault in 3 commands | `ArcFits`, `DisksAgree`, `HardwareIsRecord`, `ArcAgrees`, `TrustedIsVerified`, `OnlyAskedChanges` |
| `algorithms` | none | `PlanIsFaithful`, `SharesKeepAccess`, `AnswersAreTheHosts`, `ParityAgrees` |
| `suspend_resurrected` | kills, power loss | violates `DiskNeverDiverges` |
| `suspend_launch_gap` | a kill in the launch window | violates `OneHypervisor` |
| `record_shrink` | one kill | violates `PoolFitsDisk` |

Every module has a type invariant `TypeOK`. `suspend_crashes` checks the one of
the protocol, which is also proved; the others are for the reader and hold
under the same configurations. So do the inductive invariants of section 4,
each under the configuration whose faults its theorem allows: those of
`SuspendInvariant` under `SuspendCrashes.cfg` or `SuspendPower.cfg`, `RecordInv`
of the forwarder under `ForwarderLoop.cfg`, `IdleInv` and `ShownInv` under
`Idle.cfg`, `HealInv` under `Resolver.cfg`, those of `RecordInvariant` under
`Record.cfg`.

*Bounds of the suspend runs.* `MaxVer` is the only bound. Two versions tell a
stale image from a fresh one and three allow a suspend, a resume, execution and a second suspend
that differs from the first; nothing in the protocol compares versions except
for equality with the disk's fingerprint.
Commands, crashes and power losses are unbounded.

`suspend_launch_gap` needs one version only: nothing has to run.

*Bounds of the sleeper runs.* `MaxEvents` bounds what comes from outside or
could repeat forever: requests, connections, aborts, kills, deaths, failing
wakes and spawns. Four events are a suspend, a client or a waker on the
suspended machine, a fault, and a command that meets what is left. Three, which
is what the liveness properties are checked with, are enough for a sleeper killed
during its suspend and a new one that finds the machine suspended. Two processes are a waker beside
a start, a stop or another waker. `sleeper_safety` has two clients and room for
one held connection, so the queue is at its limit; the liveness properties are
about each client alone and use one. Processes and clients are interchangeable,
and the safety runs use that symmetry; the liveness runs do not.

*Bounds of the other runs.* `forwarder_loop` has a key that needs a redirect and
one that does not, and two addresses, so that a container can come back at
another one; three events are a change, the failure that hides it and one that
meets the recovery. `idle` has the smallest periods that are in the code's
order (interval, flap window, reset), and a penalty that can double twice and
meet its cap. `resolver` has two ports, the least that lets one be taken away,
and three commands: a start, a suspend and a wake, or a start after any of
them. `machine_record` has two commands at once, two memories, three disk sizes
of which an init may ask for two, and flag sets that change one or two fields: a
set can grow the disk twice or by different amounts, and an init can be run again
with another size. It leaves out what breaks `DisksAgree` (`SmallReuse`, below).
In `algorithms`, publishes are pairs with ranges that
cross the last port and triples of single ports, shares are three levels deep,
the least that has a writable directory in a read-only one in a writable one,
and the host's addresses are three at a time of every class, mapped ones
included; the published address that means every interface is told apart from
the host's own. The theorems have no bound.

*Deadlock* is checked in the suspend runs: some command can always begin. The
other runs stop when their events or commands are used up or go on only with
the clock; of them `idle` checks it.

*Fairness.* The liveness runs of the sleeper assume weak fairness of the mode
loop, of the suspend in it, of every command that runs, and of the backoff's
timer: goroutines and processes run, and each of their waits has a deadline.
Nothing is assumed of clients, of users, or of faults. A failing wake is an
event, so "once wakes stop failing" is part of what `HeldClientWakes` says.

The forwarder's loop has a timer and deadlines on its calls, its debounce timer
lapses and its stream is reopened after a backoff: weak fairness of each, and
none of containers, commands or the provider, which is why `Converges` is
conditioned on a forwarder and a provider that stay. `idle` assumes that the
mode loop runs and the clock goes on. `resolver` assumes that the process, its
watch and a command that began go on; each of their calls has a timeout and the
model the branch for it.

`SuspendedIsHeld` is about a stopped provider: when parking it fails at S15 the
machine stays suspended with a provider that serves nothing, and the sleeper
leaves the endpoints alone until a command parks it. `HeldClientServed` is
about a forward that serves: with the path taken and the forward dead, held
connections wait for their timeout.

`suspend_crashes` assumes weak fairness of the command's steps only.
Every wait of the code is bounded by a deadline or a context timeout
(`migrateCancelTimeout`, `resumeLoadTimeout`, `suspendMigrateTimeout`,
`launchReadyTimeout`, `termTimeout`), and the model gives each of them its
timeout branch, so a step is always enabled; nothing is assumed of QEMU, of the
guest or of the next command.

### What the violations show

* `suspend_resurrected`: `stop --force` is killed between unlinking the journal
  and syncing the directory. The next start finds no journal, boots, and the
  guest writes its disk while the unlink is still not durable. A power loss
  brings the journal and image back; when the journal has no fingerprint
  (its suspend was killed between the commit and the fingerprint) the old
  memory is loaded onto the newer disk. Wakes and recovery sync first, so this
  needs the cold boot.
* `suspend_launch_gap`: `jm start` is killed after it has launched QEMU and before
  QEMU has written `qemu.pid` (`qemu.go:306`; `suspend.go:629` for a wake). The
  machine reads stopped, or suspended, and the next start launches a second QEMU
  on the same disk. A `jm` that lives on writes the file in QEMU's place
  (`suspend.go:692`), which is all that the quoted comment and test consider.
* `record_shrink`: `jm set --disk 3` is killed after the file has grown and
  before the record says so. The first boot grows the pool into the whole file.
  `jm set --disk 2` on the running machine is then larger than the record and
  passes; `image.Grow` leaves the larger file alone, and `block_resize` cuts it
  to 2 beneath the pool. A size check against the file instead of the record
  would refuse it.

### Other disagreements between code and text

Each of these is refuted by TLC when the constant or the property named is put
into the configuration it belongs to.

* `SuspendPower.cfg` with `BadJournals`: recovery renames an unparseable
  journal aside before it continues the paused guest (`suspend.go:920`); killed
  in between, nothing tells the next recovery that this guest is paused
  (`NoStrandedGuest`; ADR 0009 says every command resolves it).
* `SuspendPower.cfg` with `ReadFails`: the commit's rename
  succeeded, its sync failed, the journal cannot be read at that moment and
  QEMU is gone; `afterCommitError` (`cli/suspend.go:492`) discards the committed
  state (`SuspendKeepsSaved`; `journal.go:135` says no caller may).
* `SleeperSafety.cfg` with `PortLeftToWaker`: the loop sees that nobody owns the
  SSH port, a waker is told it is free, the loop binds it (`sleeper.go:634`,
  against `standin.go:341`).
* `SleeperSafety.cfg` with `LoopLeavesEndpoints`: a pass that decided to hand
  over runs on while a suspend begins, and closes the listener it has taken
  (`sleeper.go:671`, against line 323).
* `SleeperSafety.cfg` with `HeldSocketStays`: a start is killed between the
  forward's pid and its inode; stopping that forward later removes the
  stand-in's socket (`forward.go:203`, against line 181).
* `ForwarderLoop.cfg` with `SaveFails`: the save before Expose fails, the next
  pass finds nothing new to save and exposes a mapping no file names
  (`converge.go:173`, against line 63: `RecordedBeforeExposed`).
* `Resolver.cfg` with `SearchFollows`: the search list moves between the dns
  stage's read and the watch's first, which takes it for the guest's
  (`cli/resolver.go:114`, against line 105).
* `Resolver.cfg` with `CheckFails` and `WarnOnlyWithFallback`: when the call
  that asks who owns `resolv.conf` fails, a start goes on with the warning that
  the guest kept its own resolution (`cli/resolver.go:219`, against line 216).
* `Idle.cfg` with `Stalls`: a wake that ends before the loop has seen the
  suspended machine is not shown to the flap guard, and its stale time is shown
  after the next suspend (`PenaltyFollowsFlaps`).
* `Record.cfg` with `SmallReuse`: an init with a larger `--disk` reuses the disk
  that an interrupted one with a smaller `--disk` has installed, and records more
  than the file holds; the recorded size is only ever raised to the file's, never
  lowered (`init.go:371`, against line 368: `DiskHoldsRecord`).
* `NormaliseKeepsAccess` with `FALSE` for `holed`: of `/a` read-write, `/a/b`
  read-only and `/a/b/c` read-write the last is dropped for `/a`, and the guest
  sees it read-only. The comment at `share.go:196-201` says that such a share is
  already there through its ancestor and changes nothing (`share.go:222` looks at
  every kept ancestor, not at the innermost one). The property and the theorem
  say that this is the only case: access differs exactly at the paths that are
  `holed`.
* `Record.cfg` with `MarkerGap`: killed between the disk's rename and its marker,
  the next init calls an unverified image trusted (`init.go:354`, against line
  349: `TrustedIsVerified`).
* `Record.cfg` with `ConcurrentInit`: init looks for a record before it takes the
  lock and not again, so a second init can replace the record of a machine that
  has been created and started meanwhile (`HardwareIsRecord`).

What the models take as it is, without a text against it: a second publish of
one container at the same guest port shares the first one's redirect, whatever
its container port (`desired.go:202`); a wake does not finish an outstanding grow, and
does not repeat a cap whose live change failed; a failed release is forgotten
with the record; a mapping somebody else makes at a key `forwards.json` lists is
taken for the forwarder's.

## 4. Proofs

Every theorem is for all values of the constants under the named assumption of
its module (`ConstantsAssumption`, `IdleAssumption`, `RecordAssumption`, ...) and
for all faults, except where it says which fault it excludes. An excluded fault
is one TLC refutes the property with; section 3 has the counterexamples.

| Theorem | Property | Excludes |
|---|---|---|
| `TypeCorrect` | `TypeOK` | |
| `SavedStateNeverRuns`, `SingleHypervisor` | `SavedNeverRuns`, `OneHypervisor` | the launch window |
| `RunningGuestIsNewest`, `SavedStateIsNewest` | `NeverStale`, `SavedIsNewest` | the same, power loss |
| `RecoveryResolves` | `RecoverResolves` | the launch window |
| `RestoredGuestIsNotResurrected` | `RestoredNeverResurrected` | the launch window |
| `ProcessEndsDurable` | `QuitIsDurable` | the launch window |
| `NoGuestIsStranded` | `NoStrandedGuest` | the same, unparseable journals |
| `SuspendDiscardsNothing` | `SuspendKeepsSaved` | the launch window, unreadable journals |
| `GuestStateIsKept` | `GuestNeverLost` | the same, unparseable journals |
| `Implements` | `ImplementsGuestMemory` | the launch window, power loss |
| `DiskFollowsMemory` | `DiskNeverDiverges` | the launch window, power loss |
| `NoClientIsFrozenOut` | `ClientCancelsFreeze` | |
| `ServedSocketIsLeft` | `ServedSocketStays` | |
| `IdleTimeIsReal`, `SuspendsAfterQuiet` | `IdleIsReal`, `FlapsSlowDown` | |
| `FlapGuard` | `PenaltyFollowsFlaps` | a stalled mode loop |
| `MappingsAreRecorded`, `OthersAreLeftAlone` | `RecordedBeforeExposed`, `OthersStay` | failing saves |
| `TriggersAreNotLost` | `TriggerNotLost` | |
| `UndisturbedStartsHeal` | `UndisturbedStartHeals` | |
| `ArcAlwaysFits` | `ArcFits` | |
| `HardwareAlwaysRecord`, `NoUpdateLost` | `HardwareIsRecord`, `OnlyAskedChanges` | two inits at once |
| `CapAlwaysAgrees` | `ArcAgrees` | two inits at once |
| `TrustedAlwaysVerified` | `TrustedIsVerified` | a kill between disk and marker |
| `DisksAlwaysAgree` | `DisksAgree` | two inits at once, one that asks for more than an interrupted one installed |
| `EveryPlanIsFaithful` | `PlanIsFaithful` | |
| `SharesKeepEveryAccess` | `SharesKeepAccess` | |
| `EveryAnswerIsTheHosts`, `ParityAlwaysAgrees` | `AnswersAreTheHosts`, `ParityAgrees` | |

Each proof is an induction with one lemma per group of actions and one case per
action. What follows is why each invariant has the shape it has.

### The suspend protocol

`ControlInv`. Neither `SavedNeverRuns` nor `OneHypervisor` is inductive: a step
of the command is safe because of where the command is. `Tracked`, that a QEMU which has come up has its pid file
and that one which has not belongs to the command at hand, stands in for
`OneHypervisor`; it holds because no command begins in the launch window.
`PositionInv` says the rest:
which positions are reached only with QEMU gone, only with the guest frozen,
only with the journal absent, uncommitted or committed, and where a subroutine
may return to.

`VersionInv` (without power loss) says where the newest version of the guest is:
in QEMU's memory, in the image about to be committed at the positions between
the end of the save and the commit, or in the image a saved journal points at.
`NeverStale` and `SavedIsNewest` are corollaries. With power loss
`suspend_resurrected` breaks `NeverStale` too.

`HandoverInv` adds, with every fault, what `ControlInv` does not say of QEMU
while memory changes hands: which states it can be in while a guest is saved and
while one is loaded, and that a process that has loaded nothing is one `jm`
launched to load. Four invariants stand on `ControlInv` and `HandoverInv`, each
for a question of its own:

* `RecoverInv`: at a position behind recovery there is no half-done suspend.
* `ResurrectInv`: from the sync that follows the unlink until the guest runs, no
  content the journal may have after a power loss is a saved one. That set, and
  not the journal as it reads, is what must be inductive.
* `DurableInv`: the image is durable before the journal that names it is
  written, and the journal before QEMU is told to quit, unless its sync failed:
  the code then goes on (`quitUnsynced`), because the commit stands as long as
  the power does.
* `StrandInv`: a guest that stands still has a journal, or an argv with
  `-incoming`, that the next recovery will act on, at every position and not
  only between commands.

`DiscardInv` says for which commands a position that leads to a discard can be
reached, and that a discard begun by a suspend finds no valid image.
`CopiesInv` relates the copies of the newest guest (process, partial image,
image) across power losses and failed syncs, where `VersionInv` does not hold.
`GuestNeverLost` is an action property: the proof shows for each action that the
newest version is still in one of the copies or that the step is one of those
that are meant to lose it.

`Implements` is the refinement: `SuspendRefinement` maps the state to who holds
the guest (`Holder`) and at which version. The initial states map to initial
ones, each step of a command maps to a stutter but for the commit, which is the
abstract save, the continue that restores, the discard and the deaths; the
lemmas group the actions by where they are in the command and show which of
these they can be. `DiskFollowsMemory` uses the same lemmas to show that the
disk is never ahead of the memory; together with `suspend_resurrected`, where
only power loss is added, it says that the power loss is the whole cause.

### The sleeper

`NoClientIsFrozenOut` is not inductive by itself: that the check at S11 sees
every arrival needs `WindowIsArmed` (from S1 until S11 the abort flag is armed,
whatever the mode loop, a shutdown or another request does meanwhile) and
`ArrivalIsRecorded` (in that window the flag is set when, and only when, a
client that was kept or a wrapper has arrived). The proof has
one lemma for each of the mode loop, the suspend, the commands and the
environment; the first and the third show that they leave the window alone.

`ServedSocketIsLeft` is about a state the mode loop read some steps ago. Every
step but one keeps the path of a live forward by its own guards; the one is the
mode loop's takeover of the socket, which asks only that the provider is off. It
needs `ForwardNeedsProvider`: a provider that is off has no live forward. That is
inductive with `LaunchesOverProvider` (whoever is about to launch a forward has a
provider that is on or has died, not one that was stopped) and `Owned` (past the
lock there is one process, so nobody stops the provider under a launch). `Owned`
needs the assumption that no process is named like the two other values of the
lock.

### The idle monitor

`IdleInv` is the types, `IdleIsReal` and `DueInv`. They need each other: the
failures are bounded because a fired suspend had some left, and a fired suspend
has its idle time because idle time is never more than the quiet that was seen.
`ShownInv` (the suspend waiting to be shown to the flap guard is the machine's
last one, it was automatic, and the trigger came after it) is what `Stalls`
breaks, so `FlapGuard` excludes it.

### The forwarder

`RecordInv` says at each place of a pass and of a release how far
`forwards.json`, what the process remembers and the provider's table may be
apart. `RecordedBeforeExposed` compares only the file and the table; that the
next Expose keeps it depends on what the pass has loaded, dropped and saved.
`TriggersAreNotLost` needs only the types: each hand-over, from the stream to
the debouncer to the loop, keeps the trigger by itself.

### The host resolver

`HealInv` has three parts below the property. `ProcInv` holds with every fault:
an address that is published while a process lives is the one that process
serves, because a launch removes the old one first, and unbound never runs with
another port than its configuration's. `CommandInv` says which command is where.
`CleanInv` says what an undisturbed command knows at each place: the resolver it
waits for is coming up unless every port is taken, the port it read is still
served, and a working unbound that it configured answers, also when the watch's
push writes the same configuration meanwhile. The types are not inductive
without it: a `resolv.conf` that is jm's has a search list only because whoever
wrote it had read one.

### The machine record

`CapInv`: the record alone is not enough for `ArcFits`, since a set saves its
copy; every copy of the record fits too, and a set about to be applied was
validated against the copy it changes, which is what the second validation after
`reloadLocked` gives.

`RecordInv`: `PlaceInv` says which command is where and that it holds the lock
there, `CreateInv` that nobody has a record while an init is under way,
`CopyInv` that the copy a command works on is the record but for what it was
asked to set, and that its memory is the record's wherever the machine runs or
the command will boot it. Two inits of one name each compute a record before the
lock, and the second one's save replaces the first's: `~ConcurrentInit`.

`TrustInv` follows a verdict back to the download: from the fetch to the install
there is no disk, what is installed from a source with a checksum is that
source's image, and an unverified disk has its marker except while the init that
installed it is about to write one. Two inits at once do not hurt it; a kill
before the marker does.

`ArcInv` says which commands may have the guest's cap differ from the record's
(those in `Applying` and `Capping`, under the lock), what they know of the cap
they will apply, and that a suspended guest has the cap its meta notes.

`DiskInv` carries what a grow knows at each of its steps, so that the record
never names more than the file has, and a pool smaller than the record is always
marked, for any sizes. An init under way has a disk that is no smaller than it
asks for (`Room`): it installs one that large, or reuses one that is, which is
where `~SmallReuse` comes in. That the file also holds the pool (`PoolFitsDisk`)
is no part of it: `record_shrink` refutes that.

### The operators

The four properties are proved for all inputs that `AlgorithmsAssumption` allows:
any number of publishes, ports and shares, paths of any length, any set of
addresses. It asks what the code asks before it gets that far: a share has a path
other than `/` (`share.go:121`), the shares of a record have one each, and no
hosts file holds the resolver's reserved name (`parity.go:31`). The step of
`Algorithms` only takes the input, so each theorem of the specification follows
from one about the operators that holds for every argument.

*Loops.* The library's induction theorems take a predicate as a parameter and
cannot be used here. `UpTo` is induction without one: a set of turns that holds 0
and the turn after each of its own holds all of them, because a turn it missed
would have a least one. The set is the one of the turns at which the loop's
invariant holds.

*The plan.* `PlanInv` says after each turn that exactly the ports taken so far are
mapped; that a guest port has at most one rule, which the engine does not serve
and which is made for a publish of its container there, as is every key the rule
carries (`MadeFor`); that a mapping that is not pending needs no rule or is
carried by one of its own container (`Reached`); and that a pending one lost its
guest port to the engine or to another container (`Taken`). All of it is needed
where a mapping whose key was taken before is skipped (`desired.go:189`): it was
the first publish of the key that was carried or held back.

*The shares.* `kept` recurs over the ancestors of a share, so `KeptLoop` is by
well-founded recursion on the length of the path. `NothingUnshared` reads off it
that a dropped share has a kept one of its mode above it. `KeptAccess` says what
is kept above a path: the outermost share, and the outermost one of the other
mode. The innermost kept one is then of the other mode wherever there is one, and
that differs from what was asked for exactly in a hole. `NormaliseKeeps` and `MountKeeps` follow for any
depth; a set that was normalised has no hole left to lose (`NormalisedHasNoHole`),
so a mount changes nothing outside its own path.

*The answers.* `AnswersHold` relates the addresses answered to the host's, through
what unmapping, filtering and rewriting leave of each (`GuestAddrsMean`);
`FailuresPassedOn`, `TruncationTold` and `ProbeAgrees` go through the cases of the
policy. None needs an induction.

### What stays with TLC

Liveness: `Terminates`, `HeldClientWakes`, `HeldClientServed`, `RunningIsServed`,
`SuspendedIsHeld`, `Converges`, `AnchorHeals`, `QuietMachineSuspends` and
`PushedListFollows`. Every safety property of a passing run has its theorem.

Decisions that the code takes in order are written as `IF ... ELSE` and not as
`CASE`: `CASE` leaves open which of several true arms is taken, TLC takes the
first, and a proof would have to hold for every one of them.

## 5. Plan

Done: the suspend protocol with its abstraction, the sleeper with the commands
around it, the idle monitor, the forwarder, the resolver, the record, the
operators behind them, and the theorems of section 4.

1. `Launch`: several QEMU processes on one disk after `suspend_launch_gap`, and
   the window between a launch and its pid file for the forwarder and the
   resolver, which have it too.
2. `Held`: an abstract specification of the endpoints (somebody who can wake or
   serve always has the path) that `SleeperSystem` implements.

## 6. Not modelled

ssh, the QMP and DNS wire formats, argv text, pf rule text, image decompression
and the read-only commands (`inspect`, `doctor` but for its parity check) hold
no state that a step of another process can disturb. The provisioning stages
after a boot other than the dns stage, the grow and the ARC cap are outcomes.
Launching a process and its pid file appearing are one step everywhere but in the
suspend protocol.
`rm` deletes the lock's file with the directory; the lock of `MachineRecord` is
by name, and a command that waits on a deleted file is not modelled.
