--------------------------- MODULE SleeperSystem ---------------------------
(***************************************************************************)
(* The sleeper among the processes it works with: the wakers it spawns,    *)
(* the start and stop commands of users, clients, and what can die.        *)
(***************************************************************************)
EXTENDS Sleeper

cmdAt(p, pc) == cmd' = [cmd EXCEPT ![p].pc = pc]

\* What a command leaves alone unless it says otherwise.
clientSide == <<conn, wanted, sus>>

\* The provider stops, and its forward with the socket that is its own.
StopProvider == m' = [m EXCEPT !.prov = "off"] /\ sock' = stopForward(FALSE)

invoke(p, kind) ==
    /\ p \in freePids /\ happens
    /\ cmd' = [cmd EXCEPT ![p] = [kind |-> kind, pc |-> "lock"]]
    /\ UNCHANGED <<machine, sl, clientSide, daemon, lock>>

\* A waker queues for the lock; the other commands may give up.
takeLock(p) ==
    /\ cmd[p].pc = "lock"
    /\ \/ /\ lock = "free" /\ lock' = p
          /\ cmdAt(p, IF cmd[p].kind = "stop" THEN "stopSleeper" ELSE "recover")
       \/ lock # "free" /\ cmd[p].kind # "wake" /\ cmdAt(p, "off") /\ UNCHANGED lock
    /\ UNCHANGED <<machine, sl, clientSide, daemon, events>>

\* A sleeper that has gone without shutting down.
dead ==
    /\ Gone
    /\ sock' = [sock EXCEPT !.path = IF UnixIsOurs THEN "litter" ELSE @]
    /\ sus' = [sus EXCEPT !.pc = "none"]

\* SIGTERM, a wait, and SIGKILL when the sleeper does not exit in time.
stopSleeper(p) ==
    /\ cmd[p].pc = "stopSleeper"
    /\ \/ /\ ~running /\ cmdAt(p, "recover")
          /\ UNCHANGED <<sock, sl, conn, sus, daemon>>
       \/ /\ running /\ ~term /\ term' = TRUE
          /\ UNCHANGED <<cmd, sock, sl, conn, sus, loop, stoppedBefore, child, backoff>>
       \/ running /\ term /\ dead /\ cmdAt(p, "recover")
    /\ UNCHANGED <<m, wanted, lock, events>>

\* Recovery, which a forced stop goes on without.  A machine whose partial
\* state was discarded is booted from disk, by a waker too.
recover(p) ==
    /\ cmd[p].pc = "recover"
    /\ \/ /\ Recover /\ UNCHANGED events
          /\ cmdAt(p, IF m.journal = "saving" /\ m.hv # "on" /\ cmd[p].kind # "stop"
                      THEN "network" ELSE "dispatch")
       \/ /\ happens /\ UNCHANGED machine
          /\ cmdAt(p, "end") \/ (cmd[p].kind = "stop" /\ cmdAt(p, "dispatch"))
    /\ UNCHANGED <<sl, clientSide, daemon, lock>>

\* What start, _wake and stop do with the state they find under the lock.
dispatch(p) ==
    LET kind == cmd[p].kind
    IN /\ cmd[p].pc = "dispatch"
       /\ \/ /\ State = "running" /\ UNCHANGED machine
             /\ cmdAt(p, IF kind = "stop" THEN "shutdown"
                         ELSE IF m.journal # "none" \/ (kind = "wake" /\ Answers) THEN "end"
                         ELSE "ssh")
          \/ State = "suspended" /\ UNCHANGED machine /\ cmdAt(p, "release")
          \/ /\ State = "suspended" /\ kind = "stop" /\ cmdAt(p, "end")
             /\ m' = [m EXCEPT !.journal = "none", !.prov = "off"] /\ sock' = stopForward(FALSE)
          \/ /\ State = "stopped" /\ UNCHANGED machine
             /\ cmdAt(p, IF kind = "start" THEN "network" ELSE "end")
          \/ /\ State = "broken" /\ sock' = stopForward(FALSE)
             /\ m' = [hv |-> "off", prov |-> "off",
                      journal |-> IF m.journal = "saved" THEN "saved" ELSE "none"]
             /\ cmdAt(p, "dispatch")
          \/ State = "broken" /\ UNCHANGED machine /\ cmdAt(p, "end")
       /\ UNCHANGED <<sl, clientSide, daemon, lock, events>>

\* W1: the sleeper lets go of the SSH port for this process.  Without an
\* answer (no sleeper, or a lost reply) the command goes on.
releaseSleeperTCP(p) ==
    /\ \/ /\ cmd[p].pc = "release"
          /\ \/ running /\ ReleaseTCP(p) /\ (cmdAt(p, "port") \/ cmdAt(p, "network"))
             \/ ~running /\ UNCHANGED sl /\ cmdAt(p, "network")
       \/ /\ cmd[p].pc = "port" /\ UNCHANGED sl
          /\ cmdAt(p, IF portFree THEN "network" ELSE "end")
    /\ UNCHANGED <<machine, clientSide, daemon, lock, events>>

\* The provider needs the SSH port; a dead forward's leftovers go first.  A
\* wake that cannot have it parks the provider and keeps the saved state.
startProvider(p) ==
    /\ cmd[p].pc = "network"
    /\ \/ /\ \/ m.prov = "on" /\ UNCHANGED machine
             \/ portFree /\ m' = [m EXCEPT !.prov = "on"] /\ sock' = startedProvider
          /\ cmdAt(p, IF m.journal = "saved" THEN "resume" ELSE "boot")
          /\ UNCHANGED events
       \/ /\ m.prov # "on" /\ (IF portFree THEN happens ELSE UNCHANGED events)
          /\ IF m.journal = "saved" THEN Park
             ELSE m' = [m EXCEPT !.prov = "off"] /\ sock' = startedProvider
          /\ cmdAt(p, "end")
    /\ UNCHANGED <<sl, clientSide, daemon, lock>>

\* The saved state was rejected: it goes, and the machine boots from disk,
\* unless the restore was for a shutdown or the discarding fails.
reject(p) ==
    \/ /\ m' = [hv |-> "off", journal |-> "none", prov |-> "off"] /\ sock' = stopForward(TRUE)
       /\ cmdAt(p, IF cmd[p].kind = "stop" THEN "end" ELSE "network")
    \/ m' = [m EXCEPT !.hv = "off"] /\ UNCHANGED sock /\ cmdAt(p, "end")

\* A failed wake keeps the saved state and parks the provider.
wakeTransient(p) ==
    /\ m' = [m EXCEPT !.hv = "off", !.prov = "off"] /\ sock' = stopForward(TRUE)
    /\ cmdAt(p, "end")

\* W3 to W5: validated and launched, then loaded, the journal removed, and
\* continued; a guest that does not continue is left for recovery, or for the
\* shutdown it was restored for.
resume(p) ==
    /\ \/ /\ cmd[p].pc = "resume" /\ UNCHANGED <<sock, events>>
          /\ m' = [m EXCEPT !.hv = "on"] /\ cmdAt(p, "load")
       \/ /\ cmd[p].pc = "load" /\ m.hv = "on" /\ UNCHANGED <<sock, events>>
          /\ m' = [m EXCEPT !.journal = "none"]
          /\ IF cmd[p].kind = "stop" THEN cmdAt(p, "shutdown")
             ELSE cmdAt(p, "ssh") \/ cmdAt(p, "end")
       \/ /\ cmd[p].pc \in {"resume", "load"} /\ happens
          /\ reject(p) \/ wakeTransient(p)
       \/ cmd[p].pc = "load" /\ m.hv # "on" /\ wakeTransient(p) /\ UNCHANGED events
    /\ UNCHANGED <<sl, clientSide, daemon, lock>>

\* A cold boot: a hypervisor that does not start takes the provider down, a
\* resolver that does not start leaves it up.
boot(p) ==
    /\ cmd[p].pc = "boot"
    /\ \/ m' = [m EXCEPT !.hv = "on"] /\ UNCHANGED sock /\ cmdAt(p, "ssh")
       \/ StopProvider /\ cmdAt(p, "end")
       \/ UNCHANGED machine /\ cmdAt(p, "end")
    /\ UNCHANGED <<sl, clientSide, daemon, lock, events>>

\* W6 to W8: sshd must answer, then the forward comes back.
connect(p) ==
    /\ \/ cmd[p].pc = "ssh" /\ UNCHANGED sock /\ (cmdAt(p, "forward") \/ cmdAt(p, "end"))
       \/ \E to \in {"done", "failed", "launch", "rename", "ino"} :
            /\ startForward(cmd[p].pc, to)
            /\ cmdAt(p, CASE to = "done" -> "sleeper" [] to = "failed" -> "end" [] OTHER -> to)
    /\ UNCHANGED <<m, sl, clientSide, daemon, lock, events>>

\* W9 and W10: a machine without its sleeper gets one back, if it starts.
startSleeper(p) ==
    /\ cmd[p].pc = "sleeper" /\ cmdAt(p, "end")
    /\ IF running THEN UNCHANGED loop ELSE at("rest") \/ UNCHANGED loop
    /\ UNCHANGED <<machine, sl, clientSide, stoppedBefore, child, backoff, term, lock, events>>

stopMachine(p) ==
    /\ cmd[p].pc = "shutdown" /\ cmdAt(p, "end")
    /\ \/ m' = [m EXCEPT !.hv = "off", !.prov = "off"] /\ sock' = stopForward(FALSE)
       \/ UNCHANGED machine
    /\ UNCHANGED <<sl, clientSide, daemon, lock, events>>

endCommand(p) ==
    /\ cmd[p].pc = "end" /\ cmdAt(p, "off") /\ lock' = "free"
    /\ UNCHANGED <<machine, sl, clientSide, daemon, events>>

--------------------------------------------------------------------------
(* Clients, control requests and faults. *)

connectUnix(c) ==
    /\ c \notin held /\ sl.unix /\ happens
    /\ park(c, "unix")
    /\ wanted' = (wanted \/ (sus.pc \in Cancellable /\ ~full))
    /\ UNCHANGED <<machine, daemon, sus, cmd, lock>>

connectTCP(c) ==
    /\ c \notin held /\ sl.tcp = "listen" /\ happens
    /\ park(c, "tcp")
    /\ wanted' = (wanted \/ (sus.pc \in Cancellable /\ ~full))
    /\ UNCHANGED <<machine, daemon, sus, cmd, lock>>

timesOut(c) ==
    /\ c \in held /\ parkTimeout(c)
    /\ UNCHANGED <<machine, sl, wanted, daemon, sus, cmd, lock, events>>

\* A wrapper that found the journal asks for the engine.
abortSuspendInFlight ==
    /\ running /\ happens /\ Abort
    /\ wanted' = (wanted \/ sus.pc \in Cancellable)
    /\ UNCHANGED <<machine, conn, daemon, sus, cmd, lock>>

\* "jm suspend" starts the sleeper it needs, without the lock and on a state
\* it read any time before: the machine ran at first, so in any state now.
launchSleeper ==
    /\ ~running /\ happens /\ at("rest")
    /\ UNCHANGED <<machine, sl, clientSide, stoppedBefore, child, backoff, term, cmd, lock>>

killed(p) ==
    /\ Kills /\ alive(p) /\ happens /\ cmdAt(p, "off")
    /\ lock' = IF lock = p THEN "free" ELSE lock
    /\ UNCHANGED <<machine, sl, clientSide, daemon>>

sleeperKilled ==
    /\ Kills /\ running /\ happens /\ dead
    /\ lock' = IF lock = "suspend" THEN "free" ELSE lock
    /\ UNCHANGED <<m, wanted, cmd>>

\* A gvproxy that dies takes the ssh through it along.
dies ==
    /\ Deaths /\ happens
    /\ \/ m.hv = "on" /\ m' = [m EXCEPT !.hv = "stale"] /\ UNCHANGED sock
       \/ m.prov = "on" /\ m' = [m EXCEPT !.prov = "stale"] /\ sock' = [sock EXCEPT !.fwd = FALSE]
       \/ sock.fwd /\ sock' = [sock EXCEPT !.fwd = FALSE] /\ UNCHANGED m
    /\ UNCHANGED <<sl, clientSide, daemon, cmd, lock>>

--------------------------------------------------------------------------

Loop ==
    \/ evaluate \/ RelistenIfOwnerGone \/ giveUpUnservedSocket \/ observe
    \/ takeEndpoints \/ bindTCP \/ wakeForHeld \/ handOver \/ terminated \/ shutdown

Suspend ==
    \/ armAndLock \/ prepare \/ takeSocket \/ quiesce \/ CheckAndFreeze \/ commit
    \/ takeSSHPort \/ guestRunning \/ hypervisorDied \/ suspendEnds

Command(p) ==
    \/ takeLock(p) \/ stopSleeper(p) \/ recover(p) \/ dispatch(p)
    \/ releaseSleeperTCP(p) \/ startProvider(p) \/ resume(p) \/ boot(p)
    \/ connect(p) \/ startSleeper(p) \/ stopMachine(p) \/ endCommand(p)

Environment ==
    \/ runSuspend \/ abortSuspendInFlight \/ launchSleeper \/ sleeperKilled \/ dies
    \/ \E p \in Pids : killed(p) \/ \E kind \in {"start", "stop"} : invoke(p, kind)
    \/ \E c \in Clients : connectUnix(c) \/ connectTCP(c) \/ timesOut(c)

Next == Loop \/ backoffLapses \/ Suspend \/ Environment \/ \E p \in Pids : Command(p)

Spec == Init /\ [][Next]_vars

\* Goroutines and processes run, every wait in them has a deadline, and the
\* backoff lapses.  Nothing is assumed of clients, users or faults.
FairSpec ==
    /\ Spec
    /\ WF_vars(Loop) /\ WF_vars(backoffLapses) /\ WF_vars(Suspend)
    /\ \A p \in Pids : WF_vars(Command(p))

--------------------------------------------------------------------------
(* Properties. *)

\* ready: the guest can be used.
Usable == State = "running" /\ m.journal = "none"

\* The guest is never frozen behind the back of a client or a wrapper that
\* asked for it while the suspend could still be cancelled, and a client that
\* was turned away at a full queue cancels nothing.
ClientCancelsFreeze ==
    /\ sus.pc \in {"commit", "quit", "park", "tcp"} => ~wanted
    /\ sus.pc \in Cancellable /\ sl.aborted => wanted

\* The path of a live forward's socket is taken from it only by a suspend
\* (S6); the mode loop, a rollback and an exit leave it, whatever state they
\* read before.
ServedSocketStays ==
    [][forwardServes /\ ~forwardServes' => ~sock'.fwd \/ sus.pc = "take"]_vars

\* The SSH port that the sleeper released to a waker is not taken back in the
\* gap before that waker binds it.
PortLeftToWaker == \A p \in Pids : cmd[p].pc = "port" => sl.tcp # "listen"

\* While a suspend runs, the mode loop leaves the endpoints to it.
LoopLeavesEndpoints ==
    sus.pc \in {"quiesce", "stopForward", "aborted", "freeze", "commit", "quit", "park"} => sl.unix

\* A client never finds the path of a held engine socket missing: only the
\* stand-in removes its socket.
HeldSocketStays ==
    [][sock.path = "standin" /\ sock'.path = "none" => ~sl'.unix]_vars

\* A connection held for a suspended machine does not wait for its timeout:
\* once wakes stop failing, the machine wakes or the connection is closed.
HeldClientWakes ==
    \A c \in Clients :
        (c \in held /\ State = "suspended" /\ running)
            ~> (c \notin held \/ State # "suspended" \/ ~running)

\* A connection is not held on a machine whose engine serves again.
HeldClientServed ==
    \A c \in Clients :
        (c \in held /\ Usable /\ forwardServes /\ running)
            ~> (c \notin held \/ ~Usable \/ ~forwardServes \/ ~running)

\* The engine socket of a suspended machine that nobody serves is held again,
\* whoever lost it, so a client can wake the machine.
SuspendedIsHeld ==
    (State = "suspended" /\ nobodyServes /\ running)
        ~> (sock.path = "standin" \/ State # "suspended" \/ ~nobodyServes \/ ~running)

\* The stand-in does not keep the engine socket of a machine that runs.
RunningIsServed ==
    (Usable /\ sock.path = "standin") ~> ~(Usable /\ sock.path = "standin")
=============================================================================
