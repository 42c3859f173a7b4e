------------------------------ MODULE Sleeper ------------------------------
(***************************************************************************)
(* The sleeper daemon with its mode loop, control handlers and suspend,    *)
(* the wakers and the start and stop commands that work on the same        *)
(* machine, and the clients that connect to its endpoints.                 *)
(*                                                                         *)
(* Steps of the mode loop are split where another goroutine or a command   *)
(* answers quickly enough to get in between (the control handlers, which   *)
(* take no lock); a read and what is decided on it are one step where what *)
(* could invalidate it is a restore or a boot, which take seconds.         *)
(***************************************************************************)
EXTENDS Standin

CONSTANTS
    MaxEvents,   \* requests, connections and faults in a behaviour
    Kills,       \* jm processes may be killed
    Deaths       \* the hypervisor, the provider and the forward may die

ASSUME SleeperAssumption ==
    /\ MaxEvents \in Nat /\ Kills \in BOOLEAN /\ Deaths \in BOOLEAN
    /\ Pids \cap {"suspend", "free"} = {}

VARIABLES
    loop,    \* the mode loop: position and the state it read
    stoppedBefore, child, backoff, term,
    sus,     \* the suspend that runs in the sleeper: position, forwardStopped
    cmd,     \* per process: the command it runs and its position
    lock,    \* who holds the machine lock
    events   \* events left

machine == <<m, sock>>
daemon == <<loop, stoppedBefore, child, backoff, term>>
vars == <<m, sock, sl, conn, wanted, loop, stoppedBefore, child, backoff, term,
          sus, cmd, lock, events>>

LoopPositions == {"rest", "relisten", "rebindTCP", "giveUp", "observe",
                  "takeTCP", "bindTCP", "wakeForHeld", "handOver", "exit", "gone"}

SuspendPositions == {"none", "arm", "lock", "check", "prepare", "take", "quiesce",
    "stopForward", "aborted", "freeze", "commit", "quit", "park", "tcp", "cancel",
    "restore", "forward", "launch", "rename", "ino", "handOver", "died", "end"}

CommandPositions == {"off", "lock", "stopSleeper", "recover", "dispatch", "release",
    "port", "network", "resume", "load", "boot", "ssh", "forward", "launch",
    "rename", "ino", "sleeper", "shutdown", "end"}

\* Requests, connections and failures that could repeat forever are bounded.
happens == events > 0 /\ events' = events - 1

alive(p) == p # Nobody /\ cmd[p].pc # "off"
running == loop.pc # "gone"
suspending == sus.pc # "none"
\* Mutant: a waker on record counts as alive.
wakerAliveRecorded == child # Nobody \/ sl.to # Nobody

wakerAlive == alive(child) \/ alive(sl.to)

\* A pid is not recycled while the sleeper remembers it.
freePids == {p \in Pids : ~alive(p) /\ p # child /\ p # sl.to}

TypeOK ==
    /\ m \in Machines /\ sock \in Sockets /\ sl \in Standins
    /\ conn \in [Clients -> Outcomes] /\ wanted \in BOOLEAN
    /\ loop \in [pc: LoopPositions, st: {"running", "suspended", "stopped", "broken"},
                 journal: BOOLEAN]
    /\ stoppedBefore \in BOOLEAN /\ backoff \in BOOLEAN /\ term \in BOOLEAN
    /\ child \in Pids \cup {Nobody}
    /\ sus \in [pc: SuspendPositions, stopped: BOOLEAN]
    /\ cmd \in [Pids -> [kind: {"start", "wake", "stop"}, pc: CommandPositions]]
    /\ lock \in Pids \cup {"suspend", "free"}
    /\ events \in 0..MaxEvents

Init ==
    /\ m = [hv |-> "on", journal |-> "none", prov |-> "on"]
    /\ sock = [path |-> "fwd", fwd |-> TRUE, ino |-> TRUE]
    /\ sl = NewStandin
    /\ conn = [c \in Clients |-> "out"] /\ wanted = FALSE
    /\ loop = [pc |-> "rest", st |-> "running", journal |-> FALSE]
    /\ stoppedBefore = FALSE /\ child = Nobody /\ backoff = FALSE /\ term = FALSE
    /\ sus = [pc |-> "none", stopped |-> FALSE]
    /\ cmd = [p \in Pids |-> [kind |-> "start", pc |-> "off"]]
    /\ lock = "free" /\ events = MaxEvents

--------------------------------------------------------------------------
(* The mode loop. *)

at(pc) == loop' = [loop EXCEPT !.pc = pc]

\* evaluate reads the state and the journal.  A waker that left the machine
\* suspended closes the held connections and starts the backoff.
evaluate ==
    /\ loop.pc = "rest" /\ ~term /\ ~suspending
    /\ loop' = [pc |-> CASE State = "suspended" -> "relisten"
                         [] State = "running" -> "giveUp"
                         [] OTHER -> "observe",
                st |-> State, journal |-> m.journal # "none"]
    /\ LET reaped == child # Nobody /\ ~alive(child)
       IN /\ child' = IF reaped THEN Nobody ELSE child
          /\ IF reaped /\ State = "suspended"
             THEN CloseHeld /\ backoff' = TRUE
             ELSE UNCHANGED <<conn, backoff>>
    /\ UNCHANGED <<machine, sl, wanted, stoppedBefore, term, sus, cmd, lock, events>>

\* RelistenIfOwnerGone: the port is bound after the owner was found dead.
RelistenIfOwnerGone ==
    /\ loop.pc = "relisten"
    /\ at(IF sl.tcp = "released" /\ sl.to # Nobody /\ ~alive(sl.to) THEN "rebindTCP" ELSE "observe")
    /\ UNCHANGED <<machine, sl, conn, wanted, stoppedBefore, child, backoff, term,
                   sus, cmd, lock, events>>

giveUpUnservedSocket ==
    /\ loop.pc = "giveUp" /\ at("observe")
    /\ IF /\ ~loop.journal /\ ~wakerAlive /\ lock = "free"
          /\ m.journal = "none" /\ UnixIsOurs /\ State = "running"
       THEN CloseUnix
       ELSE UNCHANGED <<sl, sock>>
    /\ UNCHANGED <<m, conn, wanted, stoppedBefore, child, backoff, term, sus, cmd, lock, events>>

\* Mutant: a suspended machine is held only if its endpoints already are.
DecideHeldOnly(stopped, busy, back) ==
    IF stopped /\ stoppedBefore /\ ~busy THEN "exit"
    ELSE IF Holding /\ ~loop.journal /\ loop.st = "running" /\ back THEN "hand-over"
    ELSE IF Holding THEN "hold"
    ELSE "monitor"

\* The mode table.
Decide(stopped, busy, back) ==
    IF stopped /\ stoppedBefore /\ ~busy THEN "exit"
    ELSE IF Holding /\ ~loop.journal /\ loop.st = "running" /\ back THEN "hand-over"
    ELSE IF Holding \/ loop.st \in {"suspended", "broken"} THEN "hold"
    ELSE "monitor"

\* On a suspended machine nobody serves, the engine socket is taken as soon
\* as the mode is known.
observe ==
    /\ loop.pc = "observe"
    /\ LET stopped == loop.st = "stopped" /\ ~loop.journal
           busy == wakerAlive \/ lock # "free"
           mode == Decide(stopped, busy, EndpointsBack)
           take == mode = "hold" /\ loop.st = "suspended"
       IN /\ stoppedBefore' = stopped
          /\ at(CASE mode = "exit" -> "exit"
                  [] mode = "hand-over" -> "handOver"
                  [] take -> IF nobodyServes THEN "takeTCP" ELSE "wakeForHeld"
                  [] OTHER -> "rest")
          /\ IF take /\ nobodyServes /\ ~UnixIsOurs
             THEN \/ takeUnix(FALSE) /\ UNCHANGED events
                  \/ happens /\ UNCHANGED <<sl, sock>>
             ELSE UNCHANGED <<sl, sock, events>>
    /\ UNCHANGED <<m, conn, wanted, child, backoff, term, sus, cmd, lock>>

takeEndpoints ==
    /\ loop.pc = "takeTCP"
    /\ at(IF sl.tcp = "listen" \/ alive(sl.to) THEN "wakeForHeld" ELSE "bindTCP")
    /\ UNCHANGED <<machine, sl, conn, wanted, stoppedBefore, child, backoff, term,
                   sus, cmd, lock, events>>

bindTCP ==
    /\ loop.pc \in {"rebindTCP", "bindTCP"} /\ TakeTCP
    /\ at(IF loop.pc = "rebindTCP" THEN "observe" ELSE "wakeForHeld")
    /\ UNCHANGED <<machine, conn, wanted, stoppedBefore, child, backoff, term,
                   sus, cmd, lock, events>>

\* Ensure: one child at a time, none while backing off; a failed spawn backs
\* off too.
wakeForHeld ==
    /\ loop.pc = "wakeForHeld" /\ at("rest")
    /\ IF held = {} \/ alive(child) \/ backoff \/ freePids = {}
       THEN UNCHANGED <<child, backoff, cmd, events>>
       ELSE \/ \E p \in freePids :
                 /\ child' = p
                 /\ cmd' = [cmd EXCEPT ![p] = [kind |-> "wake", pc |-> "lock"]]
                 /\ UNCHANGED <<backoff, events>>
            \/ happens /\ backoff' = TRUE /\ UNCHANGED <<child, cmd>>
    /\ UNCHANGED <<machine, sl, conn, wanted, stoppedBefore, term, sus, lock>>

\* Mutant: a backoff lapses only while a child is on record.
backoffLapsesForAChild ==
    /\ running /\ backoff /\ child # Nobody /\ backoff' = FALSE
    /\ UNCHANGED <<machine, sl, conn, wanted, loop, stoppedBefore, child, term,
                   sus, cmd, lock, events>>

backoffLapses ==
    /\ running /\ backoff /\ backoff' = FALSE
    /\ UNCHANGED <<machine, sl, conn, wanted, loop, stoppedBefore, child, term,
                   sus, cmd, lock, events>>

handOver ==
    /\ loop.pc = "handOver" /\ HandOver(sl) /\ at("rest")
    /\ UNCHANGED <<m, wanted, stoppedBefore, child, backoff, term, sus, cmd, lock, events>>

terminated ==
    /\ loop.pc = "rest" /\ term /\ at("exit")
    /\ UNCHANGED <<machine, sl, conn, wanted, stoppedBefore, child, backoff, term,
                   sus, cmd, lock, events>>

\* What is left of a sleeper that has exited.
Gone ==
    /\ at("gone")
    /\ sl' = NewStandin /\ CloseHeld
    /\ stoppedBefore' = FALSE /\ child' = Nobody /\ backoff' = FALSE /\ term' = FALSE

\* The loop has returned: the suspend in flight ends first, then the
\* stand-in closes and unlinks what is its own.
shutdown ==
    /\ loop.pc = "exit" /\ ~suspending
    /\ Gone /\ unlinkOurs
    /\ UNCHANGED <<m, wanted, sus, cmd, lock, events>>

--------------------------------------------------------------------------
(* The suspend that runs in the sleeper. *)

susAt(pc) == sus' = [sus EXCEPT !.pc = pc]

\* Positions from which an arriving client still cancels the suspend.
Cancellable == {"lock", "check", "prepare", "take", "quiesce", "stopForward",
                "aborted", "freeze"}

\* runSuspend, for "jm suspend" or the idle monitor: one at a time.
runSuspend ==
    /\ running /\ loop.pc # "exit" /\ ~suspending /\ happens
    /\ child' = Nobody
    /\ sus' = [pc |-> "arm", stopped |-> FALSE]
    /\ UNCHANGED <<machine, sl, conn, wanted, loop, stoppedBefore, backoff, term, cmd, lock>>

armAndLock ==
    /\ \/ /\ sus.pc = "arm" /\ Arm /\ wanted' = FALSE
          /\ susAt("lock") /\ UNCHANGED lock
       \/ sus.pc = "arm" /\ susAt("end") /\ UNCHANGED <<sl, wanted, lock>>
       \/ /\ sus.pc = "lock" /\ UNCHANGED <<sl, wanted>>
          /\ \/ lock = "free" /\ lock' = "suspend" /\ susAt("check")
             \/ lock # "free" /\ UNCHANGED lock /\ susAt("end")
    /\ UNCHANGED <<machine, conn, daemon, cmd, events>>

\* The recovery table, with the provider parked where no guest is left
\* running; a valid saved state stays valid.
Recover ==
    \/ m.journal = "none" /\ UNCHANGED machine
    \/ m.journal = "saving" /\ m.hv = "on"
       /\ m' = [m EXCEPT !.journal = "none"] /\ UNCHANGED sock
    \/ m.journal = "saving" /\ m.hv # "on"
       /\ m' = [hv |-> "off", journal |-> "none", prov |-> "off"] /\ sock' = stopForward(TRUE)
    \/ m.journal = "saved"
       /\ m' = [hv |-> "off", journal |-> "saved", prov |-> "off"] /\ sock' = stopForward(TRUE)

\* S1 to S4: recovery, the checks under the lock, and the journal.
prepare ==
    /\ \/ sus.pc = "check" /\ Recover /\ susAt("prepare")
       \/ /\ sus.pc = "prepare" /\ State = "running" /\ m.journal = "none" /\ ~sl.aborted
          /\ m' = [m EXCEPT !.journal = "saving"] /\ UNCHANGED sock
          /\ susAt("take")
       \/ sus.pc \in {"check", "prepare"} /\ UNCHANGED machine /\ susAt("end")
    /\ UNCHANGED <<sl, conn, wanted, daemon, cmd, lock, events>>

\* S6: the engine socket, with the forward's own kept aside.
takeSocket ==
    /\ sus.pc = "take"
    /\ \/ takeUnix(TRUE) /\ susAt("quiesce")
       \/ UNCHANGED <<sl, sock>> /\ susAt("cancel")
    /\ UNCHANGED <<m, conn, wanted, daemon, cmd, lock, events>>

\* S7 to S9: an abort so far, or a guest that is busy, cancels.
quiesce ==
    /\ \/ /\ sus.pc = "quiesce" /\ UNCHANGED <<sl, sock>>
          /\ \/ ~sl.aborted /\ susAt("stopForward")
             \/ susAt("cancel")
       \/ /\ sus.pc = "stopForward"
          /\ \/ /\ sock' = stopForward(TRUE) /\ DropPrevious
                /\ sus' = [pc |-> "aborted", stopped |-> TRUE]
             \/ UNCHANGED <<sl, sock>> /\ susAt("cancel")
       \/ /\ sus.pc = "aborted" /\ UNCHANGED <<sl, sock>>
          /\ susAt(IF sl.aborted THEN "cancel" ELSE "freeze")
    /\ UNCHANGED <<m, conn, wanted, daemon, cmd, lock, events>>

\* Mutant: the abort flag is not looked at again before the freeze.
CheckAndFreezeUnchecked ==
    /\ sus.pc = "freeze"
    /\ \/ m.hv = "on" /\ sl' = Disarmed(sl) /\ susAt("commit")
       \/ m.hv = "on" /\ UNCHANGED sl /\ susAt("cancel")
       \/ m.hv # "on" /\ UNCHANGED sl /\ susAt("died")
    /\ UNCHANGED <<machine, conn, wanted, daemon, cmd, lock, events>>

\* S11: the check and the disarming are one step.
CheckAndFreeze ==
    /\ sus.pc = "freeze"
    /\ \/ /\ m.hv = "on" /\ ~sl.aborted
          /\ sl' = Disarmed(sl) /\ susAt("commit")
       \/ /\ m.hv = "on" /\ UNCHANGED sl /\ susAt("cancel")
       \/ /\ m.hv # "on" /\ UNCHANGED sl /\ susAt("died")
    /\ UNCHANGED <<machine, conn, wanted, daemon, cmd, lock, events>>

\* S12 to S16: saved and ended, put back after a failed save, or dead.  A
\* hypervisor that outlives its quit is left to recovery.
commit ==
    /\ \/ /\ sus.pc = "commit" /\ m.hv = "on" /\ UNCHANGED sock
          /\ \/ m' = [m EXCEPT !.journal = "saved"] /\ susAt("quit")
             \/ UNCHANGED m /\ susAt("cancel")
             \/ UNCHANGED m /\ susAt("end")
       \/ sus.pc = "commit" /\ m.hv # "on" /\ UNCHANGED machine /\ susAt("died")
       \/ /\ sus.pc = "quit" /\ susAt("park") /\ UNCHANGED sock
          /\ m' = [m EXCEPT !.hv = "off"] \/ UNCHANGED m
       \/ sus.pc = "park" /\ (Park \/ UNCHANGED machine) /\ susAt("tcp")
    /\ UNCHANGED <<sl, conn, wanted, daemon, cmd, lock, events>>

takeSSHPort ==
    /\ sus.pc = "tcp" /\ TakeTCP /\ susAt("end")
    /\ UNCHANGED <<machine, conn, wanted, daemon, cmd, lock, events>>

\* startForward as steps from one position to the next: a forward that serves
\* the socket it bound stays; any other is stopped and a new one launched,
\* whose socket is renamed over the path and its inode recorded.
startForward(from, to) ==
    \/ /\ from = "forward" /\ to = "done" /\ m.prov = "on"
       /\ forwardServes /\ sock.ino /\ UNCHANGED sock
    \/ /\ from = "forward" /\ to = "launch" /\ m.prov = "on"
       /\ ~(forwardServes /\ sock.ino) /\ sock' = stopForward(FALSE)
    \/ from = "launch" /\ to = "rename" /\ sock' = [sock EXCEPT !.fwd = TRUE]
    \/ from = "rename" /\ to = "ino" /\ sock.fwd /\ sock' = [sock EXCEPT !.path = "fwd"]
    \/ from = "ino" /\ to = "done" /\ sock' = [sock EXCEPT !.ino = TRUE]
    \/ from \in {"forward", "launch", "ino"} /\ to = "failed" /\ UNCHANGED sock
    \/ from = "rename" /\ to = "failed" /\ sock' = [sock EXCEPT !.fwd = FALSE]

\* guestRunning (R-A): the journal goes, the forward comes back over the
\* stand-in's socket, and the parked connections are relayed to it.
guestRunning ==
    /\ \/ /\ sus.pc = "cancel" /\ UNCHANGED <<sl, sock, conn>>
          /\ \/ m' = [m EXCEPT !.journal = "none"] /\ susAt("restore")
             \/ UNCHANGED m /\ susAt("end")
       \/ /\ sus.pc = "restore" /\ susAt("forward") /\ UNCHANGED <<m, conn>>
          /\ IF sus.stopped THEN UNCHANGED <<sl, sock>> ELSE RestorePrevious
       \/ /\ UNCHANGED <<m, sl, conn>>
          /\ \E to \in {"done", "failed", "launch", "rename", "ino"} :
               /\ startForward(sus.pc, to)
               /\ susAt(IF to \in {"done", "failed"} THEN "handOver" ELSE to)
       \/ sus.pc = "handOver" /\ HandOver(Disarmed(sl)) /\ susAt("end") /\ UNCHANGED m
    /\ UNCHANGED <<wanted, daemon, cmd, lock, events>>

\* R-C: nothing will wake a stopped machine for the parked connections.  The
\* journal and the provider stay where discarding or parking fails.
hypervisorDied ==
    /\ sus.pc = "died" /\ susAt("end")
    /\ \E journal \in {"none", m.journal}, prov \in {"off", m.prov} :
         /\ m' = [m EXCEPT !.journal = journal, !.prov = prov]
         /\ sock' = stopForward(TRUE) \/ (prov = m.prov /\ UNCHANGED sock)
    /\ sl' = Disarmed(sl) /\ CloseHeld
    /\ UNCHANGED <<wanted, daemon, cmd, lock, events>>

suspendEnds ==
    /\ sus.pc = "end" /\ susAt("none")
    /\ sl' = Disarmed(sl)
    /\ lock' = IF lock = "suspend" THEN "free" ELSE lock
    /\ UNCHANGED <<machine, conn, wanted, daemon, cmd, events>>
=============================================================================
