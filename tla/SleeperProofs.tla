--------------------------- MODULE SleeperProofs ---------------------------
(***************************************************************************)
(* A suspend never freezes the guest behind a client that arrived while it *)
(* could still be cancelled, and only a suspend takes the engine socket    *)
(* from a forward that serves it, for any number of clients, commands,     *)
(* held connections, failures and kills.                                   *)
(***************************************************************************)
EXTENDS SleeperSystem, TLAPS

\* The suspend and the stand-in's fields have their types.
WindowTypes ==
    /\ sl \in Standins
    /\ sus \in [pc: SuspendPositions, stopped: BOOLEAN]
    /\ wanted \in BOOLEAN

\* The window is open from the arming to the freeze, and whatever arrived in
\* it is on record in the abort flag.
WindowIsArmed == sus.pc \in Cancellable => sl.armed

ArrivalIsRecorded == sus.pc \in Cancellable => (sl.aborted <=> wanted)

CancelInv == WindowTypes /\ WindowIsArmed /\ ArrivalIsRecorded /\ ClientCancelsFreeze

\* A new sleeper's stand-in is disarmed and holds nothing.
LEMMA NewStandinIsTyped == NewStandin \in Standins
  BY DEF NewStandin, Standins

\* Outside the window the flags of the stand-in do not matter.
LEMMA OutsideWindow ==
    ASSUME sl' \in Standins, wanted' \in BOOLEAN,
           sus' \in [pc: SuspendPositions, stopped: BOOLEAN],
           sus'.pc \in {"none", "arm", "cancel", "restore", "forward", "launch", "rename",
                       "ino", "handOver", "died", "end"}
    PROVE  CancelInv'
  BY DEF CancelInv, WindowTypes, WindowIsArmed, ArrivalIsRecorded, ClientCancelsFreeze, Cancellable

\* The window opens in Arm, with no arrival on record.
LEMMA CancelInit == Init => CancelInv
<1> SUFFICES ASSUME Init PROVE CancelInv
  OBVIOUS
<1>1. sl \in Standins
  BY NewStandinIsTyped DEF Init
<1>2. /\ sus \in [pc: SuspendPositions, stopped: BOOLEAN]
      /\ wanted = FALSE /\ sus.pc = "none"
  BY DEF Init, SuspendPositions
<1> QED
  BY <1>1, <1>2 DEF CancelInv, WindowTypes, WindowIsArmed, ArrivalIsRecorded,
     ClientCancelsFreeze, Cancellable

\* A step that leaves the suspend and the two flags alone keeps the window.
LEMMA WindowFrame ==
    ASSUME CancelInv, UNCHANGED <<sus, wanted>>, sl' \in Standins,
           sl'.armed = sl.armed, sl'.aborted = sl.aborted
    PROVE  CancelInv'
  BY DEF CancelInv, WindowTypes, WindowIsArmed, ArrivalIsRecorded, ClientCancelsFreeze

\* The flags of the stand-in stay.
FlagsStay == sl' \in Standins /\ sl'.armed = sl.armed /\ sl'.aborted = sl.aborted

\* Taking, releasing and closing an endpoint leaves the two flags alone.
LEMMA EndpointsKeepFlags ==
    ASSUME sl \in Standins
    PROVE  /\ \A keep \in BOOLEAN : takeUnix(keep) => FlagsStay
           /\ TakeTCP => FlagsStay
           /\ CloseUnix => FlagsStay
           /\ HandOver(sl) => FlagsStay
           /\ \A p \in Pids : ReleaseTCP(p) => FlagsStay
<1> USE StandinAssumption DEF FlagsStay, Standins
<1>1. ASSUME NEW keep \in BOOLEAN, takeUnix(keep)
      PROVE  FlagsStay
  <2>1. PICK b \in BOOLEAN : sl' = [sl EXCEPT !.unix = TRUE, !.aside = b]
    BY <1>1 DEF takeUnix
  <2>2. sl' \in Standins
    BY <2>1
  <2>3. sl'.armed = sl.armed /\ sl'.aborted = sl.aborted
    BY <2>1
  <2> QED BY <2>2, <2>3
<1>2. ASSUME TakeTCP
      PROVE  FlagsStay
  <2>1. sl' = [sl EXCEPT !.tcp = "listen", !.to = Nobody] \/ sl' = sl
    BY <1>2 DEF TakeTCP
  <2>2. [sl EXCEPT !.tcp = "listen", !.to = Nobody] \in Standins
    BY DEF Standins
  <2>3. [sl EXCEPT !.tcp = "listen", !.to = Nobody].armed = sl.armed
    OBVIOUS
  <2>4. [sl EXCEPT !.tcp = "listen", !.to = Nobody].aborted = sl.aborted
    OBVIOUS
  <2> QED BY <2>1, <2>2, <2>3, <2>4
<1>3. CloseUnix => FlagsStay
  BY DEF CloseUnix
<1>4. ASSUME HandOver(sl)
      PROVE  FlagsStay
  <2>1. sl' = [sl EXCEPT !.unix = FALSE, !.aside = FALSE, !.tcp = "none", !.to = Nobody]
    BY <1>4 DEF HandOver
  <2>2. sl' \in Standins
    BY <2>1
  <2>3. sl'.armed = sl.armed /\ sl'.aborted = sl.aborted
    BY <2>1
  <2> QED BY <2>2, <2>3
<1>5. ASSUME NEW p \in Pids, ReleaseTCP(p)
      PROVE  FlagsStay
  BY <1>5 DEF ReleaseTCP
<1> QED BY <1>1, <1>2, <1>3, <1>4, <1>5

\* The mode loop takes and gives up endpoints, never the flags of a suspend
\* in flight.
LEMMA LoopKeepsWindow == CancelInv /\ (Loop \/ backoffLapses) => CancelInv'
<1> SUFFICES ASSUME CancelInv, Loop \/ backoffLapses PROVE CancelInv'
  OBVIOUS
<1> USE StandinAssumption DEF CancelInv, WindowTypes
<1>1. CASE evaluate \/ RelistenIfOwnerGone \/ takeEndpoints \/ wakeForHeld
           \/ terminated \/ backoffLapses
  BY <1>1, WindowFrame DEF evaluate, RelistenIfOwnerGone, takeEndpoints, wakeForHeld,
     terminated, backoffLapses
<1>2. CASE giveUpUnservedSocket
  <2>1. UNCHANGED <<sus, wanted>> /\ (CloseUnix \/ UNCHANGED sl)
    BY <1>2 DEF giveUpUnservedSocket
  <2>2. FlagsStay
    BY <2>1, EndpointsKeepFlags DEF FlagsStay
  <2> QED BY <2>1, <2>2, WindowFrame DEF FlagsStay
<1>3. CASE observe
  <2>1. UNCHANGED <<sus, wanted>> /\ (takeUnix(FALSE) \/ UNCHANGED sl)
    BY <1>3 DEF observe
  <2>2. FlagsStay
    BY <2>1, EndpointsKeepFlags DEF FlagsStay
  <2> QED BY <2>1, <2>2, WindowFrame DEF FlagsStay
<1>4. CASE bindTCP
  <2>1. UNCHANGED <<sus, wanted>> /\ (TakeTCP \/ UNCHANGED sl)
    BY <1>4 DEF bindTCP
  <2>2. FlagsStay
    BY <2>1, EndpointsKeepFlags DEF FlagsStay
  <2> QED BY <2>1, <2>2, WindowFrame DEF FlagsStay
<1>5. CASE handOver
  <2>1. UNCHANGED <<sus, wanted>> /\ (HandOver(sl) \/ UNCHANGED sl)
    BY <1>5 DEF handOver
  <2>2. FlagsStay
    BY <2>1, EndpointsKeepFlags DEF FlagsStay
  <2> QED BY <2>1, <2>2, WindowFrame DEF FlagsStay
<1>6. CASE shutdown
  BY <1>6, OutsideWindow, NewStandinIsTyped DEF shutdown, suspending, Gone
<1> QED
  BY <1>1, <1>2, <1>3, <1>4, <1>5, <1>6 DEF Loop

\* The suspend opens the window, leaves it only by a cancellation or by the
\* check that found no arrival, and never opens it again.
LEMMA SuspendKeepsWindow == CancelInv /\ Suspend => CancelInv'
<1> SUFFICES ASSUME CancelInv, Suspend PROVE CancelInv'
  OBVIOUS
<1> USE StandinAssumption
    DEF CancelInv, WindowTypes, WindowIsArmed, ArrivalIsRecorded, ClientCancelsFreeze,
        susAt, SuspendPositions, Cancellable
<1>1. CASE armAndLock
  <2>1. CASE sus.pc = "arm" /\ Arm /\ wanted' = FALSE /\ susAt("lock")
    <3>1. sl' \in Standins /\ sl'.armed /\ sl'.aborted = FALSE
      BY <2>1 DEF Arm, Standins
    <3> QED
      BY <2>1, <3>1
  <2>2. CASE /\ UNCHANGED <<sl, wanted>>
             /\ susAt("end") \/ (sus.pc = "lock" /\ susAt("check"))
    BY <2>2
  <2> QED
    BY <1>1, <2>1, <2>2 DEF armAndLock
<1>2. CASE prepare
  BY <1>2 DEF prepare
<1>3. CASE takeSocket
  <2>1. takeUnix(TRUE) \/ UNCHANGED sl
    BY <1>3 DEF takeSocket
  <2>2. FlagsStay
    BY <2>1, EndpointsKeepFlags DEF FlagsStay
  <2> QED BY <1>3, <2>2 DEF takeSocket, FlagsStay
<1>4. CASE quiesce
  <2>1. sl' \in Standins /\ sl'.armed = sl.armed /\ sl'.aborted = sl.aborted
    BY <1>4 DEF quiesce, DropPrevious, Standins
  <2>2. /\ wanted' = wanted /\ sus.pc \in Cancellable
        /\ sus'.pc \in {"stopForward", "aborted", "freeze", "cancel"}
        /\ sus' \in [pc: SuspendPositions, stopped: BOOLEAN]
    <3>1. CASE sus' = [pc |-> "aborted", stopped |-> TRUE]
      BY <1>4, <3>1 DEF quiesce
    <3>2. CASE \E pc \in {"stopForward", "freeze", "cancel"} : susAt(pc)
      BY <1>4, <3>2 DEF quiesce
    <3>3. CASE sus.pc = "quiesce"
      BY <1>4, <3>2, <3>3 DEF quiesce
    <3>4. CASE sus.pc = "stopForward"
      BY <1>4, <3>1, <3>2, <3>4 DEF quiesce
    <3>5. CASE sus.pc = "aborted"
      BY <1>4, <3>2, <3>5 DEF quiesce
    <3> QED
      BY <1>4, <3>3, <3>4, <3>5 DEF quiesce
  <2> QED
    BY <2>1, <2>2
<1>5. CASE CheckAndFreeze
  <2>1. Disarmed(sl) \in Standins
    BY DEF Disarmed, Standins
  <2> QED BY <1>5, <2>1 DEF CheckAndFreeze
<1>6. CASE commit
  BY <1>6 DEF commit
<1>7. CASE takeSSHPort
  <2>1. FlagsStay
    BY <1>7, EndpointsKeepFlags DEF takeSSHPort, FlagsStay
  <2> QED BY <1>7, <2>1 DEF takeSSHPort, FlagsStay
<1>8. CASE guestRunning
  <2>1. sl' \in Standins
    <3>1. CASE RestorePrevious \/ UNCHANGED sl
      <4>1. sl' = [sl EXCEPT !.aside = FALSE] \/ sl' = sl
        BY <3>1 DEF RestorePrevious
      <4>2. [sl EXCEPT !.aside = FALSE] \in Standins
        BY DEF Standins
      <4> QED BY <4>1, <4>2
    <3>2. CASE HandOver(Disarmed(sl))
      <4>1. Disarmed(sl) \in Standins
        BY DEF Disarmed, Standins
      <4> QED BY <3>2, <4>1 DEF HandOver, Standins
    <3> QED
      BY <1>8, <3>1, <3>2 DEF guestRunning
  <2>2. /\ wanted' = wanted
        /\ sus'.pc \in {"restore", "forward", "launch", "rename", "ino", "handOver", "end"}
        /\ sus' \in [pc: SuspendPositions, stopped: BOOLEAN]
    BY <1>8 DEF guestRunning
  <2> QED
    BY <2>1, <2>2, OutsideWindow
<1>9. CASE hypervisorDied
  <2>1. sl' \in Standins
    BY <1>9 DEF hypervisorDied, Disarmed, Standins
  <2> QED BY <1>9, <2>1, OutsideWindow DEF hypervisorDied
<1>10. CASE suspendEnds
  BY <1>10 DEF suspendEnds, Disarmed, Standins
<1> QED
  BY <1>1, <1>2, <1>3, <1>4, <1>5, <1>6, <1>7, <1>8, <1>9, <1>10 DEF Suspend

\* Commands reach the stand-in only to release the SSH port.
LEMMA CommandKeepsWindow ==
    ASSUME NEW p \in Pids, CancelInv, Command(p) PROVE CancelInv'
<1> USE StandinAssumption DEF CancelInv, WindowTypes, clientSide
<1>1. CASE takeLock(p) \/ recover(p) \/ dispatch(p) \/ startProvider(p) \/ resume(p)
           \/ boot(p) \/ connect(p) \/ startSleeper(p) \/ stopMachine(p) \/ endCommand(p)
  BY <1>1, WindowFrame DEF takeLock, recover, dispatch, startProvider, resume, boot,
     connect, startSleeper, stopMachine, endCommand
<1>2. CASE stopSleeper(p)
  <2>1. CASE dead /\ wanted' = wanted
    BY <2>1, OutsideWindow, NewStandinIsTyped DEF dead, Gone, SuspendPositions
  <2>2. CASE UNCHANGED <<sl, sus, wanted>>
    BY <2>2, WindowFrame
  <2> QED
    BY <1>2, <2>1, <2>2 DEF stopSleeper
<1>3. CASE releaseSleeperTCP(p)
  <2>1. UNCHANGED <<sus, wanted>> /\ (ReleaseTCP(p) \/ UNCHANGED sl)
    BY <1>3 DEF releaseSleeperTCP
  <2>2. FlagsStay
    BY <2>1, EndpointsKeepFlags DEF FlagsStay
  <2> QED BY <2>1, <2>2, WindowFrame DEF FlagsStay
<1> QED
  BY <1>1, <1>2, <1>3 DEF Command

\* An arrival in the window sets the abort flag in the step that parks it.
LEMMA EnvironmentKeepsWindow == CancelInv /\ Environment => CancelInv'
<1> SUFFICES ASSUME CancelInv, Environment PROVE CancelInv'
  OBVIOUS
<1> USE StandinAssumption DEF CancelInv, WindowTypes
<1>1. CASE runSuspend
  BY <1>1 DEF runSuspend, suspending, WindowIsArmed, ArrivalIsRecorded, ClientCancelsFreeze,
     SuspendPositions, Cancellable
<1>2. CASE abortSuspendInFlight
  BY <1>2 DEF abortSuspendInFlight, Abort, Standins, WindowIsArmed, ArrivalIsRecorded,
     ClientCancelsFreeze, Cancellable
<1>3. CASE launchSleeper \/ dies
  BY <1>3, WindowFrame DEF launchSleeper, dies, clientSide
<1>4. CASE sleeperKilled
  BY <1>4, OutsideWindow, NewStandinIsTyped DEF sleeperKilled, dead, Gone, SuspendPositions
<1>5. CASE \E p \in Pids : killed(p) \/ \E kind \in {"start", "stop"} : invoke(p, kind)
  BY <1>5, WindowFrame DEF killed, invoke, clientSide
<1>6. ASSUME NEW c \in Clients, connectUnix(c) \/ connectTCP(c) PROVE CancelInv'
  <2>1. sus' = sus /\ wanted' = (wanted \/ (sus.pc \in Cancellable /\ ~full))
    BY <1>6 DEF connectUnix, connectTCP
  <2>2. IF full THEN UNCHANGED sl ELSE Abort
    BY <1>6 DEF connectUnix, connectTCP, park
  <2>3. Abort => /\ sl' \in Standins
                 /\ sl'.armed = sl.armed
                 /\ sl'.aborted = (sl.aborted \/ sl.armed)
    <3> SUFFICES ASSUME Abort
                 PROVE  /\ sl' \in Standins
                        /\ sl'.armed = sl.armed
                        /\ sl'.aborted = (sl.aborted \/ sl.armed)
      OBVIOUS
    <3>1. sl' = [sl EXCEPT !.aborted = sl.aborted \/ sl.armed]
      BY DEF Abort
    <3>2. (sl.aborted \/ sl.armed) \in BOOLEAN
      BY DEF Standins
    <3> QED
      BY <3>1, <3>2 DEF Standins
  <2>4. CASE full
    <3>1. UNCHANGED sl
      BY <2>2, <2>4
    <3> QED
      BY <2>1, <2>4, <3>1 DEF WindowIsArmed, ArrivalIsRecorded, ClientCancelsFreeze
  <2>5. CASE ~full
    BY <2>1, <2>2, <2>3, <2>5 DEF WindowIsArmed, ArrivalIsRecorded, ClientCancelsFreeze,
       Cancellable
  <2> QED
    BY <2>4, <2>5
<1>7. ASSUME NEW c \in Clients, timesOut(c) PROVE CancelInv'
  BY <1>7, WindowFrame DEF timesOut
<1> QED
  BY <1>1, <1>2, <1>3, <1>4, <1>5, <1>6, <1>7 DEF Environment

\* Every step keeps the window.
LEMMA CancelStep == CancelInv /\ [Next]_vars => CancelInv'
<1> SUFFICES ASSUME CancelInv, [Next]_vars PROVE CancelInv'
  OBVIOUS
<1>1. CASE UNCHANGED vars
  BY <1>1, WindowFrame DEF vars, CancelInv, WindowTypes
<1>2. CASE Next
  BY <1>2, LoopKeepsWindow, SuspendKeepsWindow, EnvironmentKeepsWindow, CommandKeepsWindow
  DEF Next
<1> QED
  BY <1>1, <1>2

\* ClientCancelsFreeze holds in every reachable state, whatever the number
\* of clients, processes, held connections and events.
THEOREM NoClientIsFrozenOut == Spec => []ClientCancelsFreeze
<1>1. CancelInv => ClientCancelsFreeze
  BY DEF CancelInv
<1> QED
  BY <1>1, CancelInit, CancelStep, PTL DEF Spec

--------------------------------------------------------------------------
(* The engine socket of a forward that serves. *)

Commands == [kind: {"start", "wake", "stop"}, pc: CommandPositions]

\* The machine, its sockets, the commands and the lock have their types.
ServeTypes ==
    /\ m \in Machines /\ sock \in Sockets /\ sl \in Standins
    /\ sus \in [pc: SuspendPositions, stopped: BOOLEAN]
    /\ cmd \in [Pids -> Commands] /\ lock \in Pids \cup {"suspend", "free"}

\* Whoever is past the lock holds it.
Owned ==
    /\ \A p \in Pids : cmd[p].pc \notin {"off", "lock"} => lock = p
    /\ sus.pc \notin {"none", "arm", "lock", "end"} => lock = "suspend"

\* A forward is launched only through a provider that has been started.
LaunchesOverProvider ==
    /\ \A p \in Pids : cmd[p].pc = "launch" => m.prov # "off"
    /\ sus.pc = "launch" => m.prov # "off"

\* A stopped provider leaves no forward behind.
ForwardNeedsProvider == m.prov = "off" => ~sock.fwd

ServeInv == ServeTypes /\ Owned /\ LaunchesOverProvider /\ ForwardNeedsProvider

\* What ServedSocketStays asks of a step.
ServedStep == forwardServes /\ ~forwardServes' => ~sock'.fwd \/ sus.pc = "take"

\* What every step does to the machine and its sockets.
MachineStep ==
    /\ m' \in Machines /\ sock' \in Sockets
    /\ ServedStep /\ ForwardNeedsProvider'

\* A step that leaves both alone.
LEMMA QuietMachine ==
    ASSUME ServeInv, UNCHANGED machine PROVE MachineStep
  BY DEF ServeInv, ServeTypes, machine, MachineStep, ServedStep, forwardServes,
     ForwardNeedsProvider

\* A forward that is stopped no longer runs.
LEMMA StoppedForward ==
    ASSUME sock \in Sockets, NEW keep \in BOOLEAN
    PROVE  stopForward(keep) \in Sockets /\ ~stopForward(keep).fwd
  BY DEF Sockets, stopForward

\* Stopping the forward is right in every state of the machine.
LEMMA StopStep ==
    ASSUME ServeInv, m' \in Machines, NEW keep \in BOOLEAN, sock' = stopForward(keep)
    PROVE  MachineStep
  BY StoppedForward DEF ServeInv, ServeTypes, MachineStep, ServedStep, ForwardNeedsProvider

\* A starting provider removes only what no forward serves.
LEMMA StartedSockets ==
    ASSUME m \in Machines, sock \in Sockets
    PROVE  /\ startedProvider \in Sockets
           /\ startedProvider.fwd => startedProvider = sock /\ m.prov # "stale"
<1>1. CASE m.prov = "stale"
  BY <1>1, StoppedForward DEF startedProvider
<1>2. CASE m.prov # "stale"
  <2>1. startedProvider = removeForwardLeftover
    BY <1>2 DEF startedProvider
  <2>2. [sock EXCEPT !.ino = FALSE] \in Sockets /\ [sock EXCEPT !.ino = FALSE].fwd = sock.fwd
    BY DEF Sockets
  <2>3. /\ [sock EXCEPT !.path = "none", !.ino = FALSE] \in Sockets
        /\ [sock EXCEPT !.path = "none", !.ino = FALSE].fwd = sock.fwd
    BY DEF Sockets
  <2> QED BY <1>2, <2>1, <2>2, <2>3 DEF removeForwardLeftover
<1> QED BY <1>1, <1>2

\* A step that may only move the path away from the stand-in.
LEMMA PathStep ==
    ASSUME ServeInv, UNCHANGED m, NEW path \in {"none", "fwd", "standin", "litter"},
           sock' = [sock EXCEPT !.path = path],
           sock.path = "fwd" => path = "fwd" \/ ~sock.fwd \/ sus.pc = "take"
    PROVE  MachineStep
<1>1. sock' \in Sockets /\ sock'.path = path /\ sock'.fwd = sock.fwd
  BY DEF ServeInv, ServeTypes, Sockets
<1> QED
  BY <1>1 DEF ServeInv, ServeTypes, MachineStep, ServedStep, forwardServes, ForwardNeedsProvider

\* A step that leaves the sockets and does not stop the provider.
LEMMA SocketFrame ==
    ASSUME ServeInv, UNCHANGED sock, m' \in Machines, m'.prov = "off" => m.prov = "off"
    PROVE  MachineStep
  BY DEF ServeInv, ServeTypes, MachineStep, ServedStep, forwardServes, ForwardNeedsProvider

\* startForward serves the path with the forward it launched.
LEMMA ForwardStep ==
    ASSUME ServeInv, UNCHANGED m, NEW from, NEW to, startForward(from, to),
           from = "launch" => m.prov # "off"
    PROVE  MachineStep
<1> USE DEF ServeInv, ServeTypes
<1>1. CASE UNCHANGED sock
  BY <1>1, QuietMachine DEF machine
<1>2. CASE sock' = stopForward(FALSE)
  BY <1>2, StopStep
<1>3. CASE from = "launch" /\ sock' = [sock EXCEPT !.fwd = TRUE]
  <2>1. sock' \in Sockets /\ sock'.path = sock.path /\ sock'.fwd
    BY <1>3 DEF Sockets
  <2> QED BY <1>3, <2>1 DEF MachineStep, ServedStep, forwardServes, ForwardNeedsProvider
<1>4. CASE sock' = [sock EXCEPT !.path = "fwd"]
  BY <1>4, PathStep
<1>5. CASE sock' = [sock EXCEPT !.ino = TRUE]
  <2>1. sock' \in Sockets /\ sock'.path = sock.path /\ sock'.fwd = sock.fwd
    BY <1>5 DEF Sockets
  <2> QED BY <2>1 DEF MachineStep, ServedStep, forwardServes, ForwardNeedsProvider
<1>6. CASE sock' = [sock EXCEPT !.fwd = FALSE]
  <2>1. sock' \in Sockets /\ ~sock'.fwd
    BY <1>6 DEF Sockets
  <2> QED BY <2>1 DEF MachineStep, ServedStep, forwardServes, ForwardNeedsProvider
<1> QED
  BY <1>1, <1>2, <1>3, <1>4, <1>5, <1>6 DEF startForward

\* Recovery parks the provider together with its forward.
LEMMA RecoverStep == ServeInv /\ Recover => MachineStep
<1> SUFFICES ASSUME ServeInv, Recover PROVE MachineStep
  OBVIOUS
<1>1. CASE UNCHANGED machine
  BY <1>1, QuietMachine
<1>2. CASE m' = [m EXCEPT !.journal = "none"] /\ UNCHANGED sock
  <2>1. m' \in Machines /\ m'.prov = m.prov
    BY <1>2 DEF ServeInv, ServeTypes, Machines
  <2> QED BY <1>2, <2>1, SocketFrame
<1>3. CASE m' \in Machines /\ sock' = stopForward(TRUE)
  BY <1>3, StopStep
<1>4. /\ [hv |-> "off", journal |-> "none", prov |-> "off"] \in Machines
      /\ [hv |-> "off", journal |-> "saved", prov |-> "off"] \in Machines
  BY DEF Machines, PidStates
<1> QED
  BY <1>1, <1>2, <1>3, <1>4 DEF Recover

\* The mode loop takes the path only on a suspended machine nobody serves.
LEMMA LoopMachine == ServeInv /\ (Loop \/ backoffLapses) => MachineStep
<1> SUFFICES ASSUME ServeInv, Loop \/ backoffLapses PROVE MachineStep
  OBVIOUS
<1>1. CASE UNCHANGED machine
  BY <1>1, QuietMachine
<1>2. CASE UNCHANGED m /\ unlinkOurs
  BY <1>2, PathStep DEF unlinkOurs, UnixIsOurs, ServeInv, ServeTypes, Sockets
<1>3. CASE giveUpUnservedSocket
  BY <1>1, <1>2, <1>3 DEF giveUpUnservedSocket, CloseUnix, machine
<1>4. CASE observe
  <2>1. UNCHANGED m /\ (UNCHANGED sock \/ (nobodyServes /\ takeUnix(FALSE)))
    BY <1>4 DEF observe
  <2>2. CASE nobodyServes /\ takeUnix(FALSE)
    <3>1. ~sock.fwd /\ sock' = [sock EXCEPT !.path = "standin"]
      BY <2>2 DEF nobodyServes, takeUnix, ServeInv, ForwardNeedsProvider
    <3> QED BY <2>1, <3>1, PathStep
  <2> QED BY <1>1, <2>1, <2>2 DEF machine
<1>5. CASE handOver
  <2>1. UNCHANGED m /\ sock' = [sock EXCEPT !.path = IF UnixIsOurs THEN "litter" ELSE @]
    BY <1>5 DEF handOver, HandOver
  <2> QED
    BY <2>1, PathStep DEF UnixIsOurs, ServeInv, ServeTypes, Sockets
<1>6. CASE shutdown
  BY <1>2, <1>6 DEF shutdown
<1>7. CASE evaluate \/ RelistenIfOwnerGone \/ takeEndpoints \/ bindTCP \/ wakeForHeld
           \/ terminated \/ backoffLapses
  BY <1>1, <1>7 DEF evaluate, RelistenIfOwnerGone, takeEndpoints, bindTCP, wakeForHeld,
     terminated, backoffLapses
<1> QED
  BY <1>3, <1>4, <1>5, <1>6, <1>7 DEF Loop

\* The suspend takes the path in S6, and stops the forward with the provider.
LEMMA SuspendMachine == ServeInv /\ Suspend => MachineStep
<1> SUFFICES ASSUME ServeInv, Suspend PROVE MachineStep
  OBVIOUS
<1>0. m \in Machines /\ sock \in Sockets
  BY DEF ServeInv, ServeTypes
<1>1. CASE UNCHANGED machine
  BY <1>1, QuietMachine
<1>2. CASE prepare
  <2>1. CASE m' = [m EXCEPT !.journal = "saving"] /\ UNCHANGED sock
    <3>1. m' \in Machines /\ m'.prov = m.prov
      BY <1>0, <2>1 DEF Machines
    <3> QED BY <2>1, <3>1, SocketFrame
  <2> QED BY <1>1, <1>2, <2>1, RecoverStep DEF prepare
<1>3. CASE takeSocket
  <2>1. CASE sus.pc = "take" /\ UNCHANGED m /\ takeUnix(TRUE)
    BY <2>1, PathStep DEF takeUnix
  <2> QED BY <1>1, <1>3, <2>1 DEF takeSocket, machine
<1>4. CASE quiesce
  BY <1>0, <1>1, <1>4, StopStep DEF quiesce, machine
<1>5. CASE commit
  <2>1. CASE m' = [m EXCEPT !.journal = "saved"] /\ UNCHANGED sock
    <3>1. m' \in Machines /\ m'.prov = m.prov
      BY <1>0, <2>1 DEF Machines
    <3> QED BY <2>1, <3>1, SocketFrame
  <2>2. CASE m' = [m EXCEPT !.hv = "off"] /\ UNCHANGED sock
    <3>1. m' \in Machines /\ m'.prov = m.prov
      BY <1>0, <2>2 DEF Machines, PidStates
    <3> QED BY <2>2, <3>1, SocketFrame
  <2>3. CASE Park
    <3>1. m' \in Machines /\ sock' = stopForward(TRUE)
      BY <1>0, <2>3 DEF Park, Machines, PidStates
    <3> QED BY <3>1, StopStep
  <2> QED BY <1>1, <1>5, <2>1, <2>2, <2>3 DEF commit, machine
<1>6. CASE guestRunning
  <2>1. CASE m' = [m EXCEPT !.journal = "none"] /\ UNCHANGED sock
    <3>1. m' \in Machines /\ m'.prov = m.prov
      BY <1>0, <2>1 DEF Machines
    <3> QED BY <2>1, <3>1, SocketFrame
  <2>2. CASE RestorePrevious /\ UNCHANGED m
    BY <1>0, <2>2, PathStep DEF RestorePrevious, UnixIsOurs, Sockets
  <2>3. ASSUME UNCHANGED m, NEW to, startForward(sus.pc, to)
        PROVE  MachineStep
    BY <2>3, ForwardStep DEF ServeInv, LaunchesOverProvider
  <2>4. CASE HandOver(Disarmed(sl)) /\ UNCHANGED m
    BY <1>0, <2>4, PathStep DEF HandOver, UnixIsOurs, Sockets
  <2> QED BY <1>1, <1>6, <2>1, <2>2, <2>3, <2>4 DEF guestRunning, machine
<1>7. CASE hypervisorDied
  <2>1. PICK journal \in {"none", m.journal}, prov \in {"off", m.prov} :
            /\ m' = [m EXCEPT !.journal = journal, !.prov = prov]
            /\ sock' = stopForward(TRUE) \/ (prov = m.prov /\ UNCHANGED sock)
    BY <1>7 DEF hypervisorDied
  <2>2. m' \in Machines /\ m'.prov = prov
    BY <1>0, <2>1 DEF Machines, PidStates
  <2>3. CASE sock' = stopForward(TRUE)
    BY <2>2, <2>3, StopStep
  <2>4. CASE prov = m.prov /\ UNCHANGED sock
    BY <2>2, <2>4, SocketFrame
  <2> QED BY <2>1, <2>3, <2>4
<1>8. CASE armAndLock \/ CheckAndFreeze \/ takeSSHPort \/ suspendEnds
  BY <1>1, <1>8 DEF armAndLock, CheckAndFreeze, takeSSHPort, suspendEnds
<1> QED
  BY <1>2, <1>3, <1>4, <1>5, <1>6, <1>7, <1>8 DEF Suspend

\* A command stops the provider only together with its forward.
LEMMA CommandMachine ==
    ASSUME NEW p \in Pids, ServeInv, Command(p) PROVE MachineStep
<1>0. m \in Machines /\ sock \in Sockets
  BY DEF ServeInv, ServeTypes
<1>1. CASE UNCHANGED machine
  BY <1>1, QuietMachine
<1>2. CASE m' \in Machines /\ \E keep \in BOOLEAN : sock' = stopForward(keep)
  BY <1>2, StopStep
<1>3. CASE UNCHANGED sock /\ \/ m' = [m EXCEPT !.hv = "on"]
                             \/ m' = [m EXCEPT !.hv = "off"]
                             \/ m' = [m EXCEPT !.journal = "none"]
  <2>1. m' \in Machines /\ m'.prov = m.prov
    BY <1>0, <1>3 DEF Machines, PidStates
  <2> QED BY <1>3, <2>1, SocketFrame
<1>4. /\ [m EXCEPT !.prov = "off"] \in Machines
      /\ [m EXCEPT !.journal = "none", !.prov = "off"] \in Machines
      /\ [m EXCEPT !.hv = "off", !.prov = "off"] \in Machines
      /\ [hv |-> "off", journal |-> "none", prov |-> "off"] \in Machines
  BY <1>0 DEF Machines, PidStates
<1>5. CASE stopSleeper(p)
  <2>1. CASE UNCHANGED machine
    BY <1>1, <2>1
  <2>2. CASE UNCHANGED m /\ dead
    BY <1>0, <2>2, PathStep DEF dead, UnixIsOurs, Sockets
  <2> QED BY <1>5, <2>1, <2>2 DEF stopSleeper, machine
<1>6. CASE recover(p)
  BY <1>1, <1>6, RecoverStep DEF recover
<1>7. CASE dispatch(p)
  <2>1. [hv |-> "off", prov |-> "off",
         journal |-> IF m.journal = "saved" THEN "saved" ELSE "none"] \in Machines
    BY <1>0 DEF Machines, PidStates
  <2> QED BY <1>1, <1>2, <1>4, <1>7, <2>1 DEF dispatch
<1>8. CASE startProvider(p)
  <2>1. CASE m' = [m EXCEPT !.prov = "on"] /\ sock' = startedProvider
    <3>1. m' \in Machines /\ m'.prov = "on"
      BY <1>0, <2>1 DEF Machines, PidStates
    <3>2. sock' \in Sockets /\ (sock'.fwd => sock' = sock)
      BY <1>0, <2>1, StartedSockets
    <3> QED BY <3>1, <3>2 DEF MachineStep, ServedStep, forwardServes, ForwardNeedsProvider
  <2>2. CASE Park
    BY <1>2, <1>4, <2>2 DEF Park
  <2>3. CASE m.prov # "on" /\ m' = [m EXCEPT !.prov = "off"] /\ sock' = startedProvider
    <3>1. sock' \in Sockets /\ (sock'.fwd => sock' = sock /\ m.prov = "off")
      BY <1>0, <2>3, StartedSockets DEF Machines, PidStates
    <3>2. ~sock'.fwd
      BY <3>1 DEF ServeInv, ForwardNeedsProvider
    <3> QED BY <1>4, <2>3, <3>1, <3>2 DEF MachineStep, ServedStep, ForwardNeedsProvider
  <2> QED BY <1>1, <1>8, <2>1, <2>2, <2>3 DEF startProvider
<1>9. CASE resume(p)
  <2>1. CASE reject(p)
    BY <1>2, <1>3, <1>4, <2>1 DEF reject
  <2>2. CASE wakeTransient(p)
    BY <1>2, <1>4, <2>2 DEF wakeTransient
  <2> QED BY <1>3, <1>9, <2>1, <2>2 DEF resume
<1>10. CASE boot(p)
  BY <1>1, <1>2, <1>3, <1>4, <1>10 DEF boot, StopProvider
<1>11. CASE connect(p)
  <2>1. ASSUME UNCHANGED m, NEW to, startForward(cmd[p].pc, to)
        PROVE  MachineStep
    BY <2>1, ForwardStep DEF ServeInv, LaunchesOverProvider
  <2> QED BY <1>1, <1>11, <2>1 DEF connect, machine
<1>12. CASE stopMachine(p)
  BY <1>1, <1>2, <1>4, <1>12 DEF stopMachine
<1>13. CASE takeLock(p) \/ releaseSleeperTCP(p) \/ startSleeper(p) \/ endCommand(p)
  BY <1>1, <1>13 DEF takeLock, releaseSleeperTCP, startSleeper, endCommand
<1> QED
  BY <1>5, <1>6, <1>7, <1>8, <1>9, <1>10, <1>11, <1>12, <1>13 DEF Command

\* A provider that dies takes its forward along, and is not stopped.
LEMMA EnvironmentMachine == ServeInv /\ Environment => MachineStep
<1> SUFFICES ASSUME ServeInv, Environment PROVE MachineStep
  OBVIOUS
<1>0. m \in Machines /\ sock \in Sockets
  BY DEF ServeInv, ServeTypes
<1>1. CASE UNCHANGED machine
  BY <1>1, QuietMachine
<1>2. CASE sleeperKilled
  BY <1>0, <1>2, PathStep DEF sleeperKilled, dead, UnixIsOurs, Sockets
<1>3. CASE dies
  <2>1. CASE m' = [m EXCEPT !.hv = "stale"] /\ UNCHANGED sock
    <3>1. m' \in Machines /\ m'.prov = m.prov
      BY <1>0, <2>1 DEF Machines, PidStates
    <3> QED BY <2>1, <3>1, SocketFrame
  <2>2. CASE sock' = [sock EXCEPT !.fwd = FALSE] /\ m' \in Machines
    <3>1. sock' \in Sockets /\ ~sock'.fwd
      BY <1>0, <2>2 DEF Sockets
    <3> QED BY <2>2, <3>1 DEF MachineStep, ServedStep, ForwardNeedsProvider
  <2>3. [m EXCEPT !.prov = "stale"] \in Machines
    BY <1>0 DEF Machines, PidStates
  <2> QED BY <1>0, <1>3, <2>1, <2>2, <2>3 DEF dies
<1>4. CASE runSuspend \/ abortSuspendInFlight \/ launchSleeper
  BY <1>1, <1>4 DEF runSuspend, abortSuspendInFlight, launchSleeper
<1>5. CASE \E p \in Pids : killed(p) \/ \E kind \in {"start", "stop"} : invoke(p, kind)
  BY <1>1, <1>5 DEF killed, invoke
<1>6. CASE \E c \in Clients : connectUnix(c) \/ connectTCP(c) \/ timesOut(c)
  BY <1>1, <1>6 DEF connectUnix, connectTCP, timesOut
<1> QED
  BY <1>2, <1>3, <1>4, <1>5, <1>6 DEF Environment

\* No step of the system takes the path from a forward that serves it, other
\* than the suspend's.
LEMMA NextMachine == ServeInv /\ [Next]_vars => MachineStep
<1> SUFFICES ASSUME ServeInv, [Next]_vars PROVE MachineStep
  OBVIOUS
<1>1. CASE UNCHANGED vars
  BY <1>1, QuietMachine DEF vars, machine
<1> QED
  BY <1>1, LoopMachine, SuspendMachine, CommandMachine, EnvironmentMachine DEF Next

\* Who holds the lock, where commands and the suspend are, and their types.
OrderStep ==
    /\ cmd' \in [Pids -> Commands] /\ lock' \in Pids \cup {"suspend", "free"}
    /\ Owned' /\ LaunchesOverProvider'

\* A step that leaves the order alone.
LEMMA QuietOrder ==
    ASSUME ServeInv, UNCHANGED <<cmd, lock, sus>>, m'.prov = "off" => m.prov = "off"
    PROVE  OrderStep
  BY DEF ServeInv, ServeTypes, OrderStep, Owned, LaunchesOverProvider

\* The mode loop spawns wakers, which start outside the lock.
LEMMA LoopOrder == ServeInv /\ (Loop \/ backoffLapses) => OrderStep
<1> SUFFICES ASSUME ServeInv, Loop \/ backoffLapses PROVE OrderStep
  OBVIOUS
<1>1. CASE UNCHANGED <<cmd, lock, sus, m>>
  BY <1>1, QuietOrder
<1>2. CASE wakeForHeld
  <2>1. CASE UNCHANGED cmd
    BY <1>1, <1>2, <2>1 DEF wakeForHeld, machine
  <2>2. ASSUME NEW p \in freePids, cmd' = [cmd EXCEPT ![p] = [kind |-> "wake", pc |-> "lock"]]
        PROVE  OrderStep
    <3>1. p \in Pids /\ UNCHANGED <<lock, sus, m>>
      BY <1>2 DEF freePids, wakeForHeld, machine
    <3>2. cmd' \in [Pids -> Commands] /\ \A r \in Pids : cmd'[r] = cmd[r] \/ cmd'[r].pc = "lock"
      BY <2>2, <3>1 DEF ServeInv, ServeTypes, Commands, CommandPositions
    <3> QED
      BY <3>1, <3>2 DEF ServeInv, ServeTypes, OrderStep, Owned, LaunchesOverProvider
  <2> QED BY <1>2, <2>1, <2>2 DEF wakeForHeld
<1>3. CASE giveUpUnservedSocket \/ observe \/ handOver
  BY <1>1, <1>3 DEF giveUpUnservedSocket, observe, handOver
<1>4. CASE evaluate \/ RelistenIfOwnerGone \/ takeEndpoints \/ bindTCP \/ terminated \/ shutdown
           \/ backoffLapses
  BY <1>1, <1>4 DEF evaluate, RelistenIfOwnerGone, takeEndpoints, bindTCP, terminated, shutdown,
     backoffLapses, machine
<1> QED
  BY <1>2, <1>3, <1>4 DEF Loop

\* The suspend works under its lock, where no command does.
LEMMA SuspendOrder == ServeInv /\ Suspend => OrderStep
<1> SUFFICES ASSUME ServeInv, Suspend PROVE OrderStep
  OBVIOUS
<1>0. /\ cmd' = cmd /\ cmd \in [Pids -> Commands]
      /\ lock \in Pids \cup {"suspend", "free"}
      /\ lock \in {"suspend", "free"} => \A p \in Pids : cmd[p].pc \in {"off", "lock"}
  BY SleeperAssumption DEF Suspend, armAndLock, prepare, takeSocket, quiesce, CheckAndFreeze,
     commit, takeSSHPort, guestRunning, hypervisorDied, suspendEnds, ServeInv, ServeTypes, Owned
<1>1. ASSUME lock = "suspend", lock' = "suspend",
             sus'.pc = "launch" => m'.prov # "off"
      PROVE  OrderStep
  BY <1>0, <1>1 DEF OrderStep, Owned, LaunchesOverProvider
<1>2. sus.pc \notin {"none", "arm", "lock", "end"} => lock = "suspend"
  BY DEF ServeInv, Owned
<1>3. CASE armAndLock
  <2>1. CASE sus'.pc \in {"lock", "end"} /\ UNCHANGED <<lock, m>>
    BY <1>0, <2>1 DEF ServeInv, OrderStep, Owned, LaunchesOverProvider
  <2>2. CASE lock = "free" /\ lock' = "suspend" /\ sus'.pc = "check"
    BY <1>0, <2>2 DEF OrderStep, Owned, LaunchesOverProvider
  <2> QED
    BY <1>3, <2>1, <2>2 DEF armAndLock, susAt, ServeInv, ServeTypes, machine
<1>4. CASE suspendEnds
  <2>1. sus'.pc = "none" /\ UNCHANGED m /\ lock' = IF lock = "suspend" THEN "free" ELSE lock
    BY <1>4 DEF suspendEnds, susAt, ServeInv, ServeTypes, machine
  <2> QED
    BY <1>0, <2>1, SleeperAssumption DEF ServeInv, OrderStep, Owned, LaunchesOverProvider
<1>5. CASE guestRunning
  <2>1. sus.pc \in {"cancel", "restore", "forward", "launch", "rename", "ino", "handOver"}
    BY <1>5 DEF guestRunning, startForward
  <2>2. sus'.pc = "launch" => UNCHANGED m /\ m.prov = "on"
    BY <1>5 DEF guestRunning, startForward, susAt, ServeInv, ServeTypes
  <2>3. lock' = lock
    BY <1>5 DEF guestRunning
  <2> QED BY <1>1, <1>2, <2>1, <2>2, <2>3
<1>6. CASE quiesce
  <2>1. lock' = lock /\ sus.pc \in {"quiesce", "stopForward", "aborted"} /\ sus'.pc # "launch"
    <3>1. CASE sus' = [pc |-> "aborted", stopped |-> TRUE]
      BY <1>6, <3>1 DEF quiesce
    <3>2. CASE \E pc \in {"stopForward", "freeze", "cancel"} : susAt(pc)
      <4>1. sus'.pc # "launch"
        BY <3>2 DEF susAt, ServeInv, ServeTypes
      <4> QED BY <1>6, <4>1 DEF quiesce
    <3> QED BY <1>6, <3>1, <3>2 DEF quiesce
  <2> QED BY <1>1, <1>2, <2>1
<1>7. CASE prepare \/ takeSocket \/ CheckAndFreeze
  <2>1. lock' = lock /\ sus.pc \in {"check", "prepare", "take", "freeze"} /\ sus'.pc # "launch"
    BY <1>7 DEF prepare, takeSocket, CheckAndFreeze, susAt, ServeInv, ServeTypes
  <2> QED BY <1>1, <1>2, <2>1
<1>8. CASE commit \/ takeSSHPort \/ hypervisorDied
  <2>1. lock' = lock /\ sus.pc \in {"commit", "quit", "park", "tcp", "died"} /\ sus'.pc # "launch"
    BY <1>8 DEF commit, takeSSHPort, hypervisorDied, susAt, ServeInv, ServeTypes
  <2> QED BY <1>1, <1>2, <2>1
<1> QED
  BY <1>3, <1>4, <1>5, <1>6, <1>7, <1>8 DEF Suspend

\* A command works under the lock it took, where nobody else does.
LEMMA CommandOrder ==
    ASSUME NEW p \in Pids, ServeInv, Command(p) PROVE OrderStep
<1>0. /\ cmd \in [Pids -> Commands] /\ lock \in Pids \cup {"suspend", "free"}
      /\ \A r \in Pids : cmd[r].pc \notin {"off", "lock"} => lock = r
      /\ sus \in [pc: SuspendPositions, stopped: BOOLEAN]
      /\ sus.pc \notin {"none", "arm", "lock", "end"} => lock = "suspend"
      /\ p \notin {"suspend", "free"}
  BY SleeperAssumption DEF ServeInv, ServeTypes, Owned
<1>1. ASSUME NEW to \in CommandPositions, cmdAt(p, to)
      PROVE  /\ cmd' \in [Pids -> Commands] /\ cmd'[p].pc = to
             /\ \A r \in Pids \ {p} : cmd'[r] = cmd[r]
  BY <1>0, <1>1 DEF cmdAt, Commands
\* What a command that has the lock does with it.
<1>2. ASSUME lock = p, lock' = p, NEW to \in CommandPositions, cmdAt(p, to),
             to = "launch" => m'.prov # "off", sus'.pc \in {sus.pc, "none"}
      PROVE  OrderStep
  BY <1>0, <1>1, <1>2 DEF OrderStep, Owned, LaunchesOverProvider
<1>3. CASE takeLock(p)
  <2>0. UNCHANGED <<m, sus>>
    BY <1>3 DEF takeLock, machine, clientSide
  <2>1. ASSUME lock = "free", lock' = p, NEW to \in {"stopSleeper", "recover"}, cmdAt(p, to)
        PROVE  OrderStep
    <3>1. /\ cmd' \in [Pids -> Commands] /\ cmd'[p].pc = to
          /\ \A r \in Pids \ {p} : cmd'[r] = cmd[r]
      BY <1>1, <2>1 DEF CommandPositions
    <3>2. /\ \A r \in Pids \ {p} : cmd'[r].pc \in {"off", "lock"}
          /\ sus'.pc \in {"none", "arm", "lock", "end"}
      BY <1>0, <2>0, <2>1, <3>1, SleeperAssumption
    <3> QED
      BY <2>1, <3>1, <3>2 DEF OrderStep, Owned, LaunchesOverProvider
  <2>2. CASE UNCHANGED lock /\ cmdAt(p, "off")
    <3>1. "off" \in CommandPositions
      BY DEF CommandPositions
    <3> QED
      BY <1>0, <1>1, <2>0, <2>2, <3>1 DEF ServeInv, OrderStep, Owned, LaunchesOverProvider
  <2> QED BY <1>3, <2>1, <2>2 DEF takeLock
<1>4. CASE endCommand(p)
  <2>1. /\ lock = p /\ lock' = "free" /\ UNCHANGED <<m, sus>>
        /\ cmdAt(p, "off") /\ "off" \in CommandPositions
    BY <1>0, <1>4 DEF endCommand, machine, clientSide, CommandPositions
  <2> QED
    BY <1>0, <1>1, <2>1 DEF ServeInv, OrderStep, Owned, LaunchesOverProvider
<1>5. CASE stopSleeper(p)
  <2>1. lock = p /\ lock' = p /\ UNCHANGED m
    BY <1>0, <1>5 DEF stopSleeper
  <2>2. CASE UNCHANGED <<cmd, sus>>
    BY <2>1, <2>2, QuietOrder
  <2>3. CASE cmdAt(p, "recover") /\ sus'.pc \in {sus.pc, "none"}
    BY <1>2, <2>1, <2>3 DEF CommandPositions
  <2> QED
    BY <1>0, <1>5, <2>2, <2>3 DEF stopSleeper, dead
<1>6. CASE connect(p)
  <2>1. lock' = lock /\ UNCHANGED <<m, sus>> /\ cmd[p].pc \notin {"off", "lock"}
    BY <1>6 DEF connect, startForward, clientSide
  <2>2. PICK to \in CommandPositions : cmdAt(p, to) /\ (to = "launch" => m.prov = "on")
    <3>1. CASE cmdAt(p, "forward") \/ cmdAt(p, "end")
      BY <3>1 DEF CommandPositions
    <3>2. CASE \E to \in {"done", "failed", "launch", "rename", "ino"} :
                 /\ startForward(cmd[p].pc, to)
                 /\ cmdAt(p, CASE to = "done" -> "sleeper" [] to = "failed" -> "end"
                               [] OTHER -> to)
      BY <3>2 DEF startForward, CommandPositions
    <3> QED BY <1>6, <3>1, <3>2 DEF connect
  <2> QED BY <1>0, <1>2, <2>1, <2>2
\* The rest goes on from one position under the lock to another.
<1>7. ASSUME cmd[p].pc \notin {"off", "lock"}, UNCHANGED <<lock, sus>>,
             NEW to \in CommandPositions \ {"launch"}, cmdAt(p, to)
      PROVE  OrderStep
  BY <1>0, <1>2, <1>7
<1>8. CASE recover(p) \/ releaseSleeperTCP(p) \/ startProvider(p)
  <2>1. cmd[p].pc \notin {"off", "lock"} /\ UNCHANGED <<lock, sus>>
    BY <1>8 DEF recover, releaseSleeperTCP, startProvider, clientSide
  <2>2. \E to \in {"end", "dispatch", "network", "port", "resume", "boot"} : cmdAt(p, to)
    BY <1>8 DEF recover, releaseSleeperTCP, startProvider
  <2> QED BY <1>7, <2>1, <2>2 DEF CommandPositions
<1>9. CASE dispatch(p)
  <2>1. cmd[p].pc \notin {"off", "lock"} /\ UNCHANGED <<lock, sus>>
    BY <1>9 DEF dispatch, clientSide
  <2>2. \E to \in {"shutdown", "end", "ssh", "release", "network", "dispatch"} : cmdAt(p, to)
    BY <1>9 DEF dispatch
  <2> QED BY <1>7, <2>1, <2>2 DEF CommandPositions
<1>10. CASE resume(p)
  <2>1. cmd[p].pc \notin {"off", "lock"} /\ UNCHANGED <<lock, sus>>
    BY <1>10 DEF resume, clientSide
  <2>2. \E to \in {"load", "shutdown", "ssh", "end", "network"} : cmdAt(p, to)
    BY <1>10 DEF resume, reject, wakeTransient
  <2> QED BY <1>7, <2>1, <2>2 DEF CommandPositions
<1>11. CASE boot(p) \/ startSleeper(p) \/ stopMachine(p)
  <2>1. cmd[p].pc \notin {"off", "lock"} /\ UNCHANGED <<lock, sus>>
    BY <1>11 DEF boot, startSleeper, stopMachine, clientSide
  <2>2. \E to \in {"ssh", "end"} : cmdAt(p, to)
    BY <1>11 DEF boot, startSleeper, stopMachine
  <2> QED BY <1>7, <2>1, <2>2 DEF CommandPositions
<1> QED
  BY <1>3, <1>4, <1>5, <1>6, <1>8, <1>9, <1>10, <1>11 DEF Command

\* A kill releases the lock of the process it ends, and of no other.
LEMMA EnvironmentOrder == ServeInv /\ Environment => OrderStep
<1> SUFFICES ASSUME ServeInv, Environment PROVE OrderStep
  OBVIOUS
<1>0. /\ cmd \in [Pids -> Commands] /\ lock \in Pids \cup {"suspend", "free"}
      /\ sus \in [pc: SuspendPositions, stopped: BOOLEAN]
      /\ Owned /\ LaunchesOverProvider
  BY DEF ServeInv, ServeTypes
<1>1. CASE abortSuspendInFlight \/ launchSleeper
           \/ \E c \in Clients : connectUnix(c) \/ connectTCP(c) \/ timesOut(c)
  BY <1>1, QuietOrder DEF abortSuspendInFlight, launchSleeper, connectUnix, connectTCP, timesOut,
     machine, clientSide
<1>2. CASE runSuspend
  <2>1. sus'.pc = "arm" /\ UNCHANGED <<cmd, lock, m>>
    BY <1>2 DEF runSuspend, machine
  <2> QED BY <1>0, <2>1 DEF OrderStep, Owned, LaunchesOverProvider
<1>3. CASE sleeperKilled
  <2>1. /\ sus'.pc = "none" /\ UNCHANGED <<cmd, m>>
        /\ lock' = IF lock = "suspend" THEN "free" ELSE lock
    BY <1>0, <1>3 DEF sleeperKilled, dead
  <2> QED BY <1>0, <2>1, SleeperAssumption DEF OrderStep, Owned, LaunchesOverProvider
<1>4. CASE dies
  <2>1. UNCHANGED <<cmd, lock, sus>>
    BY <1>4 DEF dies, clientSide
  <2>2. m'.prov = "off" => m.prov = "off"
    BY <1>4 DEF dies, ServeInv, ServeTypes, Machines
  <2> QED BY <2>1, <2>2, QuietOrder
<1>5. ASSUME NEW p \in Pids, killed(p) PROVE OrderStep
  <2>1. /\ UNCHANGED <<sus, m>> /\ cmd' = [cmd EXCEPT ![p].pc = "off"]
        /\ lock' = IF lock = p THEN "free" ELSE lock
    BY <1>5 DEF killed, cmdAt, machine, clientSide
  <2>2. /\ cmd' \in [Pids -> Commands] /\ cmd'[p].pc = "off"
        /\ \A r \in Pids \ {p} : cmd'[r] = cmd[r]
    BY <1>0, <2>1 DEF Commands, CommandPositions
  <2> QED BY <1>0, <2>1, <2>2, SleeperAssumption DEF OrderStep, Owned, LaunchesOverProvider
<1>6. ASSUME NEW p \in Pids, NEW kind \in {"start", "stop"}, invoke(p, kind) PROVE OrderStep
  <2>1. /\ UNCHANGED <<sus, m, lock>>
        /\ cmd' = [cmd EXCEPT ![p] = [kind |-> kind, pc |-> "lock"]]
    BY <1>6 DEF invoke, machine, clientSide
  <2>2. /\ cmd' \in [Pids -> Commands] /\ cmd'[p].pc = "lock"
        /\ \A r \in Pids \ {p} : cmd'[r] = cmd[r]
    BY <1>0, <2>1 DEF Commands, CommandPositions
  <2> QED BY <1>0, <2>1, <2>2 DEF OrderStep, Owned, LaunchesOverProvider
<1> QED
  BY <1>1, <1>2, <1>3, <1>4, <1>5, <1>6 DEF Environment

\* ServeInv holds in every reachable state.
LEMMA ServeInvariant == Spec => [](CancelInv /\ ServeInv)
<1>1. Init => ServeInv
  <2> SUFFICES ASSUME Init PROVE ServeInv
    OBVIOUS
  <2>1. m \in Machines /\ sock \in Sockets /\ m.prov = "on"
    BY DEF Init, Machines, PidStates, Sockets
  <2>2. sl \in Standins /\ sus \in [pc: SuspendPositions, stopped: BOOLEAN] /\ sus.pc = "none"
    BY NewStandinIsTyped DEF Init, SuspendPositions
  <2>3. /\ cmd \in [Pids -> Commands] /\ lock \in Pids \cup {"suspend", "free"}
        /\ \A p \in Pids : cmd[p].pc = "off"
    BY DEF Init, Commands, CommandPositions
  <2> QED
    BY <2>1, <2>2, <2>3 DEF ServeInv, ServeTypes, Owned, LaunchesOverProvider,
       ForwardNeedsProvider
<1>2. CancelInv /\ ServeInv /\ [Next]_vars => CancelInv' /\ ServeInv'
  <2> SUFFICES ASSUME CancelInv, ServeInv, [Next]_vars PROVE CancelInv' /\ ServeInv'
    OBVIOUS
  <2>1. CancelInv'
    BY CancelStep
  <2>2. sl' \in Standins /\ sus' \in [pc: SuspendPositions, stopped: BOOLEAN]
    BY <2>1 DEF CancelInv, WindowTypes
  <2>3. MachineStep
    BY NextMachine
  <2>4. OrderStep
    <3>1. CASE UNCHANGED vars
      BY <3>1, QuietOrder DEF vars
    <3> QED
      BY <3>1, LoopOrder, SuspendOrder, CommandOrder, EnvironmentOrder DEF Next
  <2> QED
    BY <2>1, <2>2, <2>3, <2>4 DEF ServeInv, ServeTypes, MachineStep, OrderStep
<1> QED
  BY <1>1, <1>2, CancelInit, PTL DEF Spec

\* ServedSocketStays: whatever state the mode loop read before, and whoever
\* else works on the machine, only S6 takes the path from a live forward.
THEOREM ServedSocketIsLeft == Spec => ServedSocketStays
<1>1. ServeInv /\ [Next]_vars
      => [forwardServes /\ ~forwardServes' => ~sock'.fwd \/ sus.pc = "take"]_vars
  BY NextMachine DEF MachineStep, ServedStep
<1> QED
  BY <1>1, ServeInvariant, PTL DEF Spec, ServedSocketStays

--------------------------------------------------------------------------
(* Types. *)

ModeLoops == [pc: LoopPositions, st: {"running", "suspended", "stopped", "broken"},
              journal: BOOLEAN]

\* The variables that the invariants above do not speak of.
RestTypes ==
    /\ conn \in [Clients -> Outcomes] /\ loop \in ModeLoops
    /\ stoppedBefore \in BOOLEAN /\ backoff \in BOOLEAN /\ term \in BOOLEAN
    /\ child \in Pids \cup {Nobody} /\ events \in 0..MaxEvents

\* Every event that happens was left.
LEMMA EventsStep == events \in 0..MaxEvents /\ happens => events' \in 0..MaxEvents
  BY SleeperAssumption DEF happens

\* The mode loop goes from one of its positions to another.
LEMMA AtStep ==
    ASSUME loop \in ModeLoops, NEW pc \in LoopPositions, at(pc) PROVE loop' \in ModeLoops
  BY DEF at, ModeLoops

\* A sleeper that is gone has let go of everything.
LEMMA GoneStep ==
    ASSUME RestTypes, Gone, UNCHANGED events PROVE RestTypes'
<1>1. loop' \in ModeLoops
  BY AtStep DEF RestTypes, Gone, LoopPositions
<1>2. conn' \in [Clients -> Outcomes]
  BY DEF RestTypes, Gone, CloseHeld, Outcomes
<1> QED
  BY <1>1, <1>2 DEF RestTypes, Gone

\* The mode loop keeps its own fields, the waker and the connections typed.
LEMMA LoopTypes == RestTypes /\ (Loop \/ backoffLapses) => RestTypes'
<1> SUFFICES ASSUME RestTypes, Loop \/ backoffLapses PROVE RestTypes'
  OBVIOUS
<1> USE DEF RestTypes
<1>1. CASE evaluate
  <2>1. loop' \in ModeLoops
    BY <1>1 DEF evaluate, ModeLoops, LoopPositions, State
  <2>2. conn' \in [Clients -> Outcomes] /\ backoff' \in BOOLEAN
    BY <1>1 DEF evaluate, CloseHeld, Outcomes
  <2> QED BY <1>1, <2>1, <2>2 DEF evaluate
<1>2. CASE RelistenIfOwnerGone \/ giveUpUnservedSocket \/ takeEndpoints \/ bindTCP \/ terminated
  <2>1. \E pc \in LoopPositions : at(pc)
    BY <1>2 DEF RelistenIfOwnerGone, giveUpUnservedSocket, takeEndpoints, bindTCP, terminated,
       LoopPositions
  <2> QED
    BY <1>2, <2>1, AtStep DEF RelistenIfOwnerGone, giveUpUnservedSocket, takeEndpoints, bindTCP,
       terminated
<1>3. CASE observe
  <2>1. \E pc \in {"exit", "handOver", "takeTCP", "wakeForHeld", "rest"} : at(pc)
    BY <1>3 DEF observe, Decide
  <2>2. loop' \in ModeLoops
    BY <2>1, AtStep DEF LoopPositions
  <2>3. events' \in 0..MaxEvents
    BY <1>3, EventsStep DEF observe
  <2> QED BY <1>3, <2>2, <2>3 DEF observe
<1>4. CASE wakeForHeld
  <2>1. loop' \in ModeLoops
    BY <1>4, AtStep DEF wakeForHeld, LoopPositions
  <2>2. events' \in 0..MaxEvents
    BY <1>4, EventsStep DEF wakeForHeld
  <2>3. child' \in Pids \cup {Nobody} /\ backoff' \in BOOLEAN
    BY <1>4 DEF wakeForHeld, freePids
  <2> QED BY <1>4, <2>1, <2>2, <2>3 DEF wakeForHeld
<1>5. CASE handOver
  <2>1. loop' \in ModeLoops
    BY <1>5, AtStep DEF handOver, LoopPositions
  <2>2. conn' \in [Clients -> Outcomes]
    BY <1>5 DEF handOver, HandOver, Outcomes
  <2> QED BY <1>5, <2>1, <2>2 DEF handOver
<1>6. CASE shutdown
  BY <1>6, GoneStep DEF shutdown
<1>7. CASE backoffLapses
  BY <1>7 DEF backoffLapses
<1> QED
  BY <1>1, <1>2, <1>3, <1>4, <1>5, <1>6, <1>7 DEF Loop

\* The suspend relays or closes connections and touches nothing else of it.
LEMMA SuspendTypes == RestTypes /\ Suspend => RestTypes'
<1> SUFFICES ASSUME RestTypes, Suspend PROVE RestTypes'
  OBVIOUS
<1>1. UNCHANGED <<daemon, events>>
  BY DEF Suspend, armAndLock, prepare, takeSocket, quiesce, CheckAndFreeze, commit, takeSSHPort,
     guestRunning, hypervisorDied, suspendEnds
<1>2. CASE guestRunning
  <2>1. conn' \in [Clients -> Outcomes]
    BY <1>2 DEF guestRunning, HandOver, RestTypes, Outcomes
  <2> QED BY <1>1, <2>1 DEF RestTypes, daemon
<1>3. CASE hypervisorDied
  <2>1. conn' \in [Clients -> Outcomes]
    BY <1>3 DEF hypervisorDied, CloseHeld, RestTypes, Outcomes
  <2> QED BY <1>1, <2>1 DEF RestTypes, daemon
<1>4. CASE UNCHANGED conn
  BY <1>1, <1>4 DEF RestTypes, daemon
<1> QED
  BY <1>2, <1>3, <1>4 DEF Suspend, armAndLock, prepare, takeSocket, quiesce, CheckAndFreeze,
     commit, takeSSHPort, suspendEnds

\* A command ends or starts the sleeper, or leaves it alone.
LEMMA CommandTypes ==
    ASSUME NEW p \in Pids, RestTypes, Command(p) PROVE RestTypes'
<1> USE DEF clientSide, daemon
<1>1. CASE stopSleeper(p)
  <2>1. CASE dead /\ UNCHANGED events
    BY <2>1, GoneStep DEF dead
  <2> QED BY <1>1, <2>1 DEF stopSleeper, RestTypes
<1>2. CASE startSleeper(p)
  <2>1. loop' \in ModeLoops
    BY <1>2, AtStep DEF startSleeper, RestTypes, LoopPositions
  <2> QED BY <1>2, <2>1 DEF startSleeper, RestTypes
<1>3. CASE recover(p) \/ startProvider(p) \/ resume(p)
  <2>1. events' \in 0..MaxEvents
    BY <1>3, EventsStep DEF recover, startProvider, resume, RestTypes
  <2> QED BY <1>3, <2>1 DEF recover, startProvider, resume, RestTypes
<1>4. CASE takeLock(p) \/ dispatch(p) \/ releaseSleeperTCP(p) \/ boot(p) \/ connect(p)
           \/ stopMachine(p) \/ endCommand(p)
  BY <1>4 DEF takeLock, dispatch, releaseSleeperTCP, boot, connect, stopMachine, endCommand,
     RestTypes
<1> QED
  BY <1>1, <1>2, <1>3, <1>4 DEF Command

\* Connections, requests and faults each use up an event.
LEMMA EnvironmentTypes == RestTypes /\ Environment => RestTypes'
<1> SUFFICES ASSUME RestTypes, Environment PROVE RestTypes'
  OBVIOUS
<1> USE DEF clientSide, daemon
<1>1. CASE runSuspend \/ abortSuspendInFlight \/ dies
  BY <1>1, EventsStep DEF runSuspend, abortSuspendInFlight, dies, RestTypes
<1>2. CASE launchSleeper
  <2>1. loop' \in ModeLoops
    BY <1>2, AtStep DEF launchSleeper, RestTypes, LoopPositions
  <2> QED BY <1>2, <2>1, EventsStep DEF launchSleeper, RestTypes
<1>3. CASE sleeperKilled
  <2>1. loop' \in ModeLoops
    BY <1>3, AtStep DEF sleeperKilled, dead, Gone, RestTypes, LoopPositions
  <2>2. conn' \in [Clients -> Outcomes]
    BY <1>3 DEF sleeperKilled, dead, Gone, CloseHeld, RestTypes, Outcomes
  <2> QED BY <1>3, <2>1, <2>2, EventsStep DEF sleeperKilled, dead, Gone, RestTypes
<1>4. CASE \E p \in Pids : killed(p) \/ \E kind \in {"start", "stop"} : invoke(p, kind)
  BY <1>4, EventsStep DEF killed, invoke, RestTypes
<1>5. ASSUME NEW c \in Clients, connectUnix(c) \/ connectTCP(c) \/ timesOut(c)
      PROVE  RestTypes'
  <2>1. \E kind \in Outcomes : conn' = [conn EXCEPT ![c] = kind]
    BY <1>5 DEF connectUnix, connectTCP, timesOut, park, parkTimeout, Outcomes
  <2>2. conn' \in [Clients -> Outcomes]
    BY <2>1 DEF RestTypes
  <2>3. events' \in 0..MaxEvents
    BY <1>5, EventsStep DEF connectUnix, connectTCP, timesOut, RestTypes
  <2> QED BY <1>5, <2>2, <2>3 DEF connectUnix, connectTCP, timesOut, RestTypes
<1> QED
  BY <1>1, <1>2, <1>3, <1>4, <1>5 DEF Environment

\* Every variable of the sleeper and of what works around it has its type.
THEOREM TypeCorrect == Spec => []TypeOK
<1>1. Init => RestTypes
  <2> SUFFICES ASSUME Init PROVE RestTypes
    OBVIOUS
  <2>1. conn \in [Clients -> Outcomes]
    BY DEF Init, Outcomes
  <2>2. loop \in ModeLoops
    BY DEF Init, ModeLoops, LoopPositions
  <2>3. events \in 0..MaxEvents
    BY SleeperAssumption DEF Init
  <2> QED BY <2>1, <2>2, <2>3 DEF Init, RestTypes
<1>2. RestTypes /\ [Next]_vars => RestTypes'
  <2> SUFFICES ASSUME RestTypes, [Next]_vars PROVE RestTypes'
    OBVIOUS
  <2>1. CASE UNCHANGED vars
    BY <2>1 DEF vars, RestTypes
  <2> QED
    BY <2>1, LoopTypes, SuspendTypes, CommandTypes, EnvironmentTypes DEF Next
<1>3. CancelInv /\ ServeInv /\ RestTypes => TypeOK
  BY DEF CancelInv, WindowTypes, ServeInv, ServeTypes, RestTypes, ModeLoops, Commands, TypeOK
<1> QED
  BY <1>1, <1>2, <1>3, ServeInvariant, PTL DEF Spec
=============================================================================
