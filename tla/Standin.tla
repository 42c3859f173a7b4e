------------------------------ MODULE Standin ------------------------------
(***************************************************************************)
(* The stand-in that holds a suspended machine's host endpoints, and the   *)
(* endpoints themselves: the engine socket, which gvproxy's ssh forward or *)
(* the stand-in serves, and the SSH port, which gvproxy or the stand-in    *)
(* listens on.  Sockets are told apart by inode in the code; here the path *)
(* is named after who bound the inode it points at.                        *)
(***************************************************************************)
EXTENDS Naturals, FiniteSets

CONSTANTS
    Clients,   \* programs that connect to the endpoints
    Pids,      \* processes that run jm commands
    MaxHeld,   \* connections the stand-in holds at once
    Nobody     \* no process (a pid of 0)

ASSUME StandinAssumption ==
    MaxHeld \in Nat \ {0} /\ IsFiniteSet(Clients) /\ Nobody \notin Pids

VARIABLES
    m,      \* the machine: hypervisor, journal, network provider
    sock,   \* the engine socket's path, the forward and its recorded inode
    sl,     \* the stand-in's own fields
    conn,   \* per client: parked on "unix" or "tcp", or its last outcome
    wanted  \* a client or an abort arrived between the arming and the freeze

PidStates == {"off", "stale", "on"}

Machines == [hv: PidStates, journal: {"none", "saving", "saved"}, prov: PidStates]

\* "fwd" is the newest forward's socket, "standin" the stand-in's while it
\* listens, "litter" a socket nobody listens on any more.
Sockets == [path: {"none", "fwd", "standin", "litter"}, fwd: BOOLEAN, ino: BOOLEAN]

\* aside: a hard link to the forward's socket is kept.  to: the process the
\* SSH port was released to.
Standins == [unix: BOOLEAN, aside: BOOLEAN, tcp: {"none", "listen", "released"},
             to: Pids \cup {Nobody}, armed: BOOLEAN, aborted: BOOLEAN]

Outcomes == {"out", "unix", "tcp", "relayed", "closed"}

NewStandin == [unix |-> FALSE, aside |-> FALSE, tcp |-> "none", to |-> Nobody,
               armed |-> FALSE, aborted |-> FALSE]

--------------------------------------------------------------------------
(* What the code reads. *)

\* combineState of the hypervisor's and the provider's state.
State ==
    IF m.prov = "stale" \/ (m.hv # "on" /\ m.journal = "saving") THEN "broken"
    ELSE IF m.hv # "on" /\ m.journal = "saved" THEN "suspended"
    ELSE IF m.hv = "on" /\ m.prov = "on" THEN "running"
    ELSE IF m.hv = "off" /\ m.prov = "off" THEN "stopped"
    ELSE "broken"

held == {c \in Clients : conn[c] \in {"unix", "tcp"}}

full == Cardinality(held) >= MaxHeld

UnixIsOurs == sl.unix /\ sock.path = "standin"

Holding == sl.unix \/ sl.tcp # "none" \/ held # {}

forwardServes == sock.path = "fwd" /\ sock.fwd

Answers == forwardServes \/ sock.path = "standin"

\* Mutant: both endpoints must be back, held or not.
EndpointsBackBoth ==
    sl.unix /\ forwardServes /\ sl.tcp = "released" /\ m.prov = "on"

EndpointsBack ==
    /\ sl.unix => forwardServes
    /\ sl.tcp # "none" => sl.tcp = "released" /\ m.prov = "on"

portFree == sl.tcp # "listen" /\ m.prov # "on"

\* Mutant: the provider is not asked.
nobodyServesUnread == TRUE

\* While the provider runs, a wake is past W2 and owns the endpoints.
nobodyServes == m.prov = "off"

--------------------------------------------------------------------------
(* The stand-in's operations. *)

takeUnix(keep) ==
    /\ sl' = [sl EXCEPT !.unix = TRUE, !.aside = keep /\ sock.path = "fwd"]
    /\ sock' = [sock EXCEPT !.path = "standin"]

RestorePrevious ==
    /\ sl' = [sl EXCEPT !.aside = FALSE]
    /\ sock' = [sock EXCEPT !.path = IF sl.aside /\ UnixIsOurs /\ sock.fwd
                                     THEN "fwd" ELSE @]

DropPrevious == sl' = [sl EXCEPT !.aside = FALSE]

TakeTCP ==
    \/ portFree /\ sl' = [sl EXCEPT !.tcp = "listen", !.to = Nobody]
    \/ UNCHANGED sl

ReleaseTCP(p) ==
    sl' = [sl EXCEPT !.tcp = IF @ = "listen" THEN "released" ELSE @, !.to = p]

\* The path is unlinked only while it is still the stand-in's own socket.
unlinkOurs == sock' = [sock EXCEPT !.path = IF UnixIsOurs THEN "none" ELSE @]

CloseUnix == sl' = [sl EXCEPT !.unix = FALSE, !.aside = FALSE] /\ unlinkOurs

Disarmed(s) == [s EXCEPT !.armed = FALSE]

Arm == sl' = [sl EXCEPT !.armed = TRUE, !.aborted = FALSE]

Abort == sl' = [sl EXCEPT !.aborted = @ \/ sl.armed]

CloseHeld == conn' = [c \in Clients |-> IF c \in held THEN "closed" ELSE conn[c]]

\* Both listeners close, and every parked connection is relayed to a fresh
\* upstream, or closed when nothing serves it.  A listener that still owned
\* the path leaves a socket nobody listens on.
HandOver(s) ==
    /\ sl' = [s EXCEPT !.unix = FALSE, !.aside = FALSE, !.tcp = "none", !.to = Nobody]
    /\ sock' = [sock EXCEPT !.path = IF UnixIsOurs THEN "litter" ELSE @]
    /\ conn' = [c \in Clients |->
         CASE conn[c] = "unix" -> IF forwardServes THEN "relayed" ELSE "closed"
           [] conn[c] = "tcp" -> IF m.prov = "on" THEN "relayed" ELSE "closed"
           [] OTHER -> conn[c]]

\* The connection is closed when the queue is full, and parked otherwise; a
\* parked one cancels a suspend that has not frozen the guest.
park(c, kind) ==
    IF full
    THEN conn' = [conn EXCEPT ![c] = "closed"] /\ UNCHANGED sl
    ELSE conn' = [conn EXCEPT ![c] = kind] /\ Abort

parkTimeout(c) == conn' = [conn EXCEPT ![c] = "closed"]

--------------------------------------------------------------------------
(* The provider's forward, a detached ssh, and the provider. *)

\* The socket goes with the forward only when it is the recorded inode, or
\* when no inode was recorded for the forward just stopped.
stopForward(keepSocket) ==
    LET ours == sock.path = "fwd" /\ sock.ino
        unrecorded == sock.path # "none" /\ ~sock.ino /\ sock.fwd
    IN [path |-> IF ~keepSocket /\ (ours \/ unrecorded) THEN "none"
                ELSE IF sock.path = "fwd" THEN "litter"
                ELSE sock.path,
        fwd |-> FALSE, ino |-> FALSE]

Park == m' = [m EXCEPT !.prov = "off"] /\ sock' = stopForward(TRUE)

\* What a starting provider does with a dead forward's socket: it goes only
\* when it is the recorded inode.
removeForwardLeftover ==
    IF sock.fwd THEN sock
    ELSE IF sock.path = "none" THEN [sock EXCEPT !.ino = FALSE]
    ELSE IF sock.path = "fwd" /\ sock.ino THEN [sock EXCEPT !.path = "none", !.ino = FALSE]
    ELSE sock

\* The sockets once a provider that was not running has been started.
startedProvider == IF m.prov = "stale" THEN stopForward(FALSE) ELSE removeForwardLeftover
=============================================================================
