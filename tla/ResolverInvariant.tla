------------------------- MODULE ResolverInvariant -------------------------
(***************************************************************************)
(* The inductive invariant behind UndisturbedStartHeals.                   *)
(***************************************************************************)
EXTENDS HostResolver

\* The shape of each variable.
Outcomes == {"none", "ok", "warn", "fail"}
HostRecs == [search: Lists, busy: SUBSET Ports]
ProcRecs == [st: {"none", "launched", "bound", "named", "serving"}, port: Maybe(Ports),
             search: Lists \cup {NoList}, pushed: Lists \cup {NoList},
             job: {"idle", "conf", "probe"}]
FileRecs == [addr: Maybe(Ports), port: Maybe(Ports), pid: BOOLEAN, meta: Maybe(Ports)]
GuestRecs == [vm: {"stopped", "running", "suspended"}, works: BOOLEAN, conf: Maybe(Ports),
              loaded: Maybe(Ports), owned: BOOLEAN, list: Lists \cup {NoList}]
CmdRecs == [cmd: {"none", "start", "stop", "suspend"}, kind: {"boot", "live", "wake"},
              pc: {"end", "resolver", "wait", "boot", "read", "conf", "probe", "verify", "owner",
                   "meta", "commit", "stop", "halt"},
              port: Maybe(Ports), list: Lists \cup {NoList}, full: BOOLEAN,
              out: Outcomes, ran: 0 .. MaxCommands,
              clean: BOOLEAN, agree: BOOLEAN]

\* Where a start or a wake is, and where it knows the port it was published.
StartPCs == {"resolver", "wait", "boot", "read", "conf", "probe", "verify", "owner"}
Staging == {"read", "conf", "probe", "verify", "owner"}

\* The process, its published address and the guest's forwarder, with every
\* fault: an address that is published while a process lives is the one it
\* serves, and unbound never runs with another port than its configuration's.
ProcInv ==
    /\ proc.st = "none" => proc.job = "idle"
    /\ proc.st # "none" => files.pid
    /\ proc.st \in {"launched", "bound", "named"} => files.addr = NoPort /\ proc.job = "idle"
    /\ proc.st \in {"bound", "named", "serving"} => proc.port \in Ports
    /\ proc.st = "serving" => files.addr = proc.port /\ proc.search \in Lists
    /\ guest.loaded # NoPort => guest.loaded = guest.conf

\* Which command is where, and the machine it works on.
CommandInv ==
    /\ c.cmd = "none" <=> c.pc = "end"
    /\ c.pc \in StartPCs => c.cmd = "start"
    /\ c.pc = "halt" => c.cmd = "stop"
    /\ c.pc \in {"meta", "commit"} => c.cmd = "suspend"
    /\ c.pc = "stop" => c.cmd = "stop" \/ guest.vm = "suspended"
    /\ c.pc \in Staging => guest.vm = "running" /\ c.port \in Ports
    /\ c.pc \in {"resolver", "wait"} => c.port = NoPort
    /\ c.pc \in {"conf", "probe"} => c.list \in Lists
    /\ c.pc \in {"resolver", "wait", "boot"} /\ c.kind = "live" => guest.vm = "running"

\* What an undisturbed command knows: a resolver it waits for is coming up
\* unless every port is taken, the port it was published is served, and a
\* working forwarder that was configured answers.
CleanInv ==
    c.clean =>
      /\ c.pc = "wait" /\ proc.st = "none" => files.addr = NoPort /\ Ports \subseteq host.busy
      /\ c.pc = "boot" => c.port = NoPort \/ (proc.st = "serving" /\ proc.port = c.port)
      /\ c.pc = "boot" /\ c.port = NoPort => c.kind = "wake"
      /\ c.pc \in Staging => proc.st = "serving" /\ proc.port = c.port
      /\ c.pc \in {"probe", "verify"} /\ guest.works => guest.loaded = c.port
      /\ c.pc = "verify" => guest.owned
      /\ c.pc = "owner" => ~guest.works

HealInv == TypeOK /\ ProcInv /\ CommandInv /\ CleanInv /\ UndisturbedStartHeals
=============================================================================
