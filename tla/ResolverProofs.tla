--------------------------- MODULE ResolverProofs ---------------------------
(***************************************************************************)
(* Proofs about HostResolver: its types, and that an undisturbed start or  *)
(* wake heals the guest's resolution.  First what the steps do to each     *)
(* variable, then one lemma per part of the invariant, then the theorems.  *)
(***************************************************************************)
EXTENDS ResolverInvariant, TLAPS

\* The type invariant by variable.
LEMMA Shape ==
    TypeOK <=> /\ host \in HostRecs /\ proc \in ProcRecs /\ files \in FileRecs
               /\ guest \in GuestRecs /\ c \in CmdRecs /\ faults \in 0 .. MaxFaults
               /\ guest.owned => guest.list \in Lists
  BY DEF TypeOK, HostRecs, ProcRecs, FileRecs, GuestRecs, CmdRecs, Outcomes

\* The types of the fields that the steps copy.
LEMMA Fields ==
    ASSUME TypeOK
    PROVE  /\ host.search \in Lists /\ proc.search \in Lists \cup {NoList}
           /\ proc.pushed \in Lists \cup {NoList} /\ c.list \in Lists \cup {NoList}
           /\ proc.port \in Maybe(Ports) /\ files.addr \in Maybe(Ports)
           /\ files.port \in Maybe(Ports) /\ guest.conf \in Maybe(Ports)
           /\ c.port \in Maybe(Ports) /\ c.clean \in BOOLEAN /\ c.full \in BOOLEAN
           /\ guest.owned \in BOOLEAN /\ c.ran \in 0 .. MaxCommands
  BY Shape DEF HostRecs, ProcRecs, FileRecs, GuestRecs, CmdRecs

\* A command that ends, or is disturbed, keeps its shape (End, disturbed).
LEMMA CmdUpdates ==
    ASSUME c \in CmdRecs
    PROVE  /\ \A o \in Outcomes : End(o) \in CmdRecs
           /\ \A o \in Outcomes : [End(o) EXCEPT !.clean = FALSE] \in CmdRecs
           /\ disturbed \in CmdRecs
<1>1. \A o \in Outcomes : End(o) \in CmdRecs
  BY DEF End, CmdRecs
<1>2. \A d \in CmdRecs : [d EXCEPT !.clean = FALSE] \in CmdRecs
  BY DEF CmdRecs
<1> QED BY <1>1, <1>2 DEF disturbed

\* What a command remembers keeps its shape: the steps that copy a field.
LEMMA CommandSteps ==
    ASSUME TypeOK
    PROVE  /\ Published => c' \in CmdRecs
           /\ NotPublished => c' \in CmdRecs
           /\ Boot => c' \in CmdRecs
           /\ ReadSearch => c' \in CmdRecs
           /\ ApplyConf => c' \in CmdRecs
           /\ ApplyProbe => c' \in CmdRecs
           /\ Owner => c' \in CmdRecs
           /\ BeginStart => c' \in CmdRecs
           /\ BeginStop \/ BeginSuspend => c' \in CmdRecs
<1>0. c \in CmdRecs
  BY Shape
<1>1. Published => c' \in CmdRecs
  BY <1>0, Fields DEF Published, CmdRecs
<1>2. ASSUME NotPublished PROVE c' \in CmdRecs
  <2>1. CASE c.kind = "wake"
    BY <1>0, <1>2, <2>1 DEF NotPublished, CmdRecs
  <2>2. CASE c.kind # "wake"
    <3>1. c' = [End("fail") EXCEPT !.clean = @ /\ faults' = faults]
      BY <1>2, <2>2 DEF NotPublished
    <3>2. ASSUME NEW d \in CmdRecs, NEW b \in BOOLEAN
          PROVE  [d EXCEPT !.clean = b] \in CmdRecs
      BY DEF CmdRecs
    <3>3. End("fail") \in CmdRecs /\ (End("fail").clean /\ faults' = faults) \in BOOLEAN
      BY <1>0, CmdUpdates DEF Outcomes
    <3> QED BY <3>1, <3>2, <3>3
  <2> QED BY <2>1, <2>2
<1>3. ASSUME Boot PROVE c' \in CmdRecs
  <2>1. CASE c.port = NoPort
    BY <1>0, <1>3, <2>1, CmdUpdates DEF Boot, Outcomes
  <2>2. CASE c.port # NoPort
    <3>1. c' = [c EXCEPT !.pc = "read", !.full = c.kind # "wake" \/ files.meta # c.port]
      BY <1>3, <2>2 DEF Boot
    <3>2. ASSUME NEW b \in BOOLEAN
          PROVE  [c EXCEPT !.pc = "read", !.full = b] \in CmdRecs
      BY <1>0 DEF CmdRecs
    <3> QED BY <3>1, <3>2
  <2> QED BY <2>1, <2>2
<1>4. ReadSearch => c' \in CmdRecs
  BY <1>0, Fields DEF ReadSearch, CmdRecs
<1>5. ASSUME ApplyConf PROVE c' \in CmdRecs
    <3>1. c' = [c EXCEPT !.pc = "probe", !.clean = c.clean /\ faults' = faults]
      BY <1>0, <1>5 DEF ApplyConf, CmdRecs
    <3>2. ASSUME NEW b \in BOOLEAN
          PROVE  [c EXCEPT !.pc = "probe", !.clean = b] \in CmdRecs
      BY <1>0 DEF CmdRecs
    <3> QED BY <3>1, <3>2
<1>6. ASSUME ApplyProbe PROVE c' \in CmdRecs
  <2>1. ASSUME NEW d \in CmdRecs, NEW b \in BOOLEAN
        PROVE  [d EXCEPT !.agree = b] \in CmdRecs
    BY DEF CmdRecs
  <2>2. [c EXCEPT !.pc = "verify"] \in CmdRecs /\ [c EXCEPT !.pc = "owner"] \in CmdRecs
    BY <1>0 DEF CmdRecs
  <2>3. End("ok") \in CmdRecs /\ End("warn") \in CmdRecs
    BY <1>0, CmdUpdates DEF Outcomes
  <2> QED BY <1>6, <2>1, <2>2, <2>3 DEF ApplyProbe
<1>7. Owner => c' \in CmdRecs
  BY <1>0, CmdUpdates DEF Owner, ownerOutcome, Outcomes
<1>8. ASSUME NEW cmd \in {"start", "stop", "suspend"}, NEW kind \in {"boot", "live", "wake"},
             NEW pc \in {"resolver", "stop", "meta"}, Begin(cmd, kind, pc)
      PROVE  c' \in CmdRecs
  <2>1. c.ran + 1 \in 0 .. MaxCommands
    BY <1>8, Fields, ResolverAssumption DEF Begin
  <2> QED BY <1>0, <1>8, <2>1 DEF Begin, CmdRecs, Maybe, Outcomes
<1>9. BeginStart => c' \in CmdRecs
  BY <1>8 DEF BeginStart
<1>10. BeginStop \/ BeginSuspend => c' \in CmdRecs
  BY <1>8 DEF BeginStop, BeginSuspend
<1> QED BY <1>1, <1>2, <1>3, <1>4, <1>5, <1>6, <1>7, <1>9, <1>10

\* The guest script's first half: it changes the configuration and unbound, which
\* runs with the configured port or not at all, and without a fault a guest whose
\* unbound works has it running (writeConf).
LEMMA RestartSteps ==
    ASSUME TypeOK, NEW p \in Ports, Restarts(p)
    PROVE  /\ guest' \in GuestRecs
           /\ guest'.vm = guest.vm /\ guest'.works = guest.works /\ guest'.conf = p
           /\ guest'.owned = guest.owned /\ guest'.list = guest.list
           /\ (guest.loaded # NoPort => guest.loaded = guest.conf) => guest'.loaded \in {p, NoPort}
           /\ faults' \in 0 .. MaxFaults
           /\ ((guest.loaded # NoPort => guest.loaded = guest.conf) /\ faults' = faults /\ guest.works)
                => guest'.loaded = p
<1>0. guest \in GuestRecs /\ guest.works \in BOOLEAN /\ faults \in 0 .. MaxFaults /\ p # NoPort
  BY Shape, ResolverAssumption DEF GuestRecs
<1>1. ASSUME NEW b \in BOOLEAN, guest' = writeConf(p, b)
      PROVE  /\ guest' \in GuestRecs
             /\ guest'.vm = guest.vm /\ guest'.works = guest.works /\ guest'.conf = p
             /\ guest'.owned = guest.owned /\ guest'.list = guest.list
             /\ guest'.loaded = IF guest.conf = p /\ guest.loaded # NoPort THEN guest.loaded
                                ELSE IF guest.works /\ b THEN p ELSE NoPort
  <2> DEFINE x == IF guest.conf = p /\ guest.loaded # NoPort THEN guest.loaded
                  ELSE IF guest.works /\ b THEN p ELSE NoPort
  <2>1. x \in Maybe(Ports) /\ p \in Maybe(Ports)
    BY <1>0 DEF GuestRecs, Maybe
  <2>2. guest' = [guest EXCEPT !.conf = p, !.loaded = x]
    BY <1>0, <1>1 DEF writeConf, GuestRecs
  <2> HIDE DEF x
  <2>3. /\ guest' \in GuestRecs /\ guest'.loaded = x
        /\ guest'.vm = guest.vm /\ guest'.works = guest.works /\ guest'.conf = p
        /\ guest'.owned = guest.owned /\ guest'.list = guest.list
    BY <1>0, <2>1, <2>2 DEF GuestRecs
  <2> QED BY <2>3 DEF x
<1>2. CASE guest' = writeConf(p, TRUE) /\ faults' = faults
  BY <1>0, <1>1, <1>2
<1>3. CASE guest' = writeConf(p, FALSE) /\ fault
  <2>1. faults' \in 0 .. MaxFaults /\ faults' # faults
    BY <1>0, <1>3, ResolverAssumption DEF fault
  <2> QED BY <1>0, <1>1, <1>3, <2>1
<1> QED BY <1>2, <1>3 DEF Restarts

\* The second half: resolv.conf is jm's and has the list (takeOver).
LEMMA TakeOverSteps ==
    ASSUME TypeOK, NEW l \in Lists \cup {NoList}, guest' = takeOver(l)
    PROVE  /\ guest' \in GuestRecs
           /\ guest'.vm = guest.vm /\ guest'.works = guest.works /\ guest'.conf = guest.conf
           /\ guest'.loaded = guest.loaded /\ guest'.owned /\ guest'.list = l
  BY Shape DEF takeOver, GuestRecs

\* Every step keeps the shape of the command.
LEMMA CommandTyped ==
    ASSUME TypeOK, Next
    PROVE  c' \in CmdRecs
<1>0. /\ host \in HostRecs /\ proc \in ProcRecs /\ files \in FileRecs
      /\ guest \in GuestRecs /\ c \in CmdRecs
  BY Shape
<1>1. CASE \/ Published \/ NotPublished \/ Boot \/ ReadSearch \/ ApplyConf
           \/ ApplyProbe \/ Owner \/ BeginStart \/ BeginStop \/ BeginSuspend
  BY <1>1, CommandSteps
<1>2. CASE StartResolver \/ SuspendMeta \/ SuspendCommit
  BY <1>2, <1>0 DEF StartResolver, SuspendMeta, SuspendCommit, CmdRecs
<1>3. CASE BootFails \/ Verify \/ StopResolver \/ StopGuest \/ Killed
  <2>1. [c EXCEPT !.pc = "owner"] \in CmdRecs /\ [c EXCEPT !.pc = "halt"] \in CmdRecs
    BY <1>0 DEF CmdRecs
  <2> QED BY <1>3, <1>0, <2>1, CmdUpdates
      DEF BootFails, Verify, StopResolver, StopGuest, Killed, Outcomes
<1>4. CASE ResolverDies \/ PortTaken \/ ForwarderDies
  BY <1>4, <1>0, CmdUpdates DEF ResolverDies, PortTaken, ForwarderDies
<1>5. CASE PushConf
  BY <1>5, <1>0, CmdUpdates DEF PushConf
<1>6. CASE \/ Listen \/ ListenFails \/ PublishPort \/ PublishAddr \/ Poll
           \/ PushProbe \/ PushFails \/ SearchMoves
  BY <1>6, <1>0
  DEF Listen, ListenFails, PublishPort, PublishAddr, Poll, PushProbe, PushFails,
      SearchMoves
<1> QED
  BY <1>1, <1>2, <1>3, <1>4, <1>5, <1>6
  DEF Next, ProcNext, WatchNext, CommandNext, Events

\* Every step keeps the shape of the process.
LEMMA ProcessTyped ==
    ASSUME TypeOK, Next
    PROVE  proc' \in ProcRecs
<1>0. /\ host \in HostRecs /\ proc \in ProcRecs /\ files \in FileRecs
      /\ guest \in GuestRecs /\ c \in CmdRecs
  BY Shape
<1>1. CASE ListenFails \/ NotPublished \/ BootFails \/ StopResolver \/ ResolverDies
  BY <1>1, <1>0
  DEF ListenFails, NotPublished, BootFails, StopResolver, ResolverDies, noProc,
      ProcRecs, Maybe
<1>2. CASE StartResolver
  BY <1>2, <1>0 DEF StartResolver, noProc, ProcRecs, Maybe
<1>3. CASE PublishAddr
  BY <1>3, <1>0, Fields DEF PublishAddr, ProcRecs
<1>4. CASE Poll
  BY <1>4, <1>0, Fields DEF Poll, poll, ProcRecs
<1>5. CASE Listen \/ PublishPort \/ PushConf \/ PushProbe \/ PushFails
  BY <1>5, <1>0, Fields
  DEF Listen, PublishPort, PushConf, PushProbe, PushFails, ProcRecs, Maybe
<1>6. CASE \/ Published \/ Boot \/ ReadSearch \/ ApplyConf \/ ApplyProbe \/ Verify
           \/ Owner \/ StopGuest \/ SuspendMeta \/ SuspendCommit \/ Killed
           \/ PortTaken \/ ForwarderDies \/ SearchMoves \/ BeginStart \/ BeginStop
           \/ BeginSuspend
  BY <1>6, <1>0
  DEF Published, Boot, ReadSearch, ApplyConf, ApplyProbe, Verify, Owner, StopGuest,
      SuspendMeta, SuspendCommit, Killed, PortTaken, ForwarderDies, SearchMoves,
      BeginStart, BeginStop, BeginSuspend, Begin
<1> QED
  BY <1>1, <1>2, <1>3, <1>4, <1>5, <1>6
  DEF Next, ProcNext, WatchNext, CommandNext, Events

\* Every step keeps the shape of the files.
LEMMA FilesTyped ==
    ASSUME TypeOK, Next
    PROVE  files' \in FileRecs
<1>0. /\ host \in HostRecs /\ proc \in ProcRecs /\ files \in FileRecs
      /\ guest \in GuestRecs /\ c \in CmdRecs
  BY Shape
<1>1. CASE PublishPort \/ PublishAddr \/ SuspendMeta
  BY <1>1, <1>0, Fields DEF PublishPort, PublishAddr, SuspendMeta, FileRecs
<1>2. CASE StartResolver \/ NotPublished \/ BootFails \/ StopResolver
  BY <1>2, <1>0
  DEF StartResolver, NotPublished, BootFails, StopResolver, launched, FileRecs,
      Maybe
<1>3. CASE \/ Listen \/ ListenFails \/ Poll \/ PushConf \/ PushProbe \/ PushFails
           \/ Published \/ Boot \/ ReadSearch \/ ApplyConf \/ ApplyProbe \/ Verify
           \/ Owner \/ StopGuest \/ SuspendCommit \/ Killed \/ ResolverDies
           \/ PortTaken \/ ForwarderDies \/ SearchMoves \/ BeginStart \/ BeginStop
           \/ BeginSuspend
  BY <1>3, <1>0
  DEF Listen, ListenFails, Poll, PushConf, PushProbe, PushFails, Published, Boot,
      ReadSearch, ApplyConf, ApplyProbe, Verify, Owner, StopGuest, SuspendCommit,
      Killed, ResolverDies, PortTaken, ForwarderDies, SearchMoves, BeginStart,
      BeginStop, BeginSuspend, Begin
<1> QED
  BY <1>1, <1>2, <1>3
  DEF Next, ProcNext, WatchNext, CommandNext, Events

\* Every step keeps the shape of the guest, and a resolv.conf of jm's has a list.
LEMMA GuestTyped ==
    ASSUME TypeOK, ProcInv, CommandInv, Next
    PROVE  guest' \in GuestRecs /\ (guest'.owned => guest'.list \in Lists)
<1>0. /\ host \in HostRecs /\ proc \in ProcRecs /\ files \in FileRecs
      /\ guest \in GuestRecs /\ c \in CmdRecs
  BY Shape
<1>1. guest.owned => guest.list \in Lists
  BY Shape
<1>2. CASE PushConf
  <2>1. proc.port \in Ports
    BY <1>0, <1>2 DEF PushConf, ProcInv, ProcRecs
  <2> QED BY <1>1, <1>2, <2>1, RestartSteps DEF PushConf
<1>3. CASE ApplyConf
  <2>1. c.port \in Ports
    BY <1>3 DEF ApplyConf, CommandInv, Staging
  <2> QED BY <1>1, <1>3, <2>1, RestartSteps DEF ApplyConf
<1>4. CASE PushProbe
  <2>1. proc.search \in Lists
    BY <1>0, <1>4 DEF PushProbe, ProcInv, ProcRecs
  <2> QED BY <1>4, <2>1, TakeOverSteps DEF PushProbe
<1>5. CASE ApplyProbe
  <2>1. c.list \in Lists
    BY <1>5 DEF ApplyProbe, CommandInv
  <2> QED BY <1>0, <1>1, <1>5, <2>1, TakeOverSteps DEF ApplyProbe
<1>6. CASE Boot
  BY <1>0, <1>1, <1>6 DEF Boot, booted, GuestRecs, Maybe
<1>7. CASE StopGuest \/ SuspendCommit \/ ForwarderDies
  BY <1>7, <1>0, <1>1 DEF StopGuest, SuspendCommit, ForwarderDies, GuestRecs, Maybe
<1>8. CASE \/ Listen \/ ListenFails \/ PublishPort \/ PublishAddr \/ Poll
           \/ PushFails \/ StartResolver \/ Published \/ NotPublished \/ BootFails
           \/ ReadSearch \/ Verify \/ Owner \/ StopResolver \/ SuspendMeta \/ Killed
           \/ ResolverDies \/ PortTaken \/ SearchMoves \/ BeginStart \/ BeginStop
           \/ BeginSuspend
  BY <1>8, <1>0, <1>1
  DEF Listen, ListenFails, PublishPort, PublishAddr, Poll, PushFails, StartResolver,
      Published, NotPublished, BootFails, ReadSearch, Verify, Owner, StopResolver,
      SuspendMeta, Killed, ResolverDies, PortTaken, SearchMoves, BeginStart,
      BeginStop, BeginSuspend, Begin
<1> QED
  BY <1>2, <1>3, <1>4, <1>5, <1>6, <1>7, <1>8
  DEF Next, ProcNext, WatchNext, CommandNext, Events

\* Every step keeps the shape of the host.
LEMMA HostTyped ==
    ASSUME TypeOK, Next
    PROVE  host' \in HostRecs
<1>0. /\ host \in HostRecs /\ proc \in ProcRecs /\ files \in FileRecs
      /\ guest \in GuestRecs /\ c \in CmdRecs
  BY Shape
<1>1. CASE PortTaken
  BY <1>1, <1>0 DEF PortTaken, HostRecs
<1>2. CASE SearchMoves
  BY <1>2, <1>0 DEF SearchMoves, HostRecs
<1>3. CASE \/ Listen \/ ListenFails \/ PublishPort \/ PublishAddr \/ Poll
           \/ PushConf \/ PushProbe \/ PushFails \/ StartResolver \/ Published
           \/ NotPublished \/ Boot \/ BootFails \/ ReadSearch \/ ApplyConf
           \/ ApplyProbe \/ Verify \/ Owner \/ StopResolver \/ StopGuest
           \/ SuspendMeta \/ SuspendCommit \/ Killed \/ ResolverDies
           \/ ForwarderDies \/ BeginStart \/ BeginStop \/ BeginSuspend
  BY <1>3, <1>0
  DEF Listen, ListenFails, PublishPort, PublishAddr, Poll, PushConf, PushProbe,
      PushFails, StartResolver, Published, NotPublished, Boot, BootFails,
      ReadSearch, ApplyConf, ApplyProbe, Verify, Owner, StopResolver, StopGuest,
      SuspendMeta, SuspendCommit, Killed, ResolverDies, ForwarderDies, BeginStart,
      BeginStop, BeginSuspend, Begin
<1> QED
  BY <1>1, <1>2, <1>3
  DEF Next, ProcNext, WatchNext, CommandNext, Events

\* Every step keeps the count of faults within its bound.
LEMMA FaultsTyped ==
    ASSUME TypeOK, ProcInv, CommandInv, Next
    PROVE  faults' \in 0 .. MaxFaults
<1>0. faults \in 0 .. MaxFaults /\ (fault => faults' \in 0 .. MaxFaults)
  BY Shape, ResolverAssumption DEF fault
<1>1. CASE PushConf
  BY <1>0, <1>1 DEF PushConf, Restarts
<1>2. CASE ApplyConf
  BY <1>0, <1>2 DEF ApplyConf, Restarts
<1>3. CASE \/ PushFails \/ NotPublished \/ BootFails \/ Owner \/ Killed
           \/ ResolverDies \/ PortTaken \/ ForwarderDies \/ SearchMoves
  BY <1>3, <1>0
  DEF PushFails, NotPublished, BootFails, Owner, Killed, ResolverDies, PortTaken,
      ForwarderDies, SearchMoves
<1>4. CASE \/ Listen \/ ListenFails \/ PublishPort \/ PublishAddr \/ Poll
           \/ PushProbe \/ StartResolver \/ Published \/ Boot \/ ReadSearch
           \/ ApplyProbe \/ Verify \/ StopResolver \/ StopGuest \/ SuspendMeta
           \/ SuspendCommit \/ BeginStart \/ BeginStop \/ BeginSuspend
  BY <1>4, <1>0
  DEF Listen, ListenFails, PublishPort, PublishAddr, Poll, PushProbe, StartResolver,
      Published, Boot, ReadSearch, ApplyProbe, Verify, StopResolver, StopGuest,
      SuspendMeta, SuspendCommit, BeginStart, BeginStop, BeginSuspend, Begin
<1> QED
  BY <1>1, <1>2, <1>3, <1>4
  DEF Next, ProcNext, WatchNext, CommandNext, Events

\* Every step keeps what the process, its address and unbound have to do with
\* each other.
LEMMA ProcKept ==
    ASSUME TypeOK, ProcInv, CommandInv, Next
    PROVE  ProcInv'
<1>0. /\ host \in HostRecs /\ proc \in ProcRecs /\ files \in FileRecs
      /\ guest \in GuestRecs /\ c \in CmdRecs
  BY Shape
<1>1. CASE \/ Published \/ ReadSearch \/ Verify \/ Owner \/ Killed \/ PortTaken
           \/ SearchMoves \/ BeginStart \/ BeginStop \/ BeginSuspend
  BY <1>1
  DEF Published, ReadSearch, Verify, Owner, Killed, PortTaken, SearchMoves,
      BeginStart, BeginStop, BeginSuspend, ProcInv, Begin
<1>2. CASE ListenFails \/ NotPublished \/ BootFails \/ StopResolver \/ ResolverDies
  BY <1>2, <1>0
  DEF ListenFails, NotPublished, BootFails, StopResolver, ResolverDies, noProc,
      ProcInv
<1>3. CASE StartResolver
  <2>1. \/ UNCHANGED <<proc, files>>
        \/ proc' = [noProc EXCEPT !.st = "launched"] /\ files' = launched
    BY <1>3 DEF StartResolver
  <2>2. guest' = guest
    BY <1>3 DEF StartResolver
  <2>3. launched.addr = NoPort /\ launched.pid
    BY <1>0 DEF launched, FileRecs
  <2> QED BY <2>1, <2>2, <2>3 DEF ProcInv, noProc
<1>4. CASE Listen \/ PublishPort \/ PublishAddr \/ SuspendMeta
  <2>1. CASE Listen
    BY <1>0, <2>1 DEF Listen, ProcInv, ProcRecs
  <2>2. CASE PublishPort
    BY <1>0, <2>2 DEF PublishPort, ProcInv, ProcRecs, FileRecs
  <2>3. CASE PublishAddr
    BY <1>0, <2>3, Fields DEF PublishAddr, ProcInv, ProcRecs, FileRecs
  <2>4. CASE SuspendMeta
    BY <1>0, <2>4 DEF SuspendMeta, ProcInv, FileRecs
  <2> QED BY <1>4, <2>1, <2>2, <2>3, <2>4
<1>5. CASE Poll \/ PushFails
  BY <1>5, <1>0, Fields DEF Poll, PushFails, poll, ProcInv, ProcRecs
<1>6. CASE PushConf
  <2>1. proc.port \in Ports /\ proc.st = "serving"
    BY <1>0, <1>6 DEF PushConf, ProcInv, ProcRecs
  <2>2. guest'.conf = proc.port /\ guest'.loaded \in {proc.port, NoPort}
    BY <1>6, <2>1, RestartSteps DEF PushConf, ProcInv
  <2> QED BY <1>0, <1>6, <2>1, <2>2 DEF PushConf, ProcInv, ProcRecs
<1>7. CASE ApplyConf
  <2>1. c.port \in Ports
    BY <1>7 DEF ApplyConf, CommandInv, Staging
  <2>2. guest'.conf = c.port /\ guest'.loaded \in {c.port, NoPort}
    BY <1>7, <2>1, RestartSteps DEF ApplyConf, ProcInv
  <2> QED BY <1>7, <2>2 DEF ApplyConf, ProcInv
<1>8. CASE PushProbe
  <2>1. guest'.loaded = guest.loaded /\ guest'.conf = guest.conf
    BY <1>8, Fields, TakeOverSteps DEF PushProbe
  <2> QED BY <1>0, <1>8, <2>1 DEF PushProbe, ProcInv, ProcRecs
<1>9. CASE ApplyProbe
  <2>1. guest'.loaded = guest.loaded /\ guest'.conf = guest.conf
    BY <1>9, Fields, TakeOverSteps DEF ApplyProbe
  <2> QED BY <1>9, <2>1 DEF ApplyProbe, ProcInv
<1>10. CASE Boot \/ StopGuest \/ SuspendCommit \/ ForwarderDies
  <2>1. guest'.conf = guest.conf /\ guest'.loaded \in {guest.loaded, guest.conf, NoPort}
    BY <1>10, <1>0
    DEF Boot, booted, StopGuest, SuspendCommit, ForwarderDies, GuestRecs
  <2>2. UNCHANGED <<proc, files>>
    BY <1>10 DEF Boot, StopGuest, SuspendCommit, ForwarderDies
  <2> QED BY <2>1, <2>2 DEF ProcInv
<1> QED
  BY <1>1, <1>2, <1>3, <1>4, <1>5, <1>6, <1>7, <1>8, <1>9, <1>10
  DEF Next, ProcNext, WatchNext, CommandNext, Events

\* Every step keeps which command is where.
LEMMA CommandKept ==
    ASSUME TypeOK, ProcInv, CommandInv, Next
    PROVE  CommandInv'
<1>0. /\ host \in HostRecs /\ proc \in ProcRecs /\ files \in FileRecs
      /\ guest \in GuestRecs /\ c \in CmdRecs
  BY Shape
<1> USE DEF StartPCs, Staging
<1>1. CASE \/ Listen \/ ListenFails \/ PublishPort \/ PublishAddr \/ Poll
           \/ PushFails \/ SearchMoves
  BY <1>1
  DEF Listen, ListenFails, PublishPort, PublishAddr, Poll, PushFails, SearchMoves,
      CommandInv
<1>2. CASE ResolverDies \/ PortTaken \/ ForwarderDies
  BY <1>2, <1>0
  DEF ResolverDies, PortTaken, ForwarderDies, CommandInv, disturbed, CmdRecs,
      GuestRecs
<1>3. CASE PushConf
  <2>1. proc.port \in Ports
    BY <1>0, <1>3 DEF PushConf, ProcInv, ProcRecs
  <2>2. guest'.vm = guest.vm
    BY <1>3, <2>1, RestartSteps DEF PushConf
  <2>3. c' = c \/ c' = disturbed
    BY <1>3 DEF PushConf
  <2>4. c'.cmd = c.cmd /\ c'.pc = c.pc /\ c'.kind = c.kind /\ c'.port = c.port /\ c'.list = c.list
    BY <1>0, <2>3 DEF disturbed, CmdRecs
  <2> QED BY <2>2, <2>4 DEF CommandInv
<1>4. CASE PushProbe
  <2>1. guest'.vm = guest.vm /\ c' = c
    BY <1>4, Fields, TakeOverSteps DEF PushProbe
  <2> QED BY <2>1 DEF CommandInv
<1>5. CASE BeginStart
  <2>1. guest' = guest /\ c'.cmd = "start" /\ c'.pc = "resolver" /\ c'.port = NoPort
    BY <1>5, <1>0 DEF BeginStart, Begin, CmdRecs
  <2>2. c'.kind = "live" => guest.vm = "running"
    BY <1>5, <1>0 DEF BeginStart, Begin, CmdRecs, GuestRecs
  <2> QED BY <2>1, <2>2 DEF CommandInv
<1>6. CASE BeginStop \/ BeginSuspend
  <2>1. \/ c'.cmd = "stop" /\ c'.pc = "stop"
        \/ c'.cmd = "suspend" /\ c'.pc = "meta"
    BY <1>6, <1>0 DEF BeginStop, BeginSuspend, Begin, CmdRecs
  <2> QED BY <2>1 DEF CommandInv
<1>7. CASE StartResolver \/ Published \/ NotPublished
  <2>1. c.pc \in {"resolver", "wait"} /\ guest' = guest
    BY <1>7 DEF StartResolver, Published, NotPublished
  <2>2. \/ c'.cmd = "none" /\ c'.pc = "end"
        \/ /\ c'.cmd = c.cmd /\ c'.kind = c.kind
           /\ c'.pc = "boot" \/ (c'.pc = "wait" /\ c'.port = c.port)
    BY <1>7, <1>0 DEF StartResolver, Published, NotPublished, End, CmdRecs
  <2> QED BY <2>1, <2>2 DEF CommandInv
<1>8. CASE Boot
  <2>1. c.pc = "boot" /\ guest'.vm \in {guest.vm, "running"}
    BY <1>8, <1>0 DEF Boot, booted, GuestRecs
  <2>2. \/ c'.cmd = "none" /\ c'.pc = "end"
        \/ c'.cmd = c.cmd /\ c'.pc = "read" /\ c'.port = c.port /\ c.port # NoPort
    BY <1>8, <1>0 DEF Boot, End, CmdRecs
  <2>3. guest'.vm = "running"
    BY <1>8, <1>0, <2>1 DEF Boot, booted, CommandInv, GuestRecs, CmdRecs
  <2> QED BY <2>1, <2>2, <2>3, Fields DEF CommandInv, Maybe
<1>9. CASE BootFails \/ Killed \/ StopGuest
  <2>1. c'.cmd = "none" /\ c'.pc = "end"
    BY <1>9, <1>0 DEF BootFails, Killed, StopGuest, End, CmdRecs
  <2> QED BY <2>1 DEF CommandInv
<1>10. CASE ReadSearch \/ Verify
  <2>1. c.pc \in {"read", "verify"} /\ guest' = guest
    BY <1>10 DEF ReadSearch, Verify
  <2>2. \/ c'.cmd = "none" /\ c'.pc = "end"
        \/ /\ c'.cmd = c.cmd /\ c'.port = c.port
           /\ c'.pc = "owner" \/ (c'.pc = "conf" /\ c'.list = host.search)
    BY <1>10, <1>0 DEF ReadSearch, Verify, End, CmdRecs
  <2> QED BY <2>1, <2>2, Fields DEF CommandInv
<1>11. CASE StopResolver
  BY <1>11, <1>0 DEF StopResolver, End, CommandInv, CmdRecs
<1>12. CASE SuspendMeta \/ SuspendCommit
  BY <1>12, <1>0 DEF SuspendMeta, SuspendCommit, CommandInv, CmdRecs, GuestRecs
<1>13. CASE ApplyConf
  <2>1. c.pc = "conf" /\ c.port \in Ports
    BY <1>13 DEF ApplyConf, CommandInv
  <2>2. guest'.vm = guest.vm
    BY <1>13, <2>1, RestartSteps DEF ApplyConf
  <2>3. /\ c'.cmd = c.cmd /\ c'.pc = "probe" /\ c'.kind = c.kind /\ c'.port = c.port
        /\ c'.list = c.list
    BY <1>0, <1>13 DEF ApplyConf, CmdRecs
  <2> QED BY <2>1, <2>2, <2>3 DEF CommandInv
<1>14. CASE ApplyProbe
  <2>1. guest'.vm = guest.vm
    BY <1>14, Fields, TakeOverSteps DEF ApplyProbe
  <2>2. /\ c.pc = "probe" /\ c'.port = c.port
        /\ \/ c'.cmd = c.cmd /\ c'.pc \in {"verify", "owner"}
           \/ c'.cmd = "none" /\ c'.pc = "end"
    <3>1. c.pc = "probe" /\ (Answers \/ ~Answers)
      BY <1>14 DEF ApplyProbe
    <3>2. CASE Answers
      BY <1>0, <1>14, <3>1, <3>2 DEF ApplyProbe, End, CmdRecs
    <3>3. CASE ~Answers
      BY <1>0, <1>14, <3>1, <3>3 DEF ApplyProbe, End, CmdRecs
    <3> QED BY <3>1, <3>2, <3>3
  <2> QED BY <2>1, <2>2 DEF CommandInv
<1>15. CASE Owner
  <2>1. c'.cmd = "none" /\ c'.pc = "end"
    BY <1>0, <1>15 DEF Owner, End, CmdRecs
  <2> QED BY <2>1 DEF CommandInv
<1> QED
  BY <1>1, <1>2, <1>3, <1>4, <1>5, <1>6, <1>7, <1>8, <1>9, <1>10, <1>11, <1>12, <1>13, <1>14, <1>15
  DEF Next, ProcNext, WatchNext, CommandNext, Events

\* Every step keeps what an undisturbed command knows.
LEMMA CleanKept ==
    ASSUME TypeOK, ProcInv, CommandInv, CleanInv, Next
    PROVE  CleanInv'
<1>0. /\ host \in HostRecs /\ proc \in ProcRecs /\ files \in FileRecs
      /\ guest \in GuestRecs /\ c \in CmdRecs
  BY Shape
<1> USE DEF StartPCs, Staging
<1>1. CASE Listen \/ ListenFails \/ PublishPort \/ PublishAddr
  <2>1. CASE Listen \/ PublishPort \/ PublishAddr
    <3>1. proc.st \notin {"none", "serving"} /\ proc'.st # "none" /\ UNCHANGED <<host, guest, c>>
      BY <1>0, <2>1 DEF Listen, PublishPort, PublishAddr, ProcRecs
    <3>2. c.clean => c.pc \notin Staging /\ ~(c.pc = "boot" /\ c.port # NoPort)
      BY <3>1 DEF CleanInv
    <3> QED BY <3>1, <3>2 DEF CleanInv
  <2>2. CASE ListenFails
    BY <1>0, <2>2 DEF ListenFails, CleanInv, ProcInv, noProc
  <2> QED BY <1>1, <2>1, <2>2
<1>2. CASE Poll \/ PushFails
  BY <1>2, <1>0 DEF Poll, PushFails, CleanInv, ProcInv, CommandInv, poll, ProcRecs
<1>3. CASE SearchMoves
  BY <1>3, <1>0 DEF SearchMoves, CleanInv, ProcInv, CommandInv, HostRecs
<1>4. CASE PushConf
  <2>1. proc.port \in Ports /\ proc.st = "serving"
    BY <1>0, <1>4 DEF PushConf, ProcInv, ProcRecs
  <2>2. /\ guest'.vm = guest.vm /\ guest'.works = guest.works /\ guest'.owned = guest.owned
        /\ (faults' = faults /\ guest.works) => guest'.loaded = proc.port
    BY <1>4, <2>1, RestartSteps DEF PushConf, ProcInv
  <2>3. /\ proc'.st = proc.st /\ proc'.port = proc.port /\ UNCHANGED <<host, files>>
        /\ IF faults' = faults THEN c' = c ELSE ~c'.clean
    BY <1>0, <1>4 DEF PushConf, disturbed, ProcRecs, CmdRecs
  <2> QED BY <2>1, <2>2, <2>3 DEF CleanInv
<1>5. CASE PushProbe
  <2>1. /\ guest'.vm = guest.vm /\ guest'.works = guest.works /\ guest'.owned
        /\ guest'.loaded = guest.loaded
    BY <1>5, Fields, TakeOverSteps DEF PushProbe
  <2>2. proc'.st = proc.st /\ proc'.port = proc.port /\ UNCHANGED <<host, files, c>>
    BY <1>0, <1>5 DEF PushProbe, ProcRecs
  <2> QED BY <2>1, <2>2 DEF CleanInv
<1>6. CASE ResolverDies \/ PortTaken \/ ForwarderDies \/ BootFails \/ Killed
  <2>1. ~c'.clean
    BY <1>0, <1>6
    DEF ResolverDies, PortTaken, ForwarderDies, BootFails, Killed, disturbed, End,
        CmdRecs
  <2> QED BY <2>1 DEF CleanInv
<1>7. CASE BeginStart \/ BeginStop \/ BeginSuspend
  <2>1. c'.pc \in {"resolver", "stop", "meta"}
    BY <1>0, <1>7 DEF BeginStart, BeginStop, BeginSuspend, Begin, CmdRecs
  <2> QED BY <2>1 DEF CleanInv
<1>8. CASE StartResolver
  <2>1. c'.pc = "wait" /\ proc'.st # "none"
    BY <1>0, <1>8 DEF StartResolver, Alive, noProc, CmdRecs
  <2> QED BY <2>1 DEF CleanInv
<1>9. CASE Published
  <2>1. /\ c.pc = "wait" /\ files.addr # NoPort /\ proc' = proc
        /\ c'.pc = "boot" /\ c'.port = files.addr /\ c'.clean = c.clean
    BY <1>0, <1>9 DEF Published, CmdRecs
  <2>2. c.clean => proc.st = "serving" /\ proc.port = files.addr
    BY <1>0, <2>1 DEF CleanInv, ProcInv, ProcRecs
  <2> QED BY <2>1, <2>2 DEF CleanInv
<1>10. CASE NotPublished
  <2>1. c.pc = "wait"
    BY <1>10 DEF NotPublished
  <2>2. CASE c.kind = "wake"
    <3>1. c'.pc = "boot" /\ c'.kind = "wake" /\ c'.port = c.port
      BY <1>0, <1>10, <2>2 DEF NotPublished, CmdRecs
    <3>2. c.port = NoPort
      BY <2>1 DEF CommandInv
    <3> QED BY <3>1, <3>2 DEF CleanInv
  <2>3. CASE c.kind # "wake"
    <3>1. c'.pc = "end"
      BY <1>0, <1>10, <2>3 DEF NotPublished, End, CmdRecs
    <3> QED BY <3>1 DEF CleanInv
  <2> QED BY <2>2, <2>3
<1>11. CASE Boot
  <2>1. /\ c.pc = "boot" /\ UNCHANGED <<host, proc, files>>
        /\ \/ ~c'.clean
           \/ c.port # NoPort /\ c'.pc = "read" /\ c'.port = c.port /\ c'.clean = c.clean
    BY <1>0, <1>11 DEF Boot, End, CmdRecs
  <2> QED BY <2>1 DEF CleanInv
<1>12. CASE ReadSearch
  BY <1>12, <1>0 DEF ReadSearch, CleanInv, CmdRecs
<1>13. CASE ApplyConf
  <2>1. c.pc = "conf" /\ c.port \in Ports
    BY <1>13 DEF ApplyConf, CommandInv
  <2>2. guest'.works = guest.works /\ ((faults' = faults /\ guest.works) => guest'.loaded = c.port)
    BY <1>13, <2>1, RestartSteps DEF ApplyConf, ProcInv
  <2>3. c'.pc = "probe" /\ c'.port = c.port /\ (c'.clean => c.clean /\ faults' = faults)
    BY <1>0, <1>13 DEF ApplyConf, CmdRecs
  <2>4. UNCHANGED <<host, proc, files>>
    BY <1>13 DEF ApplyConf
  <2> QED BY <2>1, <2>2, <2>3, <2>4 DEF CleanInv
<1>14. CASE ApplyProbe
  <2>1. c.pc = "probe" /\ c.port \in Ports /\ UNCHANGED <<host, proc, files>>
    BY <1>14 DEF ApplyProbe, CommandInv
  <2>2. CASE Answers
    <3>1. guest'.works = guest.works /\ guest'.loaded = guest.loaded /\ guest'.owned
      BY <1>14, <2>2, Fields, TakeOverSteps DEF ApplyProbe
    <3>2. c'.pc \in {"verify", "end"} /\ c'.port = c.port /\ c'.clean = c.clean
      BY <1>0, <1>14, <2>2 DEF ApplyProbe, End, CmdRecs
    <3> QED BY <2>1, <3>1, <3>2 DEF CleanInv
  <2>3. CASE ~Answers
    <3>1. c'.pc \in {"owner", "end"} /\ c'.port = c.port /\ c'.clean = c.clean /\ guest' = guest
      BY <1>0, <1>14, <2>3 DEF ApplyProbe, End, CmdRecs
    <3>2. c.clean => ~guest.works
      BY <2>1, <2>3, ResolverAssumption DEF CleanInv, Answers
    <3> QED BY <2>1, <3>1, <3>2 DEF CleanInv
  <2> QED BY <2>2, <2>3
<1>15. CASE Verify
  <2>1. /\ c.pc = "verify" /\ UNCHANGED <<host, proc, files, guest>>
        /\ c'.pc = "end" \/ (~Answers /\ c'.pc = "owner" /\ c'.port = c.port /\ c'.clean = c.clean)
    BY <1>0, <1>15 DEF Verify, End, CmdRecs
  <2>2. c.clean /\ guest.works => Answers
    BY <2>1, ResolverAssumption DEF CleanInv, CommandInv, Answers
  <2> QED BY <2>1, <2>2 DEF CleanInv
<1>16. CASE Owner \/ StopResolver \/ StopGuest \/ SuspendMeta \/ SuspendCommit
  <2>1. c'.pc \in {"end", "halt", "commit", "stop"}
    BY <1>0, <1>16
    DEF Owner, StopResolver, StopGuest, SuspendMeta, SuspendCommit, End, CmdRecs
  <2> QED BY <2>1 DEF CleanInv
<1> QED
  BY <1>1, <1>2, <1>3, <1>4, <1>5, <1>6, <1>7, <1>8, <1>9, <1>10, <1>11, <1>12, <1>13, <1>14, <1>15, <1>16
  DEF Next, ProcNext, WatchNext, CommandNext, Events

\* Every step keeps that an undisturbed start or wake has healed the guest.
LEMMA HealsKept ==
    ASSUME TypeOK, ProcInv, CommandInv, CleanInv, UndisturbedStartHeals, Next
    PROVE  UndisturbedStartHeals'
<1>0. /\ host \in HostRecs /\ proc \in ProcRecs /\ files \in FileRecs
      /\ guest \in GuestRecs /\ c \in CmdRecs
  BY Shape
<1>1. CASE Listen \/ ListenFails \/ PublishPort \/ PublishAddr
  BY <1>1, <1>0
  DEF Listen, ListenFails, PublishPort, PublishAddr, UndisturbedStartHeals, Answers,
      noProc, ProcRecs
<1>2. CASE Poll \/ PushFails
  BY <1>2, <1>0 DEF Poll, PushFails, UndisturbedStartHeals, Answers, poll, ProcRecs
<1>3. CASE SearchMoves
  BY <1>3, <1>0 DEF SearchMoves, UndisturbedStartHeals, Answers, HostRecs
<1>4. CASE PushConf
  <2>1. proc.port \in Ports /\ proc.st = "serving"
    BY <1>0, <1>4 DEF PushConf, ProcInv, ProcRecs
  <2>2. /\ guest'.vm = guest.vm /\ guest'.works = guest.works /\ guest'.owned = guest.owned
        /\ (faults' = faults /\ guest.works) => guest'.loaded = proc.port
    BY <1>4, <2>1, RestartSteps DEF PushConf, ProcInv
  <2>3. /\ proc'.st = proc.st /\ proc'.port = proc.port /\ UNCHANGED <<host, files>>
        /\ IF faults' = faults THEN c' = c ELSE ~c'.clean
    BY <1>0, <1>4 DEF PushConf, disturbed, ProcRecs, CmdRecs
  <2> QED BY ResolverAssumption, <2>1, <2>2, <2>3 DEF UndisturbedStartHeals, Answers
<1>5. CASE PushProbe
  <2>1. /\ guest'.vm = guest.vm /\ guest'.works = guest.works /\ guest'.owned
        /\ guest'.loaded = guest.loaded
    BY <1>5, Fields, TakeOverSteps DEF PushProbe
  <2>2. proc'.st = proc.st /\ proc'.port = proc.port /\ UNCHANGED <<host, files, c>>
    BY <1>0, <1>5 DEF PushProbe, ProcRecs
  <2> QED BY <2>1, <2>2 DEF UndisturbedStartHeals, Answers
<1>6. CASE ResolverDies \/ PortTaken \/ ForwarderDies \/ BootFails \/ Killed
  <2>1. ~c'.clean
    BY <1>0, <1>6
    DEF ResolverDies, PortTaken, ForwarderDies, BootFails, Killed, disturbed, End,
        CmdRecs
  <2> QED BY <2>1 DEF UndisturbedStartHeals
<1>7. CASE \/ BeginStart \/ BeginStop \/ BeginSuspend \/ StartResolver \/ Published
           \/ ReadSearch \/ SuspendMeta \/ SuspendCommit \/ ApplyConf
  <2>1. CASE BeginStart \/ BeginStop \/ BeginSuspend
    BY <1>0, <2>1
    DEF BeginStart, BeginStop, BeginSuspend, Begin, CmdRecs, UndisturbedStartHeals
  <2>2. CASE ~(BeginStart \/ BeginStop \/ BeginSuspend)
    <3>1. c.cmd # "none" /\ c'.cmd = c.cmd
      BY <1>0, <1>7, <2>2
      DEF StartResolver, Published, ReadSearch, SuspendMeta, SuspendCommit,
                              ApplyConf, CommandInv, CmdRecs
    <3> QED BY <3>1 DEF UndisturbedStartHeals
  <2> QED BY <2>1, <2>2
<1>8. CASE NotPublished
  <2>1. c.pc = "wait" /\ c.cmd = "start" /\ files.addr = NoPort /\ host' = host
    BY <1>8 DEF NotPublished, CommandInv, StartPCs
  <2>2. CASE c.kind = "wake"
    <3>1. c'.cmd = "start"
      BY <1>0, <1>8, <2>1, <2>2 DEF NotPublished, CmdRecs
    <3> QED BY <3>1 DEF UndisturbedStartHeals
  <2>3. CASE c.kind # "wake"
    <3>1. c'.clean => c.clean /\ faults' = faults
      BY <1>0, <1>8, <2>3 DEF NotPublished, End, CmdRecs
    <3>2. faults' = faults => proc.st = "none"
      BY <1>8, Shape DEF NotPublished, fault
    <3>3. c'.clean => Ports \subseteq host.busy
      BY <2>1, <3>1, <3>2 DEF CleanInv
    <3> QED BY <2>1, <3>3 DEF UndisturbedStartHeals
  <2> QED BY <2>2, <2>3
<1>9. CASE Boot
  <2>1. c'.cmd # "none" \/ ~c'.clean
    BY <1>0, <1>9 DEF Boot, End, CommandInv, StartPCs, CmdRecs
  <2> QED BY <2>1 DEF UndisturbedStartHeals
<1>10. CASE ApplyProbe
  <2>1. c.pc = "probe" /\ c.cmd = "start" /\ c.port \in Ports /\ UNCHANGED <<host, proc, files>>
    BY <1>10 DEF ApplyProbe, CommandInv, StartPCs, Staging
  <2>2. CASE Answers
    <3>1. guest'.works = guest.works /\ guest'.loaded = guest.loaded /\ guest'.owned
      BY <1>10, <2>2, Fields, TakeOverSteps DEF ApplyProbe
    <3>2. c'.cmd = "start" \/ c'.out = "ok"
      BY <1>0, <1>10, <2>1, <2>2 DEF ApplyProbe, End, CmdRecs
    <3>3. Answers'
      BY <2>1, <2>2, <3>1 DEF Answers
    <3> QED BY <3>1, <3>2, <3>3 DEF UndisturbedStartHeals
  <2>3. CASE ~Answers
    <3>1. c'.clean = c.clean /\ guest' = guest
      BY <1>0, <1>10, <2>3 DEF ApplyProbe, End, CmdRecs
    <3>2. c.clean => ~guest.works
      BY <2>1, <2>3, ResolverAssumption DEF CleanInv, Staging, Answers
    <3> QED BY <3>1, <3>2 DEF UndisturbedStartHeals
  <2> QED BY <2>2, <2>3
<1>11. CASE Verify
  <2>1. c.pc = "verify" /\ c.cmd = "start" /\ UNCHANGED <<host, proc, files, guest>>
    BY <1>11 DEF Verify, CommandInv, StartPCs
  <2>2. \/ c'.cmd = "start"
        \/ Answers /\ c'.out = "ok" /\ c'.clean = c.clean
    BY <1>0, <1>11, <2>1 DEF Verify, End, CmdRecs
  <2>3. c.clean => guest.owned
    BY <2>1 DEF CleanInv
  <2> QED BY <2>1, <2>2, <2>3 DEF UndisturbedStartHeals, Answers
<1>12. CASE Owner
  <2>1. c.pc = "owner" /\ guest' = guest /\ (c'.clean => c.clean)
    BY <1>0, <1>12 DEF Owner, End, CmdRecs
  <2>2. c.clean => ~guest.works
    BY <2>1 DEF CleanInv
  <2> QED BY <2>1, <2>2 DEF UndisturbedStartHeals
<1>13. CASE StopResolver \/ StopGuest
  <2>1. guest'.vm # "running" \/ c'.cmd # "none"
    BY <1>0, <1>13 DEF StopResolver, StopGuest, End, CommandInv, GuestRecs, CmdRecs
  <2> QED BY <2>1 DEF UndisturbedStartHeals
<1> QED
  BY <1>1, <1>2, <1>3, <1>4, <1>5, <1>6, <1>7, <1>8, <1>9, <1>10, <1>11, <1>12, <1>13
  DEF Next, ProcNext, WatchNext, CommandNext, Events

\* The invariant holds at the start.
LEMMA InitHeals ==
    ASSUME Init
    PROVE  HealInv
<1>1. TypeOK
  <2>1. host \in HostRecs
    BY DEF Init, HostRecs
  <2>2. proc \in ProcRecs /\ files \in FileRecs
    BY DEF Init, noProc, ProcRecs, FileRecs, Maybe
  <2>3. guest \in GuestRecs /\ ~guest.owned
    BY DEF Init, GuestRecs, Maybe
  <2>4. c \in CmdRecs /\ faults \in 0 .. MaxFaults
    BY ResolverAssumption DEF Init, CmdRecs, Outcomes, Maybe
  <2> QED BY <2>1, <2>2, <2>3, <2>4, Shape
<1>2. ProcInv /\ CommandInv /\ CleanInv /\ UndisturbedStartHeals
  BY
  DEF Init, noProc, ProcInv, CommandInv, CleanInv, UndisturbedStartHeals, StartPCs,
      Staging
<1> QED BY <1>1, <1>2 DEF HealInv

\* The inductive invariant: the types need it too, since a resolv.conf of jm's
\* has a list only because a push or a dns stage has read one.
THEOREM HealInvariant == Spec => []HealInv
<1>1. Init => HealInv
  BY InitHeals
<1>2. HealInv /\ [Next]_vars => HealInv'
  <2>1. CASE HealInv /\ Next
    <3>1. TypeOK'
      <4>1. /\ host' \in HostRecs /\ proc' \in ProcRecs /\ files' \in FileRecs
            /\ guest' \in GuestRecs /\ c' \in CmdRecs /\ faults' \in 0 .. MaxFaults
            /\ guest'.owned => guest'.list \in Lists
        BY <2>1, HostTyped, ProcessTyped, FilesTyped, GuestTyped, CommandTyped, FaultsTyped
        DEF HealInv
      <4> QED BY <4>1
              DEF TypeOK, HostRecs, ProcRecs, FileRecs, GuestRecs, CmdRecs, Outcomes
    <3>2. ProcInv' /\ CommandInv' /\ CleanInv' /\ UndisturbedStartHeals'
      BY <2>1, ProcKept, CommandKept, CleanKept, HealsKept DEF HealInv
    <3> QED BY <3>1, <3>2 DEF HealInv
  <2>2. CASE HealInv /\ UNCHANGED vars
    BY <2>2
    DEF vars, HealInv, TypeOK, ProcInv, CommandInv, CleanInv, UndisturbedStartHeals,
        Answers
  <2> QED BY <2>1, <2>2
<1> QED BY <1>1, <1>2, PTL DEF Spec

\* Every reachable state of the resolver, the files, the guest and the commands
\* has the declared types.
THEOREM TypeCorrect == Spec => []TypeOK
<1>1. HealInv => TypeOK
  BY DEF HealInv
<1> QED BY <1>1, HealInvariant, PTL

\* A start or wake that nothing disturbs leaves a guest that resolves through
\* the live resolver, whatever earlier kills, deaths, stolen ports and failed
\* restarts left behind, for any ports, lists and numbers of commands and faults
\* (Process.Start, applyGuestDNS, postResume).
THEOREM UndisturbedStartsHeal == Spec => []UndisturbedStartHeals
<1>1. HealInv => UndisturbedStartHeals
  BY DEF HealInv
<1> QED BY <1>1, HealInvariant, PTL

=============================================================================
