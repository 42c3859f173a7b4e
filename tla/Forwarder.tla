----------------------------- MODULE Forwarder -----------------------------
(***************************************************************************)
(* The port forwarder: the loop that reconciles the network provider's     *)
(* mapping table and the guest's pf anchor with the containers that run,   *)
(* its debounced event stream, the record of what it owns, and the         *)
(* commands that start it, stop it and release what it owned.              *)
(*                                                                         *)
(* A mapping is named by its key.  What a listing of containers turns into *)
(* (module PublishPlan) is reduced to the keys it asks for, and for the    *)
(* keys that need a redirect in the guest to the container's address.      *)
(***************************************************************************)
EXTENDS Naturals, FiniteSets

CONSTANTS
    Keys,         \* mapping keys: protocol, host address, guest address
    Redirected,   \* the keys whose publish needs jm's redirect in the guest
    Addrs,        \* container addresses; a restarted container gets a new one
    None,         \* no address: not published, no redirect
    Engine,       \* published, and reached through the engine's own redirect
    ReloadEvery,  \* timer resyncs between unconditional anchor reloads
    MaxEvents,    \* bound: container changes, failures, deaths, commands
    SaveFails     \* whether a save of forwards.json may fail

ASSUME ForwarderAssumption ==
    /\ Redirected \subseteq Keys /\ None \notin Addrs /\ Engine # None
    /\ ReloadEvery \in Nat \ {0} /\ MaxEvents \in Nat /\ SaveFails \in BOOLEAN

VARIABLES
    guest,   \* pub: the address each key is published at; anchor: the redirects
    prov,    \* the provider: up, and for each key who put it in the table
    file,    \* forwards.json: per key no entry, "ok", or an entry with an error
    fw,      \* the forwarder process: its place in Run and what it remembers
    deb,     \* the debouncer: timer, signal in the channel, force flag
    stream,  \* the event stream: open, an event not yet read, reconnect
    owed,    \* what a trigger still asks for: a listing, an anchor reload
    cmd,     \* the command that stops the forwarder: its place, keys to release
    events

vars == <<guest, prov, file, fw, deb, stream, owed, cmd, events>>

MaybeAddr == Addrs \cup {None}
Published == {p \in [Keys -> MaybeAddr \cup {Engine}] :
                \A k \in Keys : p[k] \in (IF k \in Redirected THEN MaybeAddr ELSE {Engine, None})}
Entries == [Keys -> {"no", "ok", "err"}]
Anchors == [Redirected -> MaybeAddr]

NoEntries == [k \in Keys |-> "no"]
NoAnchor == [k \in Redirected |-> None]

\* "ours" was exposed by the forwarder, "left" by somebody else, or is what a
\* failed release gave up on.
Tables == [Keys -> {"none", "ours", "left"}]

Steps == {"dead", "load", "ps", "inspect", "apply", "list", "stale", "save",
          "expose", "save2", "wait"}

Forwarders ==
    [pc: Steps, owned: Entries, want: SUBSET Keys, rules: Anchors,
     pending: SUBSET Keys, live: SUBSET Keys, todo: SUBSET Keys, dirty: BOOLEAN,
     force: BOOLEAN, loaded: BOOLEAN, memo: Anchors, ticks: 0 .. ReloadEvery - 1]

\* The type invariant.
TypeOK ==
    /\ guest \in [pub: Published, anchor: Anchors]
    /\ prov \in [up: BOOLEAN, table: Tables]
    /\ file \in Entries
    /\ fw \in Forwarders
    /\ deb \in [timer: BOOLEAN, signal: BOOLEAN, force: BOOLEAN]
    /\ stream \in [open: BOOLEAN, unread: BOOLEAN, again: BOOLEAN]
    /\ owed \in [listing: BOOLEAN, reload: BOOLEAN]
    /\ cmd \in [pc: {"off", "load", "release"}, todo: SUBSET Keys]
    /\ events \in 0 .. MaxEvents

Dead ==
    [pc |-> "dead", owned |-> NoEntries, want |-> {}, rules |-> NoAnchor, pending |-> {},
     live |-> {}, todo |-> {}, dirty |-> FALSE, force |-> FALSE, loaded |-> FALSE,
     memo |-> NoAnchor, ticks |-> 0]

quietDebouncer == [timer |-> FALSE, signal |-> FALSE, force |-> FALSE]
noStream == [open |-> FALSE, unread |-> FALSE, again |-> FALSE]
nothingOwed == [listing |-> FALSE, reload |-> FALSE]

Init ==
    /\ guest \in [pub: Published, anchor: {NoAnchor}]
    /\ prov = [up |-> TRUE, table |-> [k \in Keys |-> "none"]]
    /\ file = NoEntries /\ fw = Dead /\ deb = quietDebouncer
    /\ stream = noStream /\ owed = nothingOwed
    /\ cmd = [pc |-> "off", todo |-> {}] /\ events = 0

happens == events < MaxEvents /\ events' = events + 1

Alive == fw.pc # "dead"
InTable == {k \in Keys : prov.table[k] # "none"}
Recorded(o) == {k \in Keys : o[k] # "no"}
process == <<fw, deb, stream, owed>>

--------------------------------------------------------------------------
(* The debouncer. *)

trigger(force) ==
    /\ deb' = [deb EXCEPT !.timer = TRUE, !.force = @ \/ force]
    /\ owed' = [listing |-> TRUE, reload |-> owed.reload \/ force]

\* Mutant: a channel with no buffer, which drops a signal while a pass runs.
fireUnbuffered ==
    /\ deb.timer
    /\ deb' = [deb EXCEPT !.timer = FALSE, !.signal = fw.pc = "wait"]
    /\ UNCHANGED <<guest, prov, file, fw, stream, owed, cmd, events>>

\* The delay lapses: one signal in the channel, never two.
fire ==
    /\ deb.timer
    /\ deb' = [deb EXCEPT !.timer = FALSE, !.signal = TRUE]
    /\ UNCHANGED <<guest, prov, file, fw, stream, owed, cmd, events>>

--------------------------------------------------------------------------
(* The event stream, which runs beside the loop once it has started. *)

looping == fw.pc \notin {"dead", "load"}

\* Events opens the stream, or fails and is retried after the backoff.
connect ==
    /\ looping /\ ~stream.open
    /\ \/ /\ stream' = [stream EXCEPT !.open = TRUE]
          /\ IF stream.again THEN trigger(TRUE) ELSE UNCHANGED <<deb, owed>>
          /\ UNCHANGED events
       \/ happens /\ stream' = [stream EXCEPT !.again = TRUE] /\ UNCHANGED <<deb, owed>>
    /\ UNCHANGED <<guest, prov, file, fw, cmd>>

readEvent ==
    /\ stream.open /\ stream.unread
    /\ stream' = [stream EXCEPT !.unread = FALSE] /\ trigger(FALSE)
    /\ UNCHANGED <<guest, prov, file, fw, cmd, events>>

\* What was not read is lost with the stream.
streamCloses ==
    /\ stream.open /\ happens
    /\ stream' = [noStream EXCEPT !.again = TRUE] /\ trigger(FALSE)
    /\ UNCHANGED <<guest, prov, file, fw, cmd>>

--------------------------------------------------------------------------
(* One pass of the loop: resync.                                           *)

\* What a step of the loop leaves alone unless it says otherwise.
goes(f) == fw' = f
step(f) == goes(f) /\ UNCHANGED <<deb, stream, owed, cmd>>
quietly == UNCHANGED <<guest, prov, file, events>>

\* What is still in the table and on no record any more is nobody's.
abandoned == [prov EXCEPT !.table = [k \in Keys |-> IF @[k] = "ours" THEN "left" ELSE @[k]]]

\* Load, then the first resync, which writes the anchor unconditionally.  A
\* record that cannot be read is started over; what it listed is not adopted.
load ==
    /\ fw.pc = "load"
    /\ \/ /\ step([fw EXCEPT !.pc = "ps", !.owned = file, !.force = TRUE]) /\ quietly
       \/ /\ happens /\ step([fw EXCEPT !.pc = "ps", !.force = TRUE])
          /\ file' = NoEntries /\ prov' = abandoned /\ UNCHANGED guest

\* Mutant: a tick never reloads.
reloadsNever(n) == FALSE

\* Every ReloadEvery-th tick reloads the anchor.
nextTick == (fw.ticks + 1) % ReloadEvery
reloads(n) == n = 0

tick ==
    /\ fw.pc = "wait"
    /\ step([fw EXCEPT !.pc = "ps", !.ticks = nextTick, !.force = reloads(nextTick)])
    /\ quietly

takeSignal ==
    /\ fw.pc = "wait" /\ deb.signal
    /\ goes([fw EXCEPT !.pc = "ps", !.force = deb.force])
    /\ deb' = [deb EXCEPT !.signal = FALSE, !.force = FALSE]
    /\ quietly /\ UNCHANGED <<stream, owed, cmd>>

\* The pass ends: what it read goes with it, and so does the reload it was
\* asked for when it ends early.  What it owns and the memo stay.
giveUp == [Dead EXCEPT !.pc = "wait", !.owned = fw.owned, !.loaded = fw.loaded,
                       !.memo = fw.memo, !.ticks = fw.ticks]

PS ==
    LET want == {k \in Keys : guest.pub[k] # None}
    IN /\ fw.pc = "ps"
       /\ \/ /\ goes([fw EXCEPT !.want = want, !.pending = {}, !.rules = NoAnchor,
                       !.pc = IF want \cap Redirected = {} THEN "apply" ELSE "inspect"])
             /\ owed' = [owed EXCEPT !.listing = FALSE]
             /\ UNCHANGED events
          \/ happens /\ goes(giveUp) /\ owed' = nothingOwed
       /\ UNCHANGED <<guest, prov, file, deb, stream, cmd>>

Block(f) == [f EXCEPT !.pending = f.want \cap Redirected, !.rules = NoAnchor, !.force = FALSE]

\* The addresses are looked up after the listing; a container that has none
\* yet, or is gone, blocks its mappings.
inspect ==
    LET found == {k \in fw.want \cap Redirected : guest.pub[k] # None}
    IN /\ fw.pc = "inspect"
       /\ \/ \E some \in SUBSET found :
               /\ some # found => happens
               /\ some = found => UNCHANGED events
               /\ goes([fw EXCEPT !.pc = "apply",
                        !.pending = (fw.want \cap Redirected) \ some,
                        !.rules = [k \in Redirected |->
                                     IF k \in some THEN guest.pub[k] ELSE None]])
               /\ UNCHANGED owed
          \/ happens /\ goes([Block(fw) EXCEPT !.pc = "list"])
             /\ owed' = [owed EXCEPT !.reload = FALSE]
       /\ UNCHANGED <<guest, prov, file, deb, stream, cmd>>

skipApply(f) == ~f.force /\ f.loaded /\ f.rules = f.memo

forgetMemo(f) == [f EXCEPT !.loaded = FALSE, !.memo = NoAnchor]

\* A failed load leaves whatever pfctl did; the memo is forgotten.
apply ==
    /\ fw.pc = "apply"
    /\ \/ /\ skipApply(fw) /\ goes([fw EXCEPT !.pc = "list"])
          /\ UNCHANGED <<guest, owed, events>>
       \/ /\ ~skipApply(fw)
          /\ goes([fw EXCEPT !.pc = "list", !.force = FALSE, !.loaded = TRUE, !.memo = fw.rules])
          /\ guest' = [guest EXCEPT !.anchor = fw.rules]
          /\ owed' = [owed EXCEPT !.reload = @ /\ ~fw.force]
          /\ UNCHANGED events
       \/ /\ ~skipApply(fw) /\ happens
          /\ goes([forgetMemo(Block(fw)) EXCEPT !.pc = "list"])
          /\ guest' \in {guest, [guest EXCEPT !.anchor = fw.rules]}
          /\ owed' = [owed EXCEPT !.reload = @ /\ ~fw.force]
    /\ UNCHANGED <<prov, file, deb, stream, cmd>>

--------------------------------------------------------------------------
(* ConvergeWith. *)

\* Mutant: whatever is live and not wanted is taken for the forwarder's own.
staleAnybodys(f) == InTable \ f.want

stale(f) == {k \in Recorded(f.owned) : k \notin f.want}

list ==
    /\ fw.pc = "list"
    /\ \/ /\ prov.up /\ UNCHANGED events
          /\ step([fw EXCEPT !.pc = "stale", !.live = InTable, !.dirty = FALSE,
                             !.todo = stale(fw)])
       \/ ~prov.up /\ UNCHANGED events /\ step(giveUp)
       \/ prov.up /\ happens /\ step(giveUp)
    /\ UNCHANGED <<guest, prov, file>>

with(f, k, e) ==
    [f EXCEPT !.owned[k] = e, !.dirty = @ \/ e # f.owned[k], !.todo = @ \ {k}]

\* A call to the provider that is answered, and one that fails: it may have
\* been served all the same.
answered(k, to) == prov.up /\ prov' = [prov EXCEPT !.table[k] = to] /\ UNCHANGED events
failed(k, to) ==
    \/ ~prov.up /\ UNCHANGED <<prov, events>>
    \/ prov.up /\ happens /\ prov' \in {prov, [prov EXCEPT !.table[k] = to]}

\* An owned mapping no longer wanted is unexposed and forgotten, or kept with
\* an error.
unexpose(k) ==
    /\ fw.pc = "stale" /\ k \in fw.todo
    /\ \/ k \notin fw.live /\ step(with(fw, k, "no")) /\ UNCHANGED <<prov, events>>
       \/ k \in fw.live /\ answered(k, "none") /\ step(with(fw, k, "no"))
       \/ k \in fw.live /\ failed(k, "none") /\ step([with(fw, k, "err") EXCEPT !.dirty = TRUE])
    /\ UNCHANGED <<guest, file>>

status(f, k) == IF k \in f.pending THEN "err" ELSE "ok"

inPlace(f, k) == status(f, k)

\* Mutant: a mapping that failed once is not tried again.
missingNew(f) == {k \in f.want \ f.live : f.owned[k] = "no"}

missing(f) == f.want \ f.live

\* What is missing is recorded as owned, and what is in place gets its
\* status.  Live mappings with no entry are somebody else's and left alone.
record ==
    LET owned == [k \in Keys |->
                    IF k \notin fw.want \/ (k \in fw.live /\ fw.owned[k] = "no") THEN fw.owned[k]
                    ELSE IF k \in fw.live THEN inPlace(fw, k)
                    ELSE IF fw.owned[k] = "no" THEN "ok"
                    ELSE fw.owned[k]]
    IN /\ fw.pc = "stale" /\ fw.todo = {}
       /\ step([fw EXCEPT !.pc = "save", !.owned = owned, !.dirty = @ \/ owned # fw.owned,
                          !.todo = missing(fw)])
       /\ quietly

\* Mutant: the record is saved once, after the mappings are in the table.
saveLate ==
    /\ fw.pc = "save"
    /\ step([fw EXCEPT !.pc = "expose"])
    /\ quietly

save ==
    /\ fw.pc = "save"
    /\ \/ ~fw.dirty /\ step([fw EXCEPT !.pc = "expose"]) /\ UNCHANGED <<file, events>>
       \/ /\ fw.dirty /\ step([fw EXCEPT !.pc = "expose", !.dirty = FALSE])
          /\ file' = fw.owned /\ UNCHANGED events
       \/ fw.dirty /\ SaveFails /\ happens /\ step(giveUp) /\ UNCHANGED file
    /\ UNCHANGED <<guest, prov>>

\* The provider refuses a mapping it already has.
expose(k) ==
    /\ fw.pc = "expose" /\ k \in fw.todo
    /\ \/ prov.table[k] = "none" /\ answered(k, "ours") /\ step(with(fw, k, status(fw, k)))
       \/ prov.table[k] = "none" /\ failed(k, "ours") /\ step(with(fw, k, "err"))
       \/ prov.table[k] # "none" /\ step(with(fw, k, "err")) /\ UNCHANGED <<prov, events>>
    /\ UNCHANGED <<guest, file>>

finish ==
    /\ fw.pc = "expose" /\ fw.todo = {}
    /\ \/ ~fw.dirty /\ step(giveUp) /\ UNCHANGED <<file, events>>
       \/ fw.dirty /\ step(giveUp) /\ file' = fw.owned /\ UNCHANGED events
       \/ fw.dirty /\ SaveFails /\ happens /\ step(giveUp) /\ UNCHANGED file
    /\ UNCHANGED <<guest, prov>>

--------------------------------------------------------------------------
(* Commands. *)

startForwarder ==
    /\ ~Alive /\ prov.up /\ cmd.pc = "off"
    /\ fw' = [Dead EXCEPT !.pc = "load"]
    /\ UNCHANGED <<guest, prov, file, deb, stream, owed, cmd, events>>

died == fw' = Dead /\ deb' = quietDebouncer /\ stream' = noStream /\ owed' = nothingOwed

\* SIGTERM ends the pass where it is, as SIGKILL does.  The mappings are
\* released while the provider is up.
stopForwarder ==
    /\ cmd.pc = "off" /\ happens /\ died
    /\ cmd' = [cmd EXCEPT !.pc = IF prov.up THEN "load" ELSE "off"]
    /\ UNCHANGED <<guest, prov, file>>

releaseFails ==
    /\ cmd.pc # "off" /\ happens
    /\ cmd' = [pc |-> "off", todo |-> {}]
    /\ UNCHANGED <<guest, prov, file, process>>

releaseLoad ==
    /\ cmd.pc = "load"
    /\ cmd' = IF Recorded(file) # {} /\ prov.up
              THEN [pc |-> "release", todo |-> Recorded(file) \cap InTable]
              ELSE [pc |-> "off", todo |-> {}]
    /\ UNCHANGED <<guest, prov, file, process, events>>

\* A release that fails goes on; nothing remembers the mapping after it.
release(k) ==
    /\ cmd.pc = "release" /\ k \in cmd.todo
    /\ cmd' = [cmd EXCEPT !.todo = @ \ {k}]
    /\ \/ answered(k, "none")
       \/ ~prov.up /\ UNCHANGED <<prov, events>>
       \/ prov.up /\ happens /\ prov' = [prov EXCEPT !.table[k] = "left"]
    /\ UNCHANGED <<guest, file, process>>

releaseSave ==
    /\ cmd.pc = "release" /\ cmd.todo = {}
    /\ cmd' = [cmd EXCEPT !.pc = "off"] /\ file' = NoEntries
    /\ UNCHANGED <<guest, prov, process, events>>

--------------------------------------------------------------------------
(* Around the forwarder. *)

crash ==
    /\ Alive /\ happens /\ died
    /\ UNCHANGED <<guest, prov, file, cmd>>

\* A container starts, or restarts at another address, or stops.
containers ==
    \E pub \in Published :
        /\ Cardinality({k \in Keys : pub[k] # guest.pub[k]}) = 1 /\ happens
        /\ guest' = [guest EXCEPT !.pub = pub]
        /\ stream' = [stream EXCEPT !.unread = stream.open]
        /\ UNCHANGED <<prov, file, fw, deb, owed, cmd>>

\* pf is restarted in the guest, which says nothing to anybody.
flush ==
    /\ guest.anchor # NoAnchor /\ happens
    /\ guest' = [guest EXCEPT !.anchor = NoAnchor]
    /\ UNCHANGED <<prov, file, process, cmd>>

\* The provider stops or dies with its table, and is started again.
provider ==
    /\ happens
    /\ prov' = [up |-> ~prov.up, table |-> [k \in Keys |-> "none"]]
    /\ UNCHANGED <<guest, file, process, cmd>>

\* Somebody adds a mapping by hand.
addition ==
    \E k \in Keys :
        /\ prov.up /\ prov.table[k] = "none" /\ happens
        /\ prov' = [prov EXCEPT !.table[k] = "left"]
        /\ UNCHANGED <<guest, file, process, cmd>>

pass ==
    \/ load \/ tick \/ takeSignal \/ PS \/ inspect \/ apply \/ list \/ record \/ save \/ finish
    \/ \E k \in Keys : unexpose(k) \/ expose(k)

Next ==
    \/ pass \/ fire \/ connect \/ readEvent \/ streamCloses
    \/ startForwarder \/ stopForwarder \/ releaseFails \/ releaseLoad \/ releaseSave
    \/ \E k \in Keys : release(k)
    \/ crash \/ containers \/ flush \/ provider \/ addition

Spec == Init /\ [][Next]_vars

\* The loop goes on, the debounce timer lapses and the stream is reopened.
Fairness ==
    WF_vars(pass) /\ WF_vars(fire) /\ WF_vars(connect) /\ WF_vars(readEvent)

FairSpec == Spec /\ Fairness

--------------------------------------------------------------------------
(* Properties. *)

\* A mapping the forwarder put in the provider's table is on record in
\* forwards.json for as long as it is there, wherever the forwarder or the
\* command that releases it is killed: it is recorded before Expose is
\* called and forgotten after Unexpose (ConvergeWith, Release).
RecordedBeforeExposed ==
    \A k \in Keys : prov.table[k] = "ours" => file[k] # "no"

\* A trigger is never swallowed by the pass that runs when it comes: until
\* containers are listed again, the debouncer has a timer or a signal for it
\* or the loop is about to list them, and a reload of the anchor asked for by
\* a reconnect is still carried by the debouncer or by the pass (debouncer,
\* Run's select, takeForce).
TriggerNotLost ==
    /\ owed.listing => deb.timer \/ deb.signal \/ fw.pc = "ps"
    /\ owed.reload => (deb.force /\ (deb.timer \/ deb.signal))
                      \/ (fw.force /\ fw.pc \in {"ps", "inspect", "apply"})

\* A mapping somebody else added leaves the table only with the provider, or
\* when forwards.json lists it as the forwarder's own (ConvergeWith: mappings
\* "we never created" are not adopted).
OthersStay ==
    [][\A k \in Keys : prov.table[k] = "left" /\ prov'.up /\ prov.up /\ file[k] = "no"
          => prov'.table[k] # "none"]_vars

served == Alive /\ prov.up

InStep == InTable = {k \in Keys : guest.pub[k] # None \/ prov.table[k] = "left"}

Reported == \A k \in Keys : prov.table[k] = "ours" => file[k] = "ok"

\* A forwarder that stays, on a provider that stays, brings the provider's
\* table in step with the containers that run, whatever events were lost and
\* whatever calls failed before, and what jm ports reads with it: no mapping
\* stays listed with the error of an attempt, an inspect or an anchor load that
\* a later pass made good (Run's resync, ConvergeWith).
Converges == <>[]served => <>[](InStep /\ Reported)

Redirects == [k \in Redirected |-> guest.pub[k]]

\* The guest's anchor ends up as the containers need it, though nothing tells
\* the forwarder that the guest flushed it (DefaultReloadEvery).
AnchorHeals == <>[]Alive => <>[](guest.anchor = Redirects)

=============================================================================
