--------------------------- MODULE ForwarderProofs ---------------------------
(***************************************************************************)
(* The port forwarder's record is ahead of the provider's table, nobody    *)
(* else's mapping is taken out of it, and no trigger is lost: for any set  *)
(* of keys, any reload period and any number of failures.                  *)
(*                                                                         *)
(* TypeOK and TriggerNotLost are inductive as they stand.  RecordInv,      *)
(* which the two theorems about the record rest on, is inductive relative  *)
(* to TypeOK when forwards.json can be saved: after a save that failed,    *)
(* the forwarder remembers entries the file does not have, and the next    *)
(* pass sees nothing to save.                                              *)
(***************************************************************************)
EXTENDS ForwarderInvariant, TLAPS


\* The record of a forwarder that does not run is one.
LEMMA DeadType == Dead \in Forwarders
  BY ForwarderAssumption
  DEF Dead, Forwarders, Steps, Entries, NoEntries, NoAnchor, Anchors, MaybeAddr

\* A pass that ends leaves a forwarder.
LEMMA GiveUpType == ASSUME fw \in Forwarders PROVE giveUp \in Forwarders
  BY DeadType DEF giveUp, Forwarders, Steps

\* So does an entry that changes.
LEMMA WithType ==
    ASSUME NEW f \in Forwarders, NEW k \in Keys, NEW e \in {"no", "ok", "err"}
    PROVE  with(f, k, e) \in Forwarders
<1>1. [f.owned EXCEPT ![k] = e] \in Entries
  BY DEF Forwarders, Entries
<1>2. f.todo \ {k} \in SUBSET Keys /\ (f.dirty \/ e # f.owned[k]) \in BOOLEAN
  BY DEF Forwarders
<1> QED BY <1>1, <1>2 DEF with, Forwarders

\* The tick counter stays below ReloadEvery.
LEMMA TickType == fw \in Forwarders => nextTick \in 0 .. ReloadEvery - 1
  BY ForwarderAssumption DEF Forwarders, nextTick

\* The event counter stays within its bound.
LEMMA EventsType ==
    ASSUME events \in 0 .. MaxEvents, UNCHANGED events \/ happens
    PROVE  events' \in 0 .. MaxEvents
  BY ForwarderAssumption DEF happens

\* Loading the record keeps the types.
LEMMA LoadTypes == ASSUME TypeOK, load PROVE TypeOK'
<1> USE DEF TypeOK
<1>1. fw' \in Forwarders
  <2>1. CASE fw' = [fw EXCEPT !.pc = "ps", !.owned = file, !.force = TRUE]
    BY <2>1 DEF Forwarders, Steps
  <2>2. CASE fw' = [fw EXCEPT !.pc = "ps", !.force = TRUE]
    BY <2>2 DEF Forwarders, Steps
  <2> QED BY <2>1, <2>2 DEF load, step, goes
<1>2. prov' \in [up: BOOLEAN, table: Tables]
  BY DEF load, quietly, abandoned, Tables
<1>3. events' \in 0 .. MaxEvents
  BY ForwarderAssumption DEF load, quietly, happens
<1>4. file' \in Entries
  BY DEF load, quietly, NoEntries, Entries
<1> QED BY <1>1, <1>2, <1>3, <1>4 DEF load, step, quietly

\* So does a tick
LEMMA TickTypes == ASSUME TypeOK, tick PROVE TypeOK'
<1>1. fw' \in Forwarders
  BY TickType DEF TypeOK, tick, step, goes, Forwarders, Steps, reloads
<1> QED BY <1>1 DEF TypeOK, tick, step, quietly

\* ... a signal taken from the debouncer
LEMMA TakeSignalTypes == ASSUME TypeOK, takeSignal PROVE TypeOK'
<1>1. fw' \in Forwarders
  BY DEF TypeOK, takeSignal, goes, Forwarders, Steps
<1> QED BY <1>1 DEF TypeOK, takeSignal, quietly

\* ... a listing
LEMMA PSTypes == ASSUME TypeOK, PS PROVE TypeOK'
<1>1. fw' \in Forwarders
  <2>1. NoAnchor \in Anchors
    BY DEF NoAnchor, Anchors, MaybeAddr
  <2>2. CASE \E want \in SUBSET Keys, p \in {"apply", "inspect"} :
               fw' = [fw EXCEPT !.want = want, !.pending = {}, !.rules = NoAnchor, !.pc = p]
    <3> PICK want \in SUBSET Keys, p \in {"apply", "inspect"} :
               fw' = [fw EXCEPT !.want = want, !.pending = {}, !.rules = NoAnchor, !.pc = p]
      BY <2>2
    <3> QED BY <2>1 DEF TypeOK, Forwarders, Steps
  <2>3. CASE fw' = giveUp
    BY <2>3, GiveUpType DEF TypeOK
  <2> QED BY <2>2, <2>3 DEF PS, goes
<1>2. owed' \in [listing: BOOLEAN, reload: BOOLEAN]
  <2>1. owed' = [owed EXCEPT !.listing = FALSE] \/ owed' = nothingOwed
    BY DEF PS
  <2>2. owed \in [listing: BOOLEAN, reload: BOOLEAN]
    BY DEF TypeOK
  <2>3. nothingOwed \in [listing: BOOLEAN, reload: BOOLEAN]
    BY DEF nothingOwed
  <2>4. [owed EXCEPT !.listing = FALSE] \in [listing: BOOLEAN, reload: BOOLEAN]
    BY <2>2
  <2> QED BY <2>1, <2>3, <2>4
<1>3. UNCHANGED events \/ happens
  BY DEF PS
<1> QED BY <1>1, <1>2, <1>3, EventsType DEF TypeOK, PS

\* ... the addresses looked up, all or some of them
LEMMA InspectTypes == ASSUME TypeOK, inspect PROVE TypeOK'
<1>1. fw' \in Forwarders
  <2>1. NoAnchor \in Anchors
    BY DEF NoAnchor, Anchors, MaybeAddr
  <2> DEFINE found == {k \in fw.want \cap Redirected : guest.pub[k] # None}
  <2>2. ASSUME NEW some \in SUBSET found
        PROVE  [k \in Redirected |-> IF k \in some THEN guest.pub[k] ELSE None] \in Anchors
    BY ForwarderAssumption DEF TypeOK, Published, Anchors, MaybeAddr
  <2>3. CASE \E some \in SUBSET found :
               goes([fw EXCEPT !.pc = "apply",
                        !.pending = (fw.want \cap Redirected) \ some,
                        !.rules = [k \in Redirected |->
                                     IF k \in some THEN guest.pub[k] ELSE None]])
    <3> HIDE DEF found
    <3> PICK some \in SUBSET found :
               goes([fw EXCEPT !.pc = "apply",
                        !.pending = (fw.want \cap Redirected) \ some,
                        !.rules = [k \in Redirected |->
                                     IF k \in some THEN guest.pub[k] ELSE None]])
      BY <2>3
    <3> QED BY <2>2 DEF goes, TypeOK, Forwarders, Steps
  <2>4. CASE goes([Block(fw) EXCEPT !.pc = "list"])
    BY <2>1, <2>4 DEF goes, Block, TypeOK, Forwarders, Steps
  <2> QED BY <2>3, <2>4 DEF inspect
<1>2. owed' \in [listing: BOOLEAN, reload: BOOLEAN]
  BY DEF TypeOK, inspect
<1>3. UNCHANGED events \/ happens
  BY DEF inspect
<1> QED BY <1>1, <1>2, <1>3, EventsType DEF TypeOK, inspect

\* ... the anchor loaded, kept, or failed
LEMMA ApplyTypes == ASSUME TypeOK, apply PROVE TypeOK'
<1>1. fw' \in Forwarders
  <2>1. NoAnchor \in Anchors
    BY DEF NoAnchor, Anchors, MaybeAddr
  <2>2. CASE fw' = [fw EXCEPT !.pc = "list"]
    BY <2>2 DEF TypeOK, Forwarders, Steps
  <2>3. CASE fw' = [fw EXCEPT !.pc = "list", !.force = FALSE, !.loaded = TRUE, !.memo = fw.rules]
    BY <2>3 DEF TypeOK, Forwarders, Steps
  <2>4. CASE fw' = [forgetMemo(Block(fw)) EXCEPT !.pc = "list"]
    BY <2>1, <2>4 DEF TypeOK, Block, forgetMemo, Forwarders, Steps
  <2> QED BY <2>2, <2>3, <2>4 DEF apply, goes
<1>2. guest' \in [pub: Published, anchor: Anchors]
  BY DEF TypeOK, apply, Forwarders
<1>3. owed' \in [listing: BOOLEAN, reload: BOOLEAN]
  BY DEF TypeOK, apply
<1>4. events' \in 0 .. MaxEvents
  BY ForwarderAssumption DEF TypeOK, apply, happens
<1> QED BY <1>1, <1>2, <1>3, <1>4 DEF TypeOK, apply

\* ... the provider's table listed
LEMMA ListTypes == ASSUME TypeOK, list PROVE TypeOK'
<1>1. fw' \in Forwarders
  <2>1. CASE fw' = [fw EXCEPT !.pc = "stale", !.live = InTable, !.dirty = FALSE,
                             !.todo = stale(fw)]
    <3>1. InTable \in SUBSET Keys /\ stale(fw) \in SUBSET Keys
      BY DEF InTable, stale, Recorded
    <3> QED BY <2>1, <3>1 DEF TypeOK, Forwarders, Steps
  <2>2. CASE fw' = giveUp
    BY <2>2, GiveUpType DEF TypeOK
  <2> QED BY <2>1, <2>2 DEF list, step, goes
<1> QED BY <1>1, ForwarderAssumption DEF TypeOK, list, step, happens

\* ... a mapping taken out of the table
LEMMA UnexposeTypes == ASSUME TypeOK, NEW k \in Keys, unexpose(k) PROVE TypeOK'
<1>1. fw' \in Forwarders
  <2>1. with(fw, k, "no") \in Forwarders /\ with(fw, k, "err") \in Forwarders
    BY WithType DEF TypeOK
  <2>2. [with(fw, k, "err") EXCEPT !.dirty = TRUE] \in Forwarders
    BY <2>1 DEF Forwarders
  <2> QED BY <2>1, <2>2 DEF unexpose, step, goes
<1>2. prov' \in [up: BOOLEAN, table: Tables] /\ events' \in 0 .. MaxEvents
  BY ForwarderAssumption DEF TypeOK, unexpose, answered, failed, happens, Tables
<1> QED BY <1>1, <1>2 DEF TypeOK, unexpose, step

\* ... the new entries
LEMMA RecordTypes == ASSUME TypeOK, record PROVE TypeOK'
<1>1. fw' \in Forwarders
  <2> DEFINE owned == [k \in Keys |->
                    IF k \notin fw.want \/ (k \in fw.live /\ fw.owned[k] = "no") THEN fw.owned[k]
                    ELSE IF k \in fw.live THEN inPlace(fw, k)
                    ELSE IF fw.owned[k] = "no" THEN "ok"
                    ELSE fw.owned[k]]
  <2>1. owned \in Entries
    BY DEF TypeOK, Forwarders, Entries, inPlace, status
  <2>2. fw' = [fw EXCEPT !.pc = "save", !.owned = owned, !.dirty = @ \/ owned # fw.owned,
                          !.todo = missing(fw)]
    BY DEF record, step, goes
  <2> HIDE DEF owned
  <2>3. (fw.dirty \/ owned # fw.owned) \in BOOLEAN
    BY DEF TypeOK, Forwarders
  <2> QED BY <2>1, <2>2, <2>3 DEF TypeOK, missing, Forwarders, Steps
<1> QED BY <1>1 DEF TypeOK, record, step, quietly

\* ... the record saved
LEMMA SaveTypes == ASSUME TypeOK, save PROVE TypeOK'
<1>1. fw' \in Forwarders
  <2>1. CASE fw' = [fw EXCEPT !.pc = "expose", !.dirty = FALSE]
    BY <2>1 DEF TypeOK, Forwarders, Steps
  <2>2. CASE fw' = [fw EXCEPT !.pc = "expose"]
    BY <2>2 DEF TypeOK, Forwarders, Steps
  <2>3. CASE fw' = giveUp
    BY <2>3, GiveUpType DEF TypeOK
  <2> QED BY <2>1, <2>2, <2>3 DEF save, step, goes
<1>2. file' \in Entries
  BY DEF TypeOK, save, Forwarders
<1> QED BY <1>1, <1>2, ForwarderAssumption DEF TypeOK, save, step, happens

\* ... a mapping put into the table
LEMMA ExposeTypes == ASSUME TypeOK, NEW k \in Keys, expose(k) PROVE TypeOK'
<1>1. fw' \in Forwarders
  BY WithType DEF TypeOK, expose, step, goes, status
<1>2. prov' \in [up: BOOLEAN, table: Tables] /\ events' \in 0 .. MaxEvents
  BY ForwarderAssumption DEF TypeOK, expose, answered, failed, happens, Tables
<1> QED BY <1>1, <1>2 DEF TypeOK, expose, step

\* ... and the end of the pass.
LEMMA FinishTypes == ASSUME TypeOK, finish PROVE TypeOK'
<1>1. fw' \in Forwarders
  BY GiveUpType DEF TypeOK, finish, step, goes
<1>2. file' \in Entries
  BY DEF TypeOK, finish, Forwarders
<1> QED BY <1>1, <1>2, ForwarderAssumption DEF TypeOK, finish, step, happens

\* A trigger keeps the types of the debouncer and of what is owed.
LEMMA TriggerType ==
    ASSUME TypeOK, NEW b \in BOOLEAN, trigger(b)
    PROVE  /\ deb' \in [timer: BOOLEAN, signal: BOOLEAN, force: BOOLEAN]
           /\ owed' \in [listing: BOOLEAN, reload: BOOLEAN]
<1>1. (deb.force \/ b) \in BOOLEAN /\ (owed.reload \/ b) \in BOOLEAN
  BY DEF TypeOK
<1> QED BY <1>1 DEF TypeOK, trigger

\* The debouncer, the stream, the commands and the surroundings keep the
\* types: the delay lapses
LEMMA FireTypes == ASSUME TypeOK, fire PROVE TypeOK'
  BY DEF TypeOK, fire

\* ... the stream opens, or does not
LEMMA ConnectTypes == ASSUME TypeOK, connect PROVE TypeOK'
<1>1. stream' \in [open: BOOLEAN, unread: BOOLEAN, again: BOOLEAN]
  BY DEF TypeOK, connect
<1>2. UNCHANGED events \/ happens
  BY DEF connect
<1>3. UNCHANGED <<deb, owed>> \/ trigger(TRUE)
  BY DEF connect
<1> QED BY <1>1, <1>2, <1>3, EventsType, TriggerType DEF TypeOK, connect

\* ... an event is read, or the stream closes
LEMMA StreamTypes == ASSUME TypeOK, readEvent \/ streamCloses PROVE TypeOK'
<1>1. stream' \in [open: BOOLEAN, unread: BOOLEAN, again: BOOLEAN]
  BY DEF TypeOK, readEvent, streamCloses, noStream
<1>2. UNCHANGED events \/ happens
  BY DEF readEvent, streamCloses
<1>3. trigger(FALSE)
  BY DEF readEvent, streamCloses
<1> QED BY <1>1, <1>2, <1>3, EventsType, TriggerType DEF TypeOK, readEvent,
    streamCloses

\* ... the forwarder is started
LEMMA StartTypes == ASSUME TypeOK, startForwarder PROVE TypeOK'
<1>1. fw' \in Forwarders
  BY DeadType DEF startForwarder, Forwarders, Steps
<1> QED BY <1>1 DEF TypeOK, startForwarder

\* ... it is stopped, or dies
LEMMA DeathTypes == ASSUME TypeOK, stopForwarder \/ crash PROVE TypeOK'
<1>1. /\ fw' \in Forwarders /\ deb' \in [timer: BOOLEAN, signal: BOOLEAN, force: BOOLEAN]
      /\ stream' \in [open: BOOLEAN, unread: BOOLEAN, again: BOOLEAN]
      /\ owed' \in [listing: BOOLEAN, reload: BOOLEAN]
  <2>1. died
    BY DEF stopForwarder, crash
  <2> QED BY <2>1, DeadType DEF died, quietDebouncer, noStream, nothingOwed
<1>2. happens
  BY DEF stopForwarder, crash
<1>3. cmd' \in [pc: {"off", "load", "release"}, todo: SUBSET Keys]
  BY DEF TypeOK, stopForwarder, crash
<1> QED BY <1>1, <1>2, <1>3, EventsType DEF TypeOK, stopForwarder, crash

\* ... a release begins, ends or fails
LEMMA ReleaseCommandTypes ==
    ASSUME TypeOK, releaseFails \/ releaseLoad \/ releaseSave
    PROVE TypeOK'
<1>1. cmd' \in [pc: {"off", "load", "release"}, todo: SUBSET Keys]
  BY DEF TypeOK, releaseFails, releaseLoad, releaseSave, Recorded, InTable
<1>2. UNCHANGED events \/ happens
  BY DEF releaseFails, releaseLoad, releaseSave
<1>3. UNCHANGED <<guest, prov, fw, deb, stream, owed>>
  BY DEF releaseFails, releaseLoad, releaseSave, process
<1>4. file' \in Entries
  BY DEF TypeOK, releaseFails, releaseLoad, releaseSave, NoEntries, Entries
<1> QED BY <1>1, <1>2, <1>3, <1>4, EventsType DEF TypeOK

\* ... releases one mapping
LEMMA ReleaseTypes == ASSUME TypeOK, NEW k \in Keys, release(k) PROVE TypeOK'
<1>1. cmd' \in [pc: {"off", "load", "release"}, todo: SUBSET Keys]
  BY DEF TypeOK, release
<1>2. UNCHANGED events \/ happens
  BY DEF release, answered
<1>3. prov' \in [up: BOOLEAN, table: Tables]
  BY DEF TypeOK, release, answered, Tables
<1> QED BY <1>1, <1>2, <1>3, EventsType DEF TypeOK, release, process

\* ... and containers, the guest and the provider change.
LEMMA AroundTypes ==
    ASSUME TypeOK, containers \/ flush \/ provider \/ addition
    PROVE TypeOK'
<1>1. guest' \in [pub: Published, anchor: Anchors]
  <2>1. guest \in [pub: Published, anchor: Anchors] /\ NoAnchor \in Anchors
    BY DEF TypeOK, NoAnchor, Anchors, MaybeAddr
  <2>2. \/ \E pub \in Published : guest' = [guest EXCEPT !.pub = pub]
        \/ guest' = [guest EXCEPT !.anchor = NoAnchor]
        \/ guest' = guest
    BY DEF containers, flush, provider, addition
  <2> QED BY <2>1, <2>2
<1>2. happens
  BY DEF containers, flush, provider, addition
<1>3. prov' \in [up: BOOLEAN, table: Tables]
  <2>1. prov \in [up: BOOLEAN, table: Tables] /\ [k \in Keys |-> "none"] \in Tables
    BY DEF TypeOK, Tables
  <2>2. \/ prov' = [up |-> ~prov.up, table |-> [k \in Keys |-> "none"]]
        \/ \E k \in Keys : prov' = [prov EXCEPT !.table[k] = "left"]
        \/ prov' = prov
    BY DEF containers, flush, provider, addition
  <2>3. (~prov.up) \in BOOLEAN
    BY <2>1
  <2>4. ASSUME NEW k \in Keys
        PROVE  [prov EXCEPT !.table[k] = "left"] \in [up: BOOLEAN, table: Tables]
    BY <2>1 DEF Tables
  <2>5. [up |-> ~prov.up, table |-> [k \in Keys |-> "none"]] \in [up: BOOLEAN, table: Tables]
    BY <2>1, <2>3
  <2> QED BY <2>1, <2>2, <2>4, <2>5
<1>4. stream' \in [open: BOOLEAN, unread: BOOLEAN, again: BOOLEAN]
  BY DEF TypeOK, containers, flush, provider, addition, process
<1>5. UNCHANGED <<file, fw, deb, owed, cmd>>
  BY DEF containers, flush, provider, addition, process
<1> QED BY <1>1, <1>2, <1>3, <1>4, <1>5, EventsType DEF TypeOK

\* Every reachable state of the forwarder, its debouncer and its stream has the
\* declared types.
THEOREM TypeCorrect == Spec => []TypeOK
<1>1. Init => TypeOK
  BY DeadType, ForwarderAssumption
  DEF Init, TypeOK, Tables, Entries, NoEntries, quietDebouncer, noStream,
      nothingOwed,
      NoAnchor, Anchors, MaybeAddr
<1>2. TypeOK /\ [Next]_vars => TypeOK'
  <2> SUFFICES ASSUME TypeOK, [Next]_vars PROVE TypeOK'
      OBVIOUS
  <2>1. CASE UNCHANGED vars
    BY <2>1 DEF vars, TypeOK
  <2>2. CASE pass
    BY <2>2, LoadTypes, TickTypes, TakeSignalTypes, PSTypes, InspectTypes,
        ApplyTypes, ListTypes, UnexposeTypes, RecordTypes, SaveTypes,
        ExposeTypes, FinishTypes DEF pass
  <2> QED BY <2>1, <2>2, FireTypes, ConnectTypes, StreamTypes, StartTypes,
      DeathTypes, ReleaseCommandTypes, ReleaseTypes, AroundTypes DEF Next
<1> QED BY <1>1, <1>2, PTL DEF Spec

\* TriggerNotLost is inductive: whoever gives up a pending trigger hands it on.
LEMMA TriggerStep ==
    ASSUME TypeOK, TriggerNotLost, [Next]_vars PROVE TriggerNotLost'
<1> USE DEF TypeOK, TriggerNotLost
<1>1. CASE UNCHANGED <<owed, deb, fw>>
  BY <1>1
<1>2. CASE died
  BY <1>2 DEF died, nothingOwed
<1>3. CASE (\E b \in BOOLEAN : trigger(b)) /\ UNCHANGED fw
  BY <1>3 DEF trigger
<1>4. CASE fire
  BY <1>4 DEF fire
<1>5. CASE load
  BY <1>5 DEF load, step, goes, Forwarders
<1>6. CASE tick
  BY <1>6 DEF tick, step, goes, Forwarders
<1>7. CASE takeSignal
  BY <1>7 DEF takeSignal, goes, Forwarders
<1>8. CASE PS
  <2>1. CASE owed' = nothingOwed
    BY <2>1 DEF nothingOwed
  <2>2. CASE /\ owed' = [owed EXCEPT !.listing = FALSE] /\ UNCHANGED deb
             /\ fw'.force = fw.force /\ fw'.pc \in {"inspect", "apply"}
    BY <1>8, <2>2 DEF PS
  <2> QED BY <1>8, <2>1, <2>2 DEF PS, goes, Forwarders
<1>9. CASE inspect
  BY <1>9 DEF inspect, goes, Block, Forwarders
<1>10. CASE apply
  BY <1>10 DEF apply, skipApply, goes, Block, forgetMemo, Forwarders
<1>11. CASE list \/ record \/ save \/ finish \/ (\E k \in Keys : unexpose(k) \/ expose(k))
  <2>1. UNCHANGED <<owed, deb>> /\ fw.pc \in {"list", "stale", "save", "expose"}
    BY <1>11 DEF list, record, save, finish, unexpose, expose, step
  <2> QED BY <2>1
<1>12. CASE startForwarder
  BY <1>12 DEF startForwarder, Alive, Dead
<1>13. CASE connect \/ readEvent \/ streamCloses
  BY <1>1, <1>3, <1>13 DEF connect, readEvent, streamCloses
<1>14. CASE stopForwarder \/ crash
  BY <1>2, <1>14 DEF stopForwarder, crash
<1>15. CASE \/ releaseFails \/ releaseLoad \/ releaseSave \/ (\E k \in Keys : release(k))
            \/ containers \/ flush \/ provider \/ addition \/ UNCHANGED vars
  BY <1>1, <1>15 DEF releaseFails, releaseLoad, releaseSave, release, containers,
      flush,
     provider, addition, process, vars
<1> QED BY <1>4, <1>5, <1>6, <1>7, <1>8, <1>9, <1>10, <1>11, <1>12, <1>13, <1>14,
    <1>15
    DEF Next, pass

\* What the record invariant is about did not change.
LEMMA Unmoved ==
    ASSUME RecordInv, UNCHANGED <<fw, file, prov, cmd>> PROVE RecordInv'
  BY DEF RecordInv, PassInv, ReleaseInv, RecordedBeforeExposed, Ours, InTable,
      Recorded

\* Nor did it between the changes of two passes.
LEMMA BetweenStep ==
    ASSUME RecordInv, fw.pc \in Between, fw'.pc \in Between, fw'.owned = fw.owned,
           UNCHANGED <<file, prov, cmd>>
    PROVE RecordInv'
  BY DEF RecordInv, PassInv, ReleaseInv, RecordedBeforeExposed, Between,
      Converging, Ours, InTable, Recorded

\* The steps of a pass before the provider is listed keep the record.
LEMMA BetweenKeeps ==
    ASSUME TypeOK, RecordInv, tick \/ takeSignal \/ PS \/ inspect \/ apply
    PROVE RecordInv'
<1>1. fw.pc \in Between /\ UNCHANGED <<file, prov, cmd>>
  BY DEF tick, takeSignal, PS, inspect, apply, Between, step, goes, quietly
<1>2. CASE tick \/ takeSignal
  BY <1>1, <1>2, BetweenStep DEF tick, takeSignal, step, goes, Between, TypeOK,
      Forwarders
<1>3. CASE PS
  <2>1. fw'.pc \in Between /\ fw'.owned = fw.owned
    BY <1>3 DEF PS, goes, giveUp, Dead, Between, TypeOK, Forwarders
  <2> QED BY <1>1, <2>1, BetweenStep
<1>4. CASE inspect
  <2>1. fw'.pc \in Between /\ fw'.owned = fw.owned
    BY <1>4 DEF inspect, goes, Block, Between, TypeOK, Forwarders
  <2> QED BY <1>1, <2>1, BetweenStep
<1>5. CASE apply
  <2>1. fw'.pc \in Between /\ fw'.owned = fw.owned
    BY <1>5 DEF apply, goes, Block, forgetMemo, Between, TypeOK, Forwarders
  <2> QED BY <1>1, <2>1, BetweenStep
<1> QED BY <1>2, <1>3, <1>4, <1>5

\* The record is adopted, or started over with nothing of it in the table.
LEMMA LoadKeeps == ASSUME TypeOK, RecordInv, load PROVE RecordInv'
<1> USE DEF RecordInv, PassInv, ReleaseInv, RecordedBeforeExposed, Between,
    Converging, Ours, InTable, Recorded
<1>1. fw.pc = "load" /\ fw'.pc = "ps" /\ UNCHANGED cmd
  BY DEF load, step, goes, TypeOK, Forwarders
<1>2. CASE fw'.owned = file /\ UNCHANGED <<file, prov>>
  BY <1>1, <1>2
<1>3. CASE fw'.owned = fw.owned /\ file' = NoEntries /\ prov' = abandoned
  BY <1>1, <1>3 DEF TypeOK, abandoned, Tables
<1> QED BY <1>2, <1>3 DEF load, step, goes, quietly, TypeOK, Forwarders

\* A pass ends in step with the file, when what is in the table is on it.
LEMMA GaveUp ==
    ASSUME TypeOK, RecordInv, fw' = giveUp, fw.pc # "dead", UNCHANGED <<prov, cmd>>, file' = fw.owned,
           Ours \subseteq Recorded(fw.owned)
    PROVE  RecordInv'
<1>1. fw'.pc = "wait" /\ fw'.owned = fw.owned
  BY DEF giveUp, Dead
<1> QED BY <1>1 DEF RecordInv, PassInv, ReleaseInv, RecordedBeforeExposed,
    Between, Converging, Ours, InTable, Recorded

\* The listing sees every mapping of the forwarder.
LEMMA ListKeeps == ASSUME TypeOK, RecordInv, list PROVE RecordInv'
<1> USE DEF RecordInv, PassInv, ReleaseInv, RecordedBeforeExposed, Between,
    Converging, Ours, InTable, Recorded
<1>1. fw.pc = "list" /\ UNCHANGED <<file, prov, cmd>>
  BY DEF list, step
<1>2. CASE fw' = [fw EXCEPT !.pc = "stale", !.live = InTable, !.dirty = FALSE, !.todo = stale(fw)]
  <2>1. /\ fw'.pc = "stale" /\ fw'.live = InTable /\ fw'.todo = stale(fw) /\ fw'.owned = fw.owned
    BY <1>2 DEF TypeOK, Forwarders
  <2> QED BY <1>1, <2>1 DEF stale
<1>3. CASE fw' = giveUp
  BY <1>1, <1>3, GaveUp
<1> QED BY <1>2, <1>3 DEF list, step, goes

\* What changing one entry does to the forwarder.
LEMMA WithFields ==
    ASSUME NEW f \in Forwarders, NEW k \in Keys, NEW e
    PROVE  /\ with(f, k, e).pc = f.pc /\ with(f, k, e).live = f.live
           /\ with(f, k, e).owned = [f.owned EXCEPT ![k] = e]
           /\ with(f, k, e).todo = f.todo \ {k}
           /\ ~with(f, k, e).dirty => ~f.dirty /\ with(f, k, e).owned = f.owned
<1>1. f.owned \in [Keys -> {"no", "ok", "err"}]
  BY DEF Forwarders, Entries
<1> QED BY <1>1 DEF with, Forwarders

\* A mapping is forgotten only once it is out of the table.
LEMMA UnexposeKeeps ==
    ASSUME TypeOK, RecordInv, NEW k \in Keys, unexpose(k)
    PROVE RecordInv'
<1> USE DEF RecordInv, PassInv, ReleaseInv, RecordedBeforeExposed, Between,
    Converging, Ours, InTable, Recorded
<1>1. fw.pc = "stale" /\ k \in fw.todo /\ UNCHANGED <<file, cmd>> /\ fw \in Forwarders
  BY DEF unexpose, step, TypeOK
<1>2. /\ fw'.pc = "stale" /\ fw'.live = fw.live /\ fw'.todo = fw.todo \ {k}
      /\ ~fw'.dirty => ~fw.dirty /\ fw'.owned = fw.owned
      /\ fw'.owned \in {[fw.owned EXCEPT ![k] = "no"], [fw.owned EXCEPT ![k] = "err"]}
  <2>1. with(fw, k, "err") \in Forwarders
    BY <1>1, WithType
  <2>2. CASE fw' = with(fw, k, "no")
    <3>1. /\ with(fw, k, "no").pc = fw.pc /\ with(fw, k, "no").live = fw.live
          /\ with(fw, k, "no").owned = [fw.owned EXCEPT ![k] = "no"]
          /\ with(fw, k, "no").todo = fw.todo \ {k}
          /\ ~with(fw, k, "no").dirty => ~fw.dirty /\ with(fw, k, "no").owned = fw.owned
      BY <1>1, WithFields
    <3> QED BY <1>1, <2>2, <3>1
  <2>3. CASE fw' = [with(fw, k, "err") EXCEPT !.dirty = TRUE]
    <3>1. /\ fw'.pc = with(fw, k, "err").pc /\ fw'.live = with(fw, k, "err").live
          /\ fw'.todo = with(fw, k, "err").todo /\ fw'.owned = with(fw, k, "err").owned
          /\ fw'.dirty = TRUE
      BY <2>1, <2>3 DEF Forwarders
    <3>2. /\ with(fw, k, "err").pc = fw.pc /\ with(fw, k, "err").live = fw.live
          /\ with(fw, k, "err").owned = [fw.owned EXCEPT ![k] = "err"]
          /\ with(fw, k, "err").todo = fw.todo \ {k}
      BY <1>1, WithFields
    <3> QED BY <1>1, <3>1, <3>2
  <2> QED BY <2>2, <2>3 DEF unexpose, step, goes
<1>3. /\ prov'.up = prov.up /\ (~prov.up => prov' = prov)
      /\ \A j \in Keys : prov'.table[j] = prov.table[j] \/ prov'.table[j] = "none"
  BY DEF unexpose, answered, failed, TypeOK, Tables
<1>4. fw'.owned[k] = "no" => prov'.table[k] # "ours"
  <2>1. CASE k \notin fw.live /\ UNCHANGED prov
    BY <1>1, <2>1
  <2>2. CASE answered(k, "none")
    BY <2>2 DEF answered, TypeOK, Tables
  <2>3. CASE fw'.owned = [fw.owned EXCEPT ![k] = "err"]
    BY <2>3 DEF TypeOK, Forwarders, Entries
  <2>4. step([with(fw, k, "err") EXCEPT !.dirty = TRUE]) => fw'.owned = [fw.owned EXCEPT ![k] = "err"]
    <3>1. with(fw, k, "err") \in Forwarders
      BY <1>1, WithType
    <3>2. with(fw, k, "err").owned = [fw.owned EXCEPT ![k] = "err"]
      BY <1>1, WithFields
    <3> QED BY <3>1, <3>2 DEF step, goes, Forwarders
  <2> QED BY <2>1, <2>2, <2>3, <2>4 DEF unexpose
<1>5. \A j \in Keys \ {k} : fw'.owned[j] = fw.owned[j]
  BY <1>2 DEF TypeOK, Forwarders, Entries
<1> QED BY <1>1, <1>2, <1>3, <1>4, <1>5

\* Everything about to be exposed has an entry, and no entry of a mapping in
\* the table goes.
LEMMA RecordKeeps == ASSUME TypeOK, RecordInv, record PROVE RecordInv'
<1> USE DEF RecordInv, PassInv, ReleaseInv, RecordedBeforeExposed, Between,
    Converging, Ours, InTable, Recorded
<1>1. fw.pc = "stale" /\ UNCHANGED <<file, cmd, prov>>
  BY DEF record, step, quietly
<1>2. /\ fw'.pc = "save" /\ fw'.live = fw.live /\ fw'.todo = fw.want \ fw.live
      /\ ~fw'.dirty => ~fw.dirty /\ fw'.owned = fw.owned
  BY DEF record, step, goes, missing, TypeOK, Forwarders
<1>3. \A k \in Keys : /\ fw'.owned[k] = "no" => fw.owned[k] = "no"
                      /\ k \in fw'.todo => fw'.owned[k] # "no"
  <2>1. fw'.owned = [k \in Keys |->
                    IF k \notin fw.want \/ (k \in fw.live /\ fw.owned[k] = "no") THEN fw.owned[k]
                    ELSE IF k \in fw.live THEN inPlace(fw, k)
                    ELSE IF fw.owned[k] = "no" THEN "ok"
                    ELSE fw.owned[k]]
    BY DEF record, step, goes, TypeOK, Forwarders
  <2>2. \A k \in Keys : inPlace(fw, k) # "no"
    BY DEF inPlace, status
  <2> QED BY <1>2, <2>1, <2>2
<1> QED BY <1>1, <1>2, <1>3 DEF TypeOK, Forwarders

\* The save writes the entries, or there was nothing to write.
LEMMA SaveKeeps == ASSUME TypeOK, RecordInv, save, ~SaveFails PROVE RecordInv'
<1> USE DEF RecordInv, PassInv, ReleaseInv, RecordedBeforeExposed, Between,
    Converging, Ours, InTable, Recorded
<1>1. fw.pc = "save" /\ UNCHANGED <<cmd, prov>>
  BY DEF save, step
<1>2. /\ fw'.pc = "expose" /\ fw'.todo = fw.todo /\ fw'.owned = fw.owned
  <2>1. \/ fw' = [fw EXCEPT !.pc = "expose"]
        \/ fw' = [fw EXCEPT !.pc = "expose", !.dirty = FALSE]
    BY DEF save, step, goes
  <2>2. fw \in Forwarders
    BY DEF TypeOK
  <2> QED BY <2>1, <2>2 DEF Forwarders
<1>3. file' = fw.owned
  BY <1>1 DEF save
<1> QED BY <1>1, <1>2, <1>3

\* What is exposed was on the saved record.
LEMMA ExposeKeeps ==
    ASSUME TypeOK, RecordInv, NEW k \in Keys, expose(k)
    PROVE RecordInv'
<1> USE DEF RecordInv, PassInv, ReleaseInv, RecordedBeforeExposed, Between,
    Converging, Ours, InTable, Recorded
<1>1. fw.pc = "expose" /\ k \in fw.todo /\ UNCHANGED <<cmd, file>> /\ fw \in Forwarders
  BY DEF expose, step, TypeOK
<1>2. PICK e \in {"ok", "err"} : fw' = with(fw, k, e)
  BY DEF expose, step, goes, status
<1>3. /\ fw'.pc = "expose" /\ fw'.todo = fw.todo \ {k} /\ fw'.owned = [fw.owned EXCEPT ![k] = e]
      /\ ~fw'.dirty => ~fw.dirty /\ fw'.owned = fw.owned
  <2>1. /\ with(fw, k, e).pc = fw.pc /\ with(fw, k, e).todo = fw.todo \ {k}
        /\ with(fw, k, e).owned = [fw.owned EXCEPT ![k] = e]
        /\ ~with(fw, k, e).dirty => ~fw.dirty /\ with(fw, k, e).owned = fw.owned
    BY <1>1, WithFields
  <2> QED BY <1>1, <1>2, <2>1
<1>4. /\ prov'.up = prov.up /\ (~prov.up => prov' = prov)
      /\ \A j \in Keys \ {k} : prov'.table[j] = prov.table[j]
  BY DEF expose, answered, failed, TypeOK, Tables
<1>5. \A j \in Keys : (fw'.owned[j] # "no") <=> (fw.owned[j] # "no")
  BY <1>1, <1>3 DEF Forwarders, Entries
<1> QED BY <1>1, <1>3, <1>4, <1>5

\* The last save leaves the file as the forwarder remembers it.
LEMMA FinishKeeps ==
    ASSUME TypeOK, RecordInv, finish, ~SaveFails
    PROVE RecordInv'
<1>1. fw.pc = "expose" /\ UNCHANGED <<cmd, prov>> /\ fw' = giveUp
  BY DEF finish, step, goes
<1>2. file' = fw.owned
  BY <1>1 DEF finish, RecordInv, PassInv, Converging
<1>3. Ours \subseteq Recorded(fw.owned)
  BY <1>1 DEF RecordInv, PassInv, RecordedBeforeExposed, Ours, Recorded
<1> QED BY <1>1, <1>2, <1>3, GaveUp

\* A forwarder that starts or ends, wherever it is, leaves the file behind.
LEMMA ProcessKeeps ==
    ASSUME TypeOK, RecordInv, startForwarder \/ stopForwarder \/ crash
    PROVE RecordInv'
<1> USE DEF RecordInv, PassInv, ReleaseInv, RecordedBeforeExposed, Between,
    Converging, Ours, InTable, Recorded
<1>1. UNCHANGED <<file, prov>>
  BY DEF startForwarder, stopForwarder, crash
<1>2. CASE startForwarder
  BY <1>1, <1>2 DEF startForwarder, Dead
<1>3. CASE stopForwarder
  BY <1>1, <1>3 DEF stopForwarder, died, Dead, TypeOK
<1>4. CASE crash
  BY <1>1, <1>4 DEF crash, died, Dead, Alive
<1> QED BY <1>2, <1>3, <1>4

\* A release empties the file only after the table.
LEMMA ReleaseCommandKeeps ==
    ASSUME TypeOK, RecordInv, releaseFails \/ releaseLoad \/ releaseSave
    PROVE RecordInv'
<1> USE DEF RecordInv, PassInv, ReleaseInv, RecordedBeforeExposed, Between,
    Converging, Ours, InTable, Recorded
<1>1. UNCHANGED <<fw, prov>> /\ fw.pc = "dead"
  BY DEF releaseFails, releaseLoad, releaseSave, process
<1>2. CASE releaseFails
  BY <1>1, <1>2 DEF releaseFails
<1>3. CASE releaseLoad
  BY <1>1, <1>3 DEF releaseLoad
<1>4. CASE releaseSave
  BY <1>1, <1>4 DEF releaseSave, TypeOK
<1> QED BY <1>2, <1>3, <1>4

\* A released mapping is nobody's, served or not.
LEMMA ReleaseKeeps ==
    ASSUME TypeOK, RecordInv, NEW k \in Keys, release(k)
    PROVE RecordInv'
<1> USE DEF RecordInv, PassInv, ReleaseInv, RecordedBeforeExposed, Between,
    Converging, Ours, InTable, Recorded
<1>1. UNCHANGED <<fw, file>> /\ fw.pc = "dead" /\ cmd'.pc = "release" /\ cmd'.todo = cmd.todo \ {k}
  BY DEF release, process, TypeOK
<1>2. /\ prov'.up = prov.up /\ (~prov.up => prov' = prov)
      /\ \A j \in Keys \ {k} : prov'.table[j] = prov.table[j]
      /\ prov'.table[k] # "ours"
  BY DEF release, answered, TypeOK, Tables
<1> QED BY <1>1, <1>2 DEF release

\* The provider loses its whole table, and nobody adds a mapping as the
\* forwarder's.
LEMMA AroundKeeps ==
    ASSUME TypeOK, RecordInv, provider \/ addition
    PROVE RecordInv'
<1> USE DEF RecordInv, PassInv, ReleaseInv, RecordedBeforeExposed, Between,
    Converging, Ours, InTable, Recorded
<1>1. UNCHANGED <<fw, file, cmd>>
  BY DEF provider, addition, process
<1>2. CASE provider
  <2>1. \A k \in Keys : prov'.table[k] = "none"
    BY <1>2 DEF provider
  <2> QED BY <1>1, <2>1
<1>3. CASE addition
  <2>1. prov.up /\ prov'.up /\ \A k \in Keys : prov'.table[k] = "ours" => prov.table[k] = "ours"
    BY <1>3 DEF addition, TypeOK, Tables
  <2> QED BY <1>1, <2>1
<1> QED BY <1>2, <1>3

\* As long as forwards.json can be saved, it, the forwarder and the table are
\* as far apart as the place in the pass says: the inductive invariant behind
\* the two theorems about the record.
THEOREM RecordInvariant == ASSUME ~SaveFails PROVE Spec => []RecordInv
<1>1. Init => RecordInv
  BY DEF Init, Dead, RecordInv, PassInv, ReleaseInv, RecordedBeforeExposed,
      Between, Converging, Ours, InTable, Recorded
<1>2. TypeOK /\ RecordInv /\ [Next]_vars => RecordInv'
  <2> SUFFICES ASSUME TypeOK, RecordInv, [Next]_vars PROVE RecordInv'
      OBVIOUS
  <2>1. CASE pass
    BY <2>1, BetweenKeeps, LoadKeeps, ListKeeps, UnexposeKeeps, RecordKeeps,
        SaveKeeps, ExposeKeeps, FinishKeeps DEF pass
  <2>2. CASE fire \/ connect \/ readEvent \/ streamCloses \/ containers \/ flush \/ UNCHANGED vars
    BY <2>2, Unmoved DEF fire, connect, readEvent, streamCloses, containers,
        flush, process, vars
  <2> QED BY <2>1, <2>2, ProcessKeeps, ReleaseCommandKeeps, ReleaseKeeps,
      AroundKeeps DEF Next
<1> QED BY <1>1, <1>2, TypeCorrect, PTL DEF Spec

\* Every mapping the forwarder put into the provider's table is on record, for
\* any set of keys and through any number of crashes, failed calls, restarts of
\* the provider and releases, as long as forwards.json can be saved.
THEOREM MappingsAreRecorded == ASSUME ~SaveFails PROVE Spec => []RecordedBeforeExposed
  BY RecordInvariant, PTL DEF RecordInv

\* No trigger is lost between the stream, the debouncer and the loop, whatever
\* fails and for every reload period.
THEOREM TriggersAreNotLost == Spec => []TriggerNotLost
<1>1. Init => TriggerNotLost
  BY DEF Init, nothingOwed, TriggerNotLost
<1> QED BY <1>1, TriggerStep, TypeCorrect, PTL DEF Spec

\* What OthersStay says of one step.
OthersKept ==
    \A k \in Keys : prov.table[k] = "left" /\ prov'.up /\ prov.up /\ file[k] = "no"
        => prov'.table[k] # "none"

\* Only a mapping on record is ever taken out of the table.
LEMMA OthersStep == ASSUME TypeOK, RecordInv, [Next]_vars PROVE OthersKept
<1>1. CASE UNCHANGED prov \/ prov' = abandoned
  BY <1>1 DEF OthersKept, abandoned, TypeOK, Tables
<1>2. CASE \E k \in Keys : unexpose(k)
  <2> PICK k \in Keys : unexpose(k)
    BY <1>2
  <2>1. file[k] # "no"
    BY DEF unexpose, RecordInv, PassInv, Recorded
  <2>2. \A j \in Keys \ {k} : prov'.table[j] = prov.table[j]
    BY DEF unexpose, answered, failed, TypeOK, Tables
  <2> QED BY <2>1, <2>2 DEF OthersKept
<1>3. CASE \E k \in Keys : expose(k)
  BY <1>3 DEF expose, answered, failed, TypeOK, Tables, OthersKept
<1>4. CASE \E k \in Keys : release(k)
  <2> PICK k \in Keys : release(k)
    BY <1>4
  <2>1. file[k] # "no"
    BY DEF release, RecordInv, ReleaseInv, Recorded
  <2>2. \A j \in Keys \ {k} : prov'.table[j] = prov.table[j]
    BY DEF release, answered, TypeOK, Tables
  <2> QED BY <2>1, <2>2 DEF OthersKept
<1>5. CASE provider
  BY <1>5 DEF provider, OthersKept
<1>6. CASE addition
  BY <1>6 DEF addition, OthersKept, TypeOK, Tables
<1> QED BY <1>1, <1>2, <1>3, <1>4, <1>5, <1>6
    DEF Next, pass, load, tick, takeSignal, PS, inspect, apply, list, record,
        save, finish,
        quietly, fire, connect, readEvent, streamCloses, startForwarder, stopForwarder,
        releaseFails, releaseLoad, releaseSave, crash, containers, flush, vars

\* A mapping that is not on record as the forwarder's stays in the table as long
\* as the provider does, when forwards.json can be saved.
THEOREM OthersAreLeftAlone == ASSUME ~SaveFails PROVE Spec => OthersStay
<1>1. TypeOK /\ RecordInv /\ [Next]_vars => [OthersKept]_vars
  BY OthersStep
<1> QED BY <1>1, TypeCorrect, RecordInvariant, PTL DEF Spec, OthersStay, OthersKept
=============================================================================
