---------------------------- MODULE IdleMonitor ----------------------------
(***************************************************************************)
(* The sleeper's idle monitor: the tracker that adds up idle time from     *)
(* samples, its flap guard, and the automatic suspend it fires.  Times are *)
(* ages in units of a clock step, each capped where nothing tells a longer *)
(* one apart.                                                              *)
(***************************************************************************)
EXTENDS Naturals, FiniteSets, FiniteSetsExt

CONSTANTS
    Interval,      \* between two samples
    After,         \* the idle period of the setting
    FlapWindow, MaxPenalty, PenaltyResetAfter,
    MaxFailures,   \* failed automatic suspends in a row that turn it off
    MaxEvents,     \* bound: changes of load, touches, commands, failures
    Stalls         \* whether a wake or a suspend may overtake the mode loop's next look

ASSUME IdleAssumption ==
    /\ {Interval, After, FlapWindow, MaxPenalty, MaxFailures} \subseteq Nat \ {0}
    /\ PenaltyResetAfter \in Nat /\ FlapWindow < PenaltyResetAfter
    /\ MaxEvents \in Nat /\ Stalls \in BOOLEAN

VARIABLES
    mach,    \* the machine: state, whether its last suspend was automatic, and its age
    load,    \* what goes on in the guest
    touched, \* a jm command touched the activity file since the last sample
    period,  \* the machine's idle-suspend setting: 0 or After
    mon,     \* the sleeper's idleMonitor and its tracker
    wake,    \* how old the suspend was at the first trigger of its wake, or Never
    calm,    \* quiet samples and monotonic time since monitoring or a blocker
    events

vars == <<mach, load, touched, period, mon, wake, calm, events>>

Consecutive == 2
MaxIdle == After * MaxPenalty + 2 * Interval
Never == PenaltyResetAfter + 1
Ages == 0 .. PenaltyResetAfter

\* A jail or the inhibit file, an engine client beyond the forwarder's own,
\* a command session, and a busy CPU as the host sees it.
Signals == {"jail", "engine", "session", "cpu"}
GuestSignals == {"jail", "engine", "session"}

Monitors ==
    [active: BOOLEAN, idle: 0 .. MaxIdle, run: [{"engine", "session"} -> 0 .. Consecutive],
     penalty: 1 .. MaxPenalty, probed: BOOLEAN, since: 0 .. 2 * Interval + 1, known: BOOLEAN,
     failures: 0 .. MaxFailures, suspendedAt: Ages \cup {Never}, due: BOOLEAN]

\* The type invariant.
TypeOK ==
    /\ mach \in [st: {"running", "suspended"}, auto: BOOLEAN, age: Ages]
    /\ load \subseteq Signals /\ touched \in BOOLEAN /\ period \in {0, After}
    /\ mon \in Monitors
    /\ wake \in Ages \cup {Never}
    /\ calm \in [time: 0 .. MaxIdle, samples: 0 .. MaxIdle]
    /\ events \in 0 .. MaxEvents

noRun == [s \in {"engine", "session"} |-> 0]

\* What a sleeper that has just started knows.
newMonitor ==
    [active |-> FALSE, idle |-> 0, run |-> noRun, penalty |-> 1, probed |-> FALSE, since |-> 0,
     known |-> FALSE, failures |-> 0, suspendedAt |-> Never, due |-> FALSE]

noCalm == [time |-> 0, samples |-> 0]

Init ==
    /\ mach = [st |-> "running", auto |-> FALSE, age |-> 0]
    /\ load = {} /\ touched = FALSE /\ period \in {0, After}
    /\ mon = newMonitor /\ wake = Never /\ calm = noCalm /\ events = 0

happens == events < MaxEvents /\ events' = events + 1

atMost(n, bound) == IF n > bound THEN bound ELSE n

--------------------------------------------------------------------------
(* The tracker. *)

\* Mutant: the time since the last sample is counted whole.
creditUncapped(elapsed) == IF elapsed > 2 * Interval THEN MaxIdle ELSE elapsed

\* A host that slept or a probe that stalled counts for two intervals.
credit(elapsed) == atMost(elapsed, 2 * Interval)

runs(t, s) == [k \in DOMAIN t.run |-> IF k \in s THEN atMost(t.run[k] + 1, Consecutive) ELSE 0]

\* What holds the machine awake: host signals at once, jails at once, clients
\* and sessions once seen in two samples in a row.
blockers(t, s, active, err) ==
    (IF active THEN {"activity"} ELSE {}) \cup (s \cap {"cpu"})
    \cup (IF err THEN {}
          ELSE (s \cap {"jail"}) \cup {k \in DOMAIN t.run \cap s : runs(t, s)[k] >= Consecutive})

\* A blocker resets the idle time, a first sighting or an unreadable guest
\* neither counts nor resets.
Observe(t, s, active, err, elapsed) ==
    LET now == blockers(t, s, active, err)
        pending == s \cap DOMAIN t.run # {}
    IN [t EXCEPT !.run = IF err THEN @ ELSE runs(t, s),
                 !.idle = IF now # {} THEN 0
                          ELSE IF err \/ pending THEN @
                          ELSE atMost(@ + credit(elapsed), MaxIdle)]

\* Mutant: the penalty is kept and not used.
ThresholdFlat(t, after) == after

Threshold(t, after) == after * t.penalty

\* Mutant: only the very threshold fires.
DueExact(t, after) == after > 0 /\ t.idle = Threshold(t, after)

\* A period of zero never fires and starts over.
Due(t, after) == after > 0 /\ t.idle >= Threshold(t, after)

Reset(t) == [t EXCEPT !.idle = 0]

Restart(t) == [t EXCEPT !.idle = 0, !.run = noRun]

Woke(t, asleep) ==
    [t EXCEPT !.penalty = CASE asleep < FlapWindow -> atMost(2 * @, MaxPenalty)
                            [] asleep >= PenaltyResetAfter -> 1
                            [] OTHER -> @]

--------------------------------------------------------------------------
(* The monitor. *)

\* The trigger the flap guard measures by: the first one, or else now.
wokenAfter == IF wake # Never THEN wake ELSE mon.suspendedAt

\* Mutant: the wake of an automatic suspend is shown to the flap guard again
\* after the next suspend, whoever asked for that.
shownKept(t) == t

shown(t) == [t EXCEPT !.suspendedAt = Never]

enterMonitor(t) ==
    LET fresh == [Restart(t) EXCEPT !.active = TRUE, !.probed = FALSE, !.since = 0, !.known = FALSE]
    IN IF t.suspendedAt = Never THEN fresh ELSE shown(Woke(fresh, wokenAfter))

entered(t) == IF t.active THEN t ELSE enterMonitor(t)

\* One sample, once the last is an interval old.  A sample that finds the
\* machine idle for the threshold fires the suspend, unless it is off.
sample(t, err, available) ==
    LET seen == Observe(t, load, t.known /\ touched, err, t.since)
        due == Due(seen, period)
    IN [(IF period = 0 THEN Reset(seen) ELSE seen) EXCEPT
            !.probed = TRUE, !.known = TRUE, !.since = 0,
            !.due = due /\ available /\ t.failures < MaxFailures]

loud(t, err) == blockers(t, load, t.known /\ touched, err) # {}

quiet(t, err) == ~loud(t, err) /\ ~err /\ load \cap DOMAIN t.run = {}

\* A pass of the mode loop in monitor mode.
monitor ==
    LET t == entered(mon)
        due == ~t.probed \/ t.since >= Interval
    IN /\ mach.st = "running" /\ ~mon.due
       /\ ~mon.active \/ due
       /\ wake' = IF mon.active \/ mon.suspendedAt = Never THEN wake ELSE Never
       /\ \E err, available \in BOOLEAN :
            /\ IF err \/ ~available THEN happens ELSE UNCHANGED events
            /\ mon' = sample(t, err, available)
            /\ calm' = LET was == IF mon.active THEN calm ELSE noCalm
                       IN CASE loud(t, err) -> noCalm
                            [] quiet(t, err) ->
                                 [time |-> atMost(was.time + t.since, MaxIdle),
                                  samples |-> atMost(was.samples + 1, MaxIdle)]
                            [] OTHER -> [was EXCEPT !.time = atMost(@ + t.since, MaxIdle)]
       /\ touched' = FALSE
       /\ UNCHANGED <<mach, load, period>>

\* A pass in any other mode.
leaveMonitor ==
    /\ mach.st = "suspended" /\ mon.active /\ ~mon.due
    /\ mon' = [mon EXCEPT !.active = FALSE]
    /\ UNCHANGED <<mach, load, touched, period, wake, calm, events>>

suspended(auto) == mach' = [st |-> "suspended", auto |-> auto, age |-> 0]

\* What the outcome of an automatic suspend does to the monitor.
committed == [Reset(mon) EXCEPT !.due = FALSE, !.failures = 0, !.suspendedAt = 0]
skipped == [mon EXCEPT !.due = FALSE]
refused == [Reset(mon) EXCEPT !.due = FALSE]
failed == [Reset(mon) EXCEPT !.due = FALSE, !.failures = @ + 1]

\* The suspend probes the guest once more, strictly; a client that comes, a
\* lock that is held or a step that fails keeps the machine running.  One that
\* is suspended already is a success to the monitor.
autoSuspend ==
    /\ mon.due /\ UNCHANGED <<load, touched, period, calm>>
    /\ \/ /\ mach.st = "running" /\ load \cap GuestSignals = {} /\ suspended(TRUE)
          /\ mon' = committed /\ wake' = Never /\ UNCHANGED events
       \/ /\ mach.st = "running" /\ load \cap GuestSignals # {}
          /\ mon' = refused /\ wake' = Never /\ UNCHANGED <<mach, events>>
       \/ /\ happens /\ mon' = skipped /\ UNCHANGED mach /\ wake' \in {Never, wake}
       \/ /\ happens /\ mon' \in {refused, failed} /\ UNCHANGED mach /\ wake' = Never
       \/ /\ mach.st = "suspended" /\ UNCHANGED <<mach, events>>
          /\ mon' = committed /\ wake' = Never

--------------------------------------------------------------------------
(* Around the monitor. *)

aged(a, n) == IF a = Never THEN Never ELSE atMost(a + n, PenaltyResetAfter)

later(n) ==
    /\ mach' = [mach EXCEPT !.age = aged(@, n)]
    /\ mon' = [mon EXCEPT !.since = atMost(@ + n, 2 * Interval + 1), !.suspendedAt = aged(@, n)]
    /\ UNCHANGED <<load, touched, period, wake, calm>>

clockTicks == later(1) /\ UNCHANGED events

\* The host sleeps for a night, or the sleeper is stopped that long.
hostSleeps == happens /\ later(PenaltyResetAfter + 2 * Interval)

\* A client of a suspended machine connects, or its wake reports when it began.
triggered ==
    /\ wake = Never /\ mach.st = "suspended" /\ happens
    /\ wake' = IF mon.suspendedAt = Never THEN 0 ELSE mon.suspendedAt
    /\ UNCHANGED <<mach, load, touched, period, mon, calm>>

\* A wake takes seconds, and the mode loop looks as soon as a suspend ends
\* and as soon as a wake reports itself.
wakes ==
    /\ mach.st = "suspended" /\ (Stalls \/ ~mon.active) /\ happens
    /\ mach' = [mach EXCEPT !.st = "running"]
    /\ UNCHANGED <<load, touched, period, mon, wake, calm>>

\* "jm suspend" runs in the sleeper, while the mode loop holds, or while it
\* is about to fire an automatic one.
manualSuspend ==
    /\ mach.st = "running" /\ (Stalls \/ (mon.active /\ ~mon.due))
    /\ happens /\ suspended(FALSE)
    /\ mon' = IF mon.due THEN mon ELSE [mon EXCEPT !.active = FALSE]
    /\ wake' = Never
    /\ UNCHANGED <<load, touched, period, calm>>

loadChanges ==
    /\ happens /\ \E s \in Signals : load' = SymDiff(load, {s})
    /\ UNCHANGED <<mach, touched, period, mon, wake, calm>>

touch ==
    /\ ~touched /\ happens /\ touched' = TRUE
    /\ UNCHANGED <<mach, load, period, mon, wake, calm>>

\* "jm set --idle-suspend"; the next sample reads it.
setPeriod ==
    /\ happens /\ period' = After - period
    /\ UNCHANGED <<mach, load, touched, mon, wake, calm>>

sleeperRestarts ==
    /\ happens /\ mon' = newMonitor /\ wake' = Never /\ calm' = noCalm
    /\ UNCHANGED <<mach, load, touched, period>>

Next ==
    \/ monitor \/ leaveMonitor \/ autoSuspend \/ clockTicks \/ hostSleeps \/ triggered \/ wakes
    \/ manualSuspend \/ loadChanges \/ touch \/ setPeriod \/ sleeperRestarts

Spec == Init /\ [][Next]_vars

\* The mode loop runs and the clock goes on.
FairSpec ==
    /\ Spec
    /\ WF_vars(monitor) /\ WF_vars(leaveMonitor) /\ WF_vars(autoSuspend)
    /\ WF_vars(clockTicks)

--------------------------------------------------------------------------
(* Properties. *)

\* Idle time is never more than the quiet that was really seen: no more than
\* the time since monitoring began or a blocker was seen, and no more than
\* two intervals for each quiet sample, however long the host slept
\* (Tracker.Observe, enterMonitor).
IdleIsReal ==
    mon.active => mon.idle <= calm.time /\ mon.idle <= 2 * Interval * calm.samples

\* The flap guard follows the wakes of automatic suspends and nothing else: it
\* doubles the period only for one that was woken within the window and drops
\* the penalty only after a long one; a manual suspend in between, a late
\* trigger or a sleep of the host changes nothing (enterMonitor, Woke).
PenaltyFollowsFlaps ==
    [][/\ mon'.penalty > mon.penalty =>
            mach.auto /\ (wake < FlapWindow \/ mach.age < FlapWindow)
       /\ mon'.penalty < mon.penalty =>
            mon' = newMonitor \/ (mach.auto /\ mach.age >= PenaltyResetAfter)]_vars

\* The loop of suspends and wakes slows down: a machine that flapped is
\* suspended automatically only after the guest was seen quiet for the
\* setting times the penalty (Threshold, Due, autoSuspend).
FlapsSlowDown ==
    [][mach.st = "running" /\ mach'.st = "suspended" /\ mach'.auto
          => calm.time >= After * mon.penalty]_vars

\* A machine on which nothing goes on does not run for ever with idle suspend
\* on, unless automatic suspend turned itself off after failures in a row.
QuietMachineSuspends ==
    ~ <>[](/\ mach.st = "running" /\ load = {} /\ period > 0
           /\ mon.failures < MaxFailures)
=============================================================================
