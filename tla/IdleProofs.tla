----------------------------- MODULE IdleProofs -----------------------------
(***************************************************************************)
(* Proofs about the idle monitor: idle time is real, an automatic suspend  *)
(* comes only after the quiet it takes, and the flap guard follows the     *)
(* wakes of automatic suspends.                                            *)
(***************************************************************************)
EXTENDS IdleMonitor, TLAPS

\* The suspend the flap guard is to be shown is the machine's last one, and
\* the trigger it is measured by came after it.
ShownInv ==
    /\ mon.suspendedAt # Never => mach.auto /\ mon.suspendedAt = mach.age
    /\ mon.suspendedAt # Never /\ wake # Never => wake <= mach.age
    /\ mach.st = "running" /\ mon.active => mon.suspendedAt = Never

\* An automatic suspend is fired on a machine that still runs.
DueRuns == mon.due => mach.st = "running"

\* An automatic suspend that was fired had the idle time it takes.
DueInv ==
    mon.due => /\ mon.active /\ mon.idle >= After * mon.penalty
               /\ mon.failures < MaxFailures

\* The inductive invariant.
IdleInv == TypeOK /\ IdleIsReal /\ DueInv

\* The counters of the two signals that take two samples in a row.
Runs == [{"engine", "session"} -> 0 .. Consecutive]

\* What the assumption on the constants says of the bounds built from them.
LEMMA Bounds ==
    /\ MaxIdle \in Nat /\ Never \in Nat /\ Interval \in Nat \ {0} /\ After \in Nat \ {0}
    /\ PenaltyResetAfter \in Nat /\ FlapWindow \in Nat /\ FlapWindow < PenaltyResetAfter
    /\ MaxPenalty \in Nat \ {0} /\ MaxFailures \in Nat \ {0} /\ MaxEvents \in Nat
    /\ Never \notin Ages
<1>1. /\ Interval \in Nat \ {0} /\ After \in Nat \ {0} /\ FlapWindow \in Nat
      /\ MaxPenalty \in Nat \ {0} /\ MaxFailures \in Nat \ {0}
  BY IdleAssumption
<1>2. After * MaxPenalty \in Nat
  BY <1>1
<1> QED BY <1>1, <1>2, IdleAssumption DEF MaxIdle, Never, Ages

\* atMost never exceeds either argument.
LEMMA AtMost ==
    ASSUME NEW n \in Nat, NEW b \in Nat
    PROVE  atMost(n, b) \in 0 .. b /\ atMost(n, b) <= n
  BY DEF atMost

\* The counter of events stays within its bound.
LEMMA EventsType ==
    ASSUME events \in 0 .. MaxEvents, UNCHANGED events \/ happens
    PROVE  events' \in 0 .. MaxEvents
  BY Bounds DEF happens

\* The counters of Tracker.Observe stay within two.
LEMMA RunsType ==
    ASSUME NEW t \in Monitors, NEW s PROVE runs(t, s) \in Runs
<1>1. t.run \in Runs
  BY DEF Monitors, Runs
<1>2. \A k \in {"engine", "session"} : atMost(t.run[k] + 1, Consecutive) \in 0 .. Consecutive
  BY <1>1 DEF Runs, Consecutive, atMost
<1>3. DOMAIN t.run = {"engine", "session"}
  BY <1>1 DEF Runs
<1> QED BY <1>2, <1>3 DEF runs, Runs, Consecutive

\* A sleeper that has just started has a well-typed monitor.
LEMMA NewMonitorType == newMonitor \in Monitors
<1>1. noRun \in Runs
  BY DEF noRun, Runs, Consecutive
<1> QED BY <1>1, Bounds DEF newMonitor, Monitors, Runs

\* What an elapsed time is worth: never more than it, nor than two intervals.
LEMMA CreditType ==
    ASSUME NEW elapsed \in Nat, NEW i \in 0 .. MaxIdle
    PROVE  /\ credit(elapsed) \in Nat /\ credit(elapsed) <= elapsed /\ credit(elapsed) <= 2 * Interval
           /\ atMost(i + credit(elapsed), MaxIdle) \in 0 .. MaxIdle
           /\ atMost(i + credit(elapsed), MaxIdle) <= i + credit(elapsed)
<1>1. 2 * Interval \in Nat
  BY Bounds
<1>2. credit(elapsed) \in 0 .. 2 * Interval /\ credit(elapsed) <= elapsed
  BY <1>1, AtMost DEF credit
<1>3. i + credit(elapsed) \in Nat
  BY <1>1, <1>2, Bounds
<1>4. /\ atMost(i + credit(elapsed), MaxIdle) \in 0 .. MaxIdle
      /\ atMost(i + credit(elapsed), MaxIdle) <= i + credit(elapsed)
  BY <1>3, Bounds, AtMost
<1> QED BY <1>1, <1>2, <1>4

\* The tracker once it has observed a sample.
seen(t, err) == Observe(t, load, t.known /\ touched, err, t.since)

\* Tracker.Observe resets the idle time on a blocker, keeps it on a first
\* sighting or an unreadable guest, and adds the credit only to a quiet sample.
LEMMA Seen ==
    ASSUME NEW t \in Monitors, NEW err \in BOOLEAN
    PROVE  /\ seen(t, err) \in Monitors
           /\ seen(t, err).active = t.active /\ seen(t, err).penalty = t.penalty
           /\ seen(t, err).suspendedAt = t.suspendedAt /\ seen(t, err).failures = t.failures
           /\ \/ loud(t, err) /\ ~quiet(t, err) /\ seen(t, err).idle = 0
              \/ ~loud(t, err) /\ ~quiet(t, err) /\ seen(t, err).idle = t.idle
              \/ /\ ~loud(t, err) /\ quiet(t, err)
                 /\ seen(t, err).idle = atMost(t.idle + credit(t.since), MaxIdle)
<1> DEFINE run == IF err THEN t.run ELSE runs(t, load)
           held == loud(t, err)
           unsure == err \/ load \cap DOMAIN t.run # {}
           idle == IF held THEN 0
                   ELSE IF unsure THEN t.idle
                   ELSE atMost(t.idle + credit(t.since), MaxIdle)
<1>1. seen(t, err) = [t EXCEPT !.run = run, !.idle = idle]
  BY DEF seen, Observe, loud
<1>2. run \in Runs
  BY RunsType DEF Monitors, Runs
<1>3. t.idle \in 0 .. MaxIdle /\ t.since \in Nat
  BY Bounds DEF Monitors
<1>4. idle \in 0 .. MaxIdle
  <2>1. atMost(t.idle + credit(t.since), MaxIdle) \in 0 .. MaxIdle
    BY <1>3, CreditType
  <2>2. 0 \in 0 .. MaxIdle
    BY Bounds
  <2> QED BY <1>3, <2>1, <2>2
<1>5. \/ held /\ ~quiet(t, err) /\ idle = 0
      \/ ~held /\ ~quiet(t, err) /\ idle = t.idle
      \/ ~held /\ quiet(t, err) /\ idle = atMost(t.idle + credit(t.since), MaxIdle)
  <2>1. quiet(t, err) <=> ~held /\ ~unsure
    BY DEF quiet
  <2> HIDE DEF held, unsure
  <2> QED BY <2>1
<1> HIDE DEF run, idle
<1>6. /\ seen(t, err) \in Monitors /\ seen(t, err).active = t.active
      /\ seen(t, err).penalty = t.penalty
      /\ seen(t, err).suspendedAt = t.suspendedAt /\ seen(t, err).failures = t.failures
      /\ seen(t, err).idle = idle
  BY <1>1, <1>2, <1>4 DEF Monitors, Runs
<1> QED BY <1>5, <1>6

\* A sample fires the suspend only on idle time that Observe left standing
\* and that reached the threshold.
LEMMA Sampled ==
    ASSUME NEW t \in Monitors, NEW err \in BOOLEAN, NEW available \in BOOLEAN
    PROVE  /\ sample(t, err, available) \in Monitors
           /\ sample(t, err, available).active = t.active
           /\ sample(t, err, available).penalty = t.penalty
           /\ sample(t, err, available).suspendedAt = t.suspendedAt
           /\ sample(t, err, available).failures = t.failures
           /\ sample(t, err, available).idle \in {0, seen(t, err).idle}
           /\ sample(t, err, available).due
                => /\ sample(t, err, available).idle = seen(t, err).idle
                   /\ Due(seen(t, err), period) /\ t.failures < MaxFailures
<1> DEFINE n == sample(t, err, available)
<1> DEFINE o == seen(t, err)
           m == IF period = 0 THEN Reset(o) ELSE o
           d == Due(o, period) /\ available /\ t.failures < MaxFailures
<1>1. /\ o \in Monitors /\ o.active = t.active /\ o.penalty = t.penalty
      /\ o.suspendedAt = t.suspendedAt /\ o.failures = t.failures
  BY Seen
<1>2. n = [m EXCEPT !.probed = TRUE, !.known = TRUE, !.since = 0, !.due = d]
  BY DEF sample, seen
<1>3. Due(o, period) => period # 0
  BY DEF Due
<1> HIDE DEF o
<1>4. /\ m \in Monitors /\ m.active = o.active /\ m.penalty = o.penalty
      /\ m.suspendedAt = o.suspendedAt /\ m.failures = o.failures
      /\ m.idle = IF period = 0 THEN 0 ELSE o.idle
  BY <1>1, Bounds DEF Reset, Monitors
<1>5. d \in BOOLEAN
  OBVIOUS
<1> HIDE DEF m, d, n
<1>6. n \in Monitors
  <2>1. 0 \in 0 .. 2 * Interval + 1
    BY Bounds
  <2> QED BY <1>2, <1>5, <1>4, <2>1 DEF Monitors
<1>7. /\ n.active = o.active /\ n.penalty = o.penalty /\ n.suspendedAt = o.suspendedAt
      /\ n.failures = o.failures
      /\ n.idle = IF period = 0 THEN 0 ELSE o.idle
      /\ n.due = d
  BY <1>4, <1>2 DEF Monitors
<1> QED BY <1>1, <1>3, <1>6, <1>7 DEF d, o, n

\* enterMonitor starts the idle time at zero, and shows the flap guard the
\* last automatic suspend once.
LEMMA Entered ==
    ASSUME TypeOK
    PROVE  /\ entered(mon) \in Monitors /\ entered(mon).active
           /\ ~mon.active => /\ entered(mon).idle = 0
                             /\ entered(mon).suspendedAt = Never
                             /\ entered(mon).penalty =
                                  IF mon.suspendedAt = Never THEN mon.penalty
                                  ELSE CASE wokenAfter < FlapWindow -> atMost(2 * mon.penalty, MaxPenalty)
                                         [] wokenAfter >= PenaltyResetAfter -> 1
                                         [] OTHER -> mon.penalty
<1>0. mon \in Monitors
  BY DEF TypeOK
<1> DEFINE fresh == [Restart(mon) EXCEPT !.active = TRUE, !.probed = FALSE, !.since = 0, !.known = FALSE]
<1>1. noRun \in Runs
  BY DEF noRun, Runs, Consecutive
<1>2. /\ fresh \in Monitors /\ fresh.active = TRUE /\ fresh.idle = 0
      /\ fresh.penalty = mon.penalty /\ fresh.suspendedAt = mon.suspendedAt
  <2>1. /\ Restart(mon) \in Monitors /\ Restart(mon).idle = 0
        /\ Restart(mon).penalty = mon.penalty /\ Restart(mon).suspendedAt = mon.suspendedAt
    <3>1. 0 \in 0 .. MaxIdle
      BY Bounds
    <3> QED BY <1>0, <1>1, <3>1 DEF Restart, Monitors, Runs
  <2>2. 0 \in 0 .. 2 * Interval + 1
    BY Bounds
  <2> QED BY <2>1, <2>2 DEF Monitors
<1> HIDE DEF fresh
<1> DEFINE p == CASE wokenAfter < FlapWindow -> atMost(2 * mon.penalty, MaxPenalty)
                  [] wokenAfter >= PenaltyResetAfter -> 1
                  [] OTHER -> mon.penalty
<1>3. p \in 1 .. MaxPenalty
  <2>1. mon.penalty \in 1 .. MaxPenalty
    BY DEF TypeOK, Monitors
  <2>2. atMost(2 * mon.penalty, MaxPenalty) \in 1 .. MaxPenalty
    BY <2>1, Bounds DEF atMost
  <2> QED BY <2>1, <2>2, Bounds
<1>4. shown(Woke(fresh, wokenAfter)) = [[fresh EXCEPT !.penalty = p] EXCEPT !.suspendedAt = Never]
  BY <1>2 DEF shown, Woke
<1> HIDE DEF p
<1>5. /\ shown(Woke(fresh, wokenAfter)) \in Monitors /\ shown(Woke(fresh, wokenAfter)).active = TRUE
      /\ shown(Woke(fresh, wokenAfter)).idle = 0
      /\ shown(Woke(fresh, wokenAfter)).penalty = p
      /\ shown(Woke(fresh, wokenAfter)).suspendedAt = Never
  BY <1>2, <1>3, <1>4 DEF Monitors
<1>6. entered(mon) = IF mon.active THEN mon
                     ELSE IF mon.suspendedAt = Never THEN fresh ELSE shown(Woke(fresh, wokenAfter))
  BY DEF entered, enterMonitor, fresh
<1> QED BY <1>0, <1>2, <1>5, <1>6 DEF p, Monitors

\* One pass of the mode loop: the idle time it leaves is still covered by the
\* quiet that was seen, and a suspend it fires has reached the threshold.
LEMMA MonitorPass ==
    ASSUME TypeOK, NEW t, t = entered(mon), NEW was, was = IF mon.active THEN calm ELSE noCalm,
           NEW err \in BOOLEAN, NEW available \in BOOLEAN, mon' = sample(t, err, available),
           calm' = CASE loud(t, err) -> noCalm
                     [] quiet(t, err) ->
                          [time |-> atMost(was.time + t.since, MaxIdle),
                           samples |-> atMost(was.samples + 1, MaxIdle)]
                     [] OTHER -> [was EXCEPT !.time = atMost(@ + t.since, MaxIdle)]
    PROVE  /\ mon' \in Monitors /\ mon'.active
           /\ mon'.penalty = t.penalty /\ mon'.suspendedAt = t.suspendedAt
           /\ mon'.due => mon'.idle >= After * mon'.penalty /\ mon'.failures < MaxFailures
           /\ calm' \in [time: 0 .. MaxIdle, samples: 0 .. MaxIdle]
           /\ IdleIsReal => IdleIsReal'
<1>1. /\ t \in Monitors /\ t.active
      /\ ~mon.active => t.idle = 0
  BY Entered
<1>2. was \in [time: 0 .. MaxIdle, samples: 0 .. MaxIdle]
  <2>1. calm \in [time: 0 .. MaxIdle, samples: 0 .. MaxIdle]
    BY DEF TypeOK
  <2> QED BY <2>1, Bounds DEF noCalm
<1> DEFINE o == seen(t, err)
<1>3. /\ o \in Monitors /\ o.active = t.active /\ o.penalty = t.penalty
      /\ o.suspendedAt = t.suspendedAt
      /\ \/ loud(t, err) /\ ~quiet(t, err) /\ o.idle = 0
         \/ ~loud(t, err) /\ ~quiet(t, err) /\ o.idle = t.idle
         \/ /\ ~loud(t, err) /\ quiet(t, err)
            /\ o.idle = atMost(t.idle + credit(t.since), MaxIdle)
  BY <1>1, Seen
<1>4. /\ mon' \in Monitors
      /\ mon'.active = t.active /\ mon'.penalty = t.penalty /\ mon'.suspendedAt = t.suspendedAt
      /\ mon'.idle \in {0, o.idle}
      /\ mon'.failures = t.failures
      /\ mon'.due => mon'.idle = o.idle /\ Due(o, period) /\ t.failures < MaxFailures
  <2> DEFINE n == sample(t, err, available)
  <2>1. n \in Monitors
    BY <1>1, Sampled
  <2>2. n.active = t.active
    BY <1>1, Sampled
  <2>3. n.penalty = t.penalty /\ n.suspendedAt = t.suspendedAt /\ n.failures = t.failures
    BY <1>1, Sampled
  <2>4. n.idle \in {0, o.idle}
    BY <1>1, Sampled
  <2>5. n.due => n.idle = o.idle /\ Due(o, period) /\ t.failures < MaxFailures
    BY <1>1, Sampled
  <2> HIDE DEF n
  <2>6. mon' = n
    BY DEF n
  <2> QED BY <2>1, <2>2, <2>3, <2>4, <2>5, <2>6
<1>5. /\ t.since \in Nat /\ t.idle \in 0 .. MaxIdle /\ o.idle \in 0 .. MaxIdle
  BY <1>1, <1>3, Bounds DEF Monitors
<1> HIDE DEF o
<1>8. /\ calm' \in [time: 0 .. MaxIdle, samples: 0 .. MaxIdle]
      /\ \/ loud(t, err) /\ calm' = noCalm
         \/ /\ ~loud(t, err) /\ ~quiet(t, err)
            /\ calm' = [was EXCEPT !.time = atMost(was.time + t.since, MaxIdle)]
         \/ /\ ~loud(t, err) /\ quiet(t, err)
            /\ calm' = [time |-> atMost(was.time + t.since, MaxIdle),
                        samples |-> atMost(was.samples + 1, MaxIdle)]
  <2>1. /\ atMost(was.time + t.since, MaxIdle) \in 0 .. MaxIdle
        /\ atMost(was.samples + 1, MaxIdle) \in 0 .. MaxIdle
    BY <1>2, <1>5, Bounds DEF atMost
  <2>2. CASE loud(t, err)
    BY <2>2, <1>3, Bounds DEF noCalm
  <2>3. CASE ~loud(t, err) /\ ~quiet(t, err)
    BY <2>1, <2>3, <1>2
  <2>4. CASE ~loud(t, err) /\ quiet(t, err)
    BY <2>1, <2>4
  <2> QED BY <2>2, <2>3, <2>4
<1>9. mon'.due => mon'.idle >= After * mon'.penalty /\ mon'.failures < MaxFailures
  BY <1>3, <1>4 DEF Due, Threshold, TypeOK
<1>10. ASSUME IdleIsReal PROVE IdleIsReal'
  <2>1. t.idle <= was.time /\ t.idle <= 2 * Interval * was.samples
    <3>1. CASE mon.active
      BY <3>1, <1>10 DEF entered, IdleIsReal
    <3>2. CASE ~mon.active
      BY <3>2, <1>1, Bounds DEF noCalm
    <3> QED BY <3>1, <3>2
  <2>2. o.idle <= calm'.time /\ o.idle <= 2 * Interval * calm'.samples
    <3>1. CASE loud(t, err)
      BY <3>1, <1>3, <1>8, Bounds DEF noCalm
    <3>2. CASE ~loud(t, err) /\ ~quiet(t, err)
      <4>1. calm'.time = atMost(was.time + t.since, MaxIdle) /\ calm'.samples = was.samples
        BY <3>2, <1>2, <1>8
      <4>2. calm'.time >= was.time
        BY <4>1, <1>2, <1>5, Bounds DEF atMost
      <4>3. was.time \in Nat /\ calm'.time \in Nat
        BY <1>2, <1>8, Bounds
      <4> QED BY <4>1, <4>2, <4>3, <3>2, <2>1, <1>3, <1>5, Bounds
    <3>3. CASE ~loud(t, err) /\ quiet(t, err)
      <4>1. /\ calm'.time = atMost(was.time + t.since, MaxIdle)
            /\ calm'.samples = atMost(was.samples + 1, MaxIdle)
        BY <3>3, <1>8
      <4>2. /\ credit(t.since) \in Nat /\ credit(t.since) <= t.since
            /\ credit(t.since) <= 2 * Interval
            /\ o.idle <= t.idle + credit(t.since) /\ o.idle <= MaxIdle
        BY <3>3, <1>3, <1>5, CreditType, Bounds
      <4>3. o.idle <= calm'.time
        BY <4>1, <4>2, <2>1, <1>2, <1>5, Bounds DEF atMost
      <4>4. o.idle <= 2 * Interval * calm'.samples
        <5> DEFINE I == 2 * Interval
        <5>1. I \in Nat /\ I >= 1
          BY Bounds
        <5>2. t.idle <= I * was.samples
          BY <2>1, <1>2, Bounds
        <5>3. credit(t.since) <= I
          BY <4>2
        <5> HIDE DEF I
        <5>4. was.samples \in Nat /\ I * was.samples \in Nat
          BY <5>1, <1>2, Bounds
        <5>5. I * (was.samples + 1) = I * was.samples + I
          BY <5>1, <5>4
        <5>6. I * MaxIdle >= MaxIdle
          BY <5>1, Bounds
        <5>7. o.idle <= I * (was.samples + 1)
          BY <5>1, <5>2, <5>3, <5>4, <5>5, <4>2, <1>5, Bounds
        <5>8. I * MaxIdle \in Nat
          BY <5>1, Bounds
        <5>9. o.idle <= I * MaxIdle
          BY <5>6, <5>8, <4>2, <1>5, Bounds
        <5>10. calm'.samples = was.samples + 1 \/ calm'.samples = MaxIdle
          BY <4>1 DEF atMost
        <5>11. o.idle <= I * calm'.samples
          BY <5>7, <5>9, <5>10
        <5>12. calm'.samples \in Nat
          BY <1>8, Bounds
        <5> QED BY <5>11, <5>12, Bounds DEF I
      <4> QED BY <4>3, <4>4
    <3> QED BY <3>1, <3>2, <3>3
  <2>3. calm'.time \in Nat /\ calm'.samples \in Nat /\ 2 * Interval * calm'.samples \in Nat
    <3>1. calm'.time \in Nat /\ calm'.samples \in Nat
      BY <1>8, Bounds
    <3> QED BY <3>1, Bounds
  <2>4. mon'.idle <= calm'.time /\ mon'.idle <= 2 * Interval * calm'.samples
    BY <2>2, <2>3, <1>4, <1>5
  <2> QED BY <2>4 DEF IdleIsReal
<1> QED BY <1>1, <1>4, <1>8, <1>9, <1>10

\* A pass of the monitor keeps the invariant, and changes the penalty only
\* through enterMonitor.
LEMMA MonitorStep ==
    ASSUME TypeOK, monitor
    PROVE  /\ IdleIsReal => IdleInv'
           /\ mon'.penalty = entered(mon).penalty /\ mon'.suspendedAt = entered(mon).suspendedAt
           /\ mon'.active
<1>1. PICK err \in BOOLEAN, available \in BOOLEAN :
          /\ IF err \/ ~available THEN happens ELSE UNCHANGED events
          /\ mon' = sample(entered(mon), err, available)
          /\ calm' = LET was == IF mon.active THEN calm ELSE noCalm
                     IN CASE loud(entered(mon), err) -> noCalm
                          [] quiet(entered(mon), err) ->
                               [time |-> atMost(was.time + entered(mon).since, MaxIdle),
                                samples |-> atMost(was.samples + 1, MaxIdle)]
                          [] OTHER -> [was EXCEPT !.time = atMost(@ + entered(mon).since, MaxIdle)]
  BY DEF monitor
<1> DEFINE t == entered(mon)
           was == IF mon.active THEN calm ELSE noCalm
<1>2. /\ mon' \in Monitors /\ mon'.active
      /\ mon'.penalty = t.penalty /\ mon'.suspendedAt = t.suspendedAt
      /\ mon'.due => mon'.idle >= After * mon'.penalty /\ mon'.failures < MaxFailures
      /\ calm' \in [time: 0 .. MaxIdle, samples: 0 .. MaxIdle]
      /\ IdleIsReal => IdleIsReal'
  <2>1. /\ t = entered(mon) /\ was = IF mon.active THEN calm ELSE noCalm
        /\ mon' = sample(t, err, available)
        /\ calm' = CASE loud(t, err) -> noCalm
                     [] quiet(t, err) ->
                          [time |-> atMost(was.time + t.since, MaxIdle),
                           samples |-> atMost(was.samples + 1, MaxIdle)]
                     [] OTHER -> [was EXCEPT !.time = atMost(@ + t.since, MaxIdle)]
    BY <1>1
  <2> HIDE DEF t, was
  <2> QED BY <2>1, MonitorPass
<1>3. /\ UNCHANGED <<mach, load, period>> /\ touched' = FALSE /\ wake' \in {wake, Never}
  BY DEF monitor
<1>4. events' \in 0 .. MaxEvents
  BY <1>1, EventsType DEF TypeOK
<1>5. TypeOK'
  BY <1>2, <1>3, <1>4 DEF TypeOK
<1> QED BY <1>2, <1>5 DEF IdleInv, DueInv

\* Ages only grow, and what never happened does not age.
LEMMA Aged ==
    ASSUME NEW n \in Nat
    PROVE  /\ \A a \in Ages : /\ aged(a, n) \in Ages
                              /\ aged(a, n) = atMost(a + n, PenaltyResetAfter)
                              /\ a <= aged(a, n)
           /\ aged(Never, n) = Never
  BY Bounds DEF aged, Ages, Never, atMost

\* A suspend leaves a well-typed machine.
LEMMA SuspendedType ==
    ASSUME TypeOK, NEW auto \in BOOLEAN, UNCHANGED mach \/ suspended(auto)
    PROVE  mach' \in [st: {"running", "suspended"}, auto: BOOLEAN, age: Ages]
<1>1. 0 \in Ages
  BY Bounds DEF Ages
<1>2. mach \in [st: {"running", "suspended"}, auto: BOOLEAN, age: Ages]
  BY DEF TypeOK
<1> QED BY <1>1, <1>2 DEF suspended

\* The clock keeps the types.
LEMMA LaterTypes ==
    ASSUME TypeOK, NEW n \in Nat, later(n), events' \in 0 .. MaxEvents
    PROVE  TypeOK'
<1>1. mach' \in [st: {"running", "suspended"}, auto: BOOLEAN, age: Ages]
  BY Aged DEF TypeOK, later
<1>2. mon \in Monitors
  BY DEF TypeOK
<1>3. atMost(mon.since + n, 2 * Interval + 1) \in 0 .. 2 * Interval + 1
  BY <1>2, Bounds DEF Monitors, atMost
<1>4. aged(mon.suspendedAt, n) \in Ages \cup {Never}
  BY <1>2, Aged DEF Monitors
<1>5. mon' \in Monitors
  BY <1>2, <1>3, <1>4 DEF later, Monitors
<1> QED BY <1>1, <1>5 DEF TypeOK, later

\* Every outcome of an automatic suspend keeps the types; the failures stay
\* within their bound because a monitor that reached it fires no more.
LEMMA SuspendTypes ==
    ASSUME TypeOK, DueInv, autoSuspend PROVE TypeOK'
<1>1. mon \in Monitors /\ 0 \in 0 .. MaxIdle /\ 0 \in Ages
  BY Bounds DEF TypeOK, Ages
<1>2. Reset(mon) \in Monitors /\ Reset(mon).failures = mon.failures
  BY <1>1 DEF Reset, Monitors
<1>3. skipped \in Monitors /\ refused \in Monitors
  BY <1>1, <1>2 DEF skipped, refused, Monitors
<1>4. committed \in Monitors
  <2> DEFINE r == Reset(mon)
  <2>1. 0 \in 0 .. MaxFailures
    BY Bounds
  <2>2. committed = [r EXCEPT !.due = FALSE, !.failures = 0, !.suspendedAt = 0]
    BY DEF committed
  <2>3. r \in Monitors
    BY <1>2
  <2> HIDE DEF r
  <2> QED BY <1>1, <2>1, <2>2, <2>3 DEF Monitors
<1>5. failed \in Monitors
  <2> DEFINE r == Reset(mon)
  <2>1. r.failures + 1 \in 0 .. MaxFailures
    BY <1>1, <1>2, Bounds DEF autoSuspend, DueInv, Monitors
  <2>2. failed = [r EXCEPT !.due = FALSE, !.failures = r.failures + 1]
    BY DEF failed
  <2>3. r \in Monitors
    BY <1>2
  <2> HIDE DEF r
  <2> QED BY <2>1, <2>2, <2>3 DEF Monitors
<1>6. mon' \in Monitors
  BY <1>3, <1>4, <1>5 DEF autoSuspend
<1>7. mach' \in [st: {"running", "suspended"}, auto: BOOLEAN, age: Ages]
  BY SuspendedType DEF autoSuspend
<1>8. wake' \in {Never, wake} /\ events' \in 0 .. MaxEvents
  BY EventsType DEF autoSuspend, TypeOK
<1> QED BY <1>6, <1>7, <1>8 DEF autoSuspend, TypeOK

\* No outcome of an automatic suspend adds idle time.
LEMMA SuspendIdle ==
    ASSUME IdleInv, autoSuspend PROVE IdleInv'
<1>1. TypeOK' /\ calm' = calm
  BY SuspendTypes DEF IdleInv, autoSuspend
<1>2. mon'.due = FALSE /\ mon'.active = mon.active /\ mon'.idle \in {0, mon.idle}
  BY DEF autoSuspend, committed, skipped, refused, failed, Reset, IdleInv, TypeOK, Monitors
<1>3. calm.time \in Nat /\ calm.samples \in Nat /\ 2 * Interval * calm.samples \in Nat
  <2>1. calm.time \in Nat /\ calm.samples \in Nat
    BY Bounds DEF IdleInv, TypeOK
  <2> QED BY <2>1, Bounds
<1> QED BY <1>1, <1>2, <1>3 DEF IdleInv, IdleIsReal, DueInv

\* Nothing around the monitor adds idle time or fires a suspend.
LEMMA OtherSteps ==
    ASSUME IdleInv,
           \/ leaveMonitor \/ clockTicks \/ hostSleeps \/ triggered \/ wakes
           \/ manualSuspend \/ loadChanges \/ touch \/ setPeriod \/ sleeperRestarts
    PROVE  IdleInv'
<1>0. TypeOK /\ mon \in Monitors /\ 0 \in 0 .. MaxIdle
  BY Bounds DEF IdleInv, TypeOK
<1>1. ASSUME mon' = [mon EXCEPT !.active = FALSE], calm' = calm, ~mon.due,
             UNCHANGED <<load, touched, period>>, wake' \in {wake, Never},
             events' \in 0 .. MaxEvents, UNCHANGED mach \/ suspended(FALSE)
      PROVE  IdleInv'
  <2>1. mon' \in Monitors /\ ~mon'.due /\ ~mon'.active
    BY <1>0, <1>1 DEF Monitors
  <2>2. mach' \in [st: {"running", "suspended"}, auto: BOOLEAN, age: Ages]
    BY <1>0, <1>1, SuspendedType
  <2>3. TypeOK'
    BY <1>0, <1>1, <2>1, <2>2 DEF TypeOK
  <2> QED BY <2>1, <2>3 DEF IdleInv, IdleIsReal, DueInv
<1>2. CASE leaveMonitor
  BY <1>0, <1>1, <1>2 DEF leaveMonitor, TypeOK
<1>3. CASE manualSuspend
  <2>1. events' \in 0 .. MaxEvents
    BY <1>0, <1>3, EventsType DEF manualSuspend, TypeOK
  <2>2. CASE ~mon.due
    BY <1>1, <1>3, <2>1, <2>2 DEF manualSuspend
  <2>3. CASE mon.due
    <3>1. mon' = mon /\ wake' = Never /\ UNCHANGED <<load, touched, period, calm>>
      BY <1>3, <2>3 DEF manualSuspend
    <3>2. mach' \in [st: {"running", "suspended"}, auto: BOOLEAN, age: Ages]
      BY <1>0, <1>3, SuspendedType DEF manualSuspend
    <3>3. TypeOK'
      BY <1>0, <2>1, <3>1, <3>2 DEF TypeOK
    <3> QED BY <3>1, <3>3 DEF IdleInv, IdleIsReal, DueInv
  <2> QED BY <2>2, <2>3
<1>4. CASE clockTicks \/ hostSleeps
  <2>1. PICK n \in Nat : later(n) /\ events' \in 0 .. MaxEvents
    <3>1. PenaltyResetAfter + 2 * Interval \in Nat
      BY Bounds
    <3>2. events' \in 0 .. MaxEvents
      BY <1>0, <1>4, EventsType DEF clockTicks, hostSleeps, TypeOK
    <3> QED BY <1>4, <3>1, <3>2 DEF clockTicks, hostSleeps
  <2>2. TypeOK'
    BY <1>0, <2>1, LaterTypes
  <2>3. /\ mon'.active = mon.active /\ mon'.idle = mon.idle /\ mon'.due = mon.due
        /\ mon'.penalty = mon.penalty /\ mon'.failures = mon.failures /\ calm' = calm
    BY <1>0, <2>1 DEF later, Monitors
  <2> QED BY <2>2, <2>3 DEF IdleInv, IdleIsReal, DueInv
<1>5. CASE triggered \/ wakes \/ loadChanges \/ touch \/ setPeriod
  <2>1. mon' = mon /\ calm' = calm /\ events' \in 0 .. MaxEvents
    BY <1>0, <1>5, EventsType
    DEF triggered, wakes, loadChanges, touch, setPeriod, TypeOK
  <2>2. wake' \in Ages \cup {Never}
    BY <1>0, <1>5, Bounds
    DEF triggered, wakes, loadChanges, touch, setPeriod, TypeOK, Monitors, Ages
  <2>3. /\ mach' \in [st: {"running", "suspended"}, auto: BOOLEAN, age: Ages]
        /\ touched' \in BOOLEAN
    BY <1>0, <1>5 DEF triggered, wakes, loadChanges, touch, setPeriod, TypeOK
  <2>4. load' \subseteq Signals
    BY <1>0, <1>5
    DEF triggered, wakes, loadChanges, touch, setPeriod, TypeOK, SymDiff
  <2>5. period' \in {0, After}
    BY <1>0, <1>5, Bounds
    DEF triggered, wakes, loadChanges, touch, setPeriod, TypeOK
  <2>6. TypeOK'
    BY <1>0, <2>1, <2>2, <2>3, <2>4, <2>5 DEF TypeOK
  <2> QED BY <2>1, <2>6 DEF IdleInv, IdleIsReal, DueInv
<1>6. CASE sleeperRestarts
  <2>1. events' \in 0 .. MaxEvents
    BY <1>0, <1>6, EventsType DEF sleeperRestarts, TypeOK
  <2>2. TypeOK'
    BY <1>0, <1>6, <2>1, NewMonitorType DEF sleeperRestarts, TypeOK, noCalm
  <2>3. ~mon'.active /\ ~mon'.due
    BY <1>6 DEF sleeperRestarts, newMonitor
  <2> QED BY <2>2, <2>3 DEF IdleInv, IdleIsReal, DueInv
<1> QED BY <1>2, <1>3, <1>4, <1>5, <1>6

\* A sleeper starts with no idle time.
LEMMA InitIdle == Init => IdleInv
<1> SUFFICES ASSUME Init PROVE IdleInv
    OBVIOUS
<1>1. 0 \in Ages /\ 0 \in 0 .. MaxIdle /\ 0 \in 0 .. MaxEvents
  BY Bounds DEF Ages
<1>2. mach \in [st: {"running", "suspended"}, auto: BOOLEAN, age: Ages]
  BY <1>1 DEF Init
<1>3. TypeOK
  BY <1>1, <1>2, NewMonitorType DEF Init, TypeOK, noCalm
<1> QED BY <1>3 DEF Init, newMonitor, IdleInv, IdleIsReal, DueInv

\* The types, the idle time and the fired suspend, together: the failures are
\* bounded only because a fired suspend had some left, and a fired suspend has
\* its idle time only because idle time is never invented.
THEOREM IdleInvariant == Spec => []IdleInv
<1>1. IdleInv /\ [Next]_vars => IdleInv'
  <2> SUFFICES ASSUME IdleInv, [Next]_vars PROVE IdleInv'
      OBVIOUS
  <2>1. CASE monitor
    BY <2>1, MonitorStep DEF IdleInv
  <2>2. CASE autoSuspend
    BY <2>2, SuspendIdle
  <2>3. CASE UNCHANGED vars
    BY <2>3 DEF vars, IdleInv, TypeOK, IdleIsReal, DueInv
  <2> QED BY <2>1, <2>2, <2>3, OtherSteps DEF Next
<1> QED BY <1>1, InitIdle, PTL DEF Spec

\* The flap guard moves the way the last automatic suspend tells it to.
LEMMA EnteredPenalty ==
    ASSUME TypeOK, ShownInv
    PROVE  /\ entered(mon).penalty > mon.penalty
                => mach.auto /\ (wake < FlapWindow \/ mach.age < FlapWindow)
           /\ entered(mon).penalty < mon.penalty
                => mach.auto /\ mach.age >= PenaltyResetAfter
<1>1. mon.penalty \in 1 .. MaxPenalty /\ mon.suspendedAt \in Ages \cup {Never}
  BY DEF TypeOK, Monitors
<1>2. mach.age \in Ages /\ wake \in Ages \cup {Never}
  BY DEF TypeOK
<1>3. CASE mon.active \/ mon.suspendedAt = Never
  <2>1. entered(mon).penalty = mon.penalty
    BY <1>3, Entered DEF entered
  <2> QED BY <2>1, <1>1
<1>4. CASE ~mon.active /\ mon.suspendedAt # Never
  <2>1. mach.auto /\ mon.suspendedAt = mach.age /\ (wake # Never => wake <= mach.age)
    BY <1>4 DEF ShownInv
  <2>2. entered(mon).penalty = CASE wokenAfter < FlapWindow -> atMost(2 * mon.penalty, MaxPenalty)
                                 [] wokenAfter >= PenaltyResetAfter -> 1
                                 [] OTHER -> mon.penalty
    BY <1>4, Entered
  <2>3. wokenAfter \in Ages /\ wokenAfter <= mach.age /\ wokenAfter \in {wake, mach.age}
    BY <1>2, <2>1, Bounds DEF wokenAfter, Ages
  <2>4. CASE wokenAfter < FlapWindow
    <3>1. ~(wokenAfter >= PenaltyResetAfter)
      BY <2>3, <2>4, Bounds DEF Ages
    <3>2. entered(mon).penalty = atMost(2 * mon.penalty, MaxPenalty)
      BY <2>2, <2>4, <3>1
    <3>3. entered(mon).penalty >= mon.penalty /\ entered(mon).penalty \in Nat
      BY <3>2, <1>1, Bounds DEF atMost
    <3> QED BY <3>3, <2>1, <2>3, <2>4, <1>1
  <2>5. CASE wokenAfter >= PenaltyResetAfter
    <3>1. ~(wokenAfter < FlapWindow)
      BY <2>3, <2>5, Bounds DEF Ages
    <3>2. entered(mon).penalty = 1
      BY <2>2, <2>5, <3>1
    <3>3. mach.age >= PenaltyResetAfter
      BY <2>3, <2>5, <1>2, Bounds DEF Ages
    <3> QED BY <3>2, <3>3, <2>1, <1>1
  <2>6. CASE ~(wokenAfter < FlapWindow) /\ ~(wokenAfter >= PenaltyResetAfter)
    <3>1. entered(mon).penalty = mon.penalty
      BY <2>2, <2>6
    <3> QED BY <3>1, <1>1
  <2> QED BY <2>4, <2>5, <2>6
<1> QED BY <1>3, <1>4

\* Without stalls no other suspend comes between the look and the firing.
LEMMA DueRunsStep ==
    ASSUME TypeOK, DueRuns, ~Stalls, [Next]_vars PROVE DueRuns'
<1>0. mon \in Monitors /\ mach \in [st: {"running", "suspended"}, auto: BOOLEAN, age: Ages]
  BY DEF TypeOK
<1>1. CASE monitor
  BY <1>1 DEF monitor, DueRuns
<1>2. CASE autoSuspend
  BY <1>0, <1>2 DEF autoSuspend, committed, skipped, refused, failed, Reset, Monitors, DueRuns
<1>3. CASE leaveMonitor \/ manualSuspend
  BY <1>0, <1>3 DEF leaveMonitor, manualSuspend, Monitors, DueRuns
<1>4. CASE clockTicks \/ hostSleeps
  BY <1>0, <1>4 DEF clockTicks, hostSleeps, later, Monitors, DueRuns
<1>5. CASE wakes
  BY <1>0, <1>5 DEF wakes, DueRuns
<1>6. CASE triggered \/ loadChanges \/ touch \/ setPeriod \/ UNCHANGED vars
  BY <1>6 DEF triggered, loadChanges, touch, setPeriod, vars, DueRuns
<1>7. CASE sleeperRestarts
  BY <1>7 DEF sleeperRestarts, newMonitor, DueRuns
<1> QED BY <1>1, <1>2, <1>3, <1>4, <1>5, <1>6, <1>7 DEF Next

\* No step hands the flap guard a suspend that is not the last one.
LEMMA ShownStep ==
    ASSUME TypeOK, ShownInv, DueRuns, ~Stalls, [Next]_vars PROVE ShownInv'
<1>0. /\ mon \in Monitors /\ mach \in [st: {"running", "suspended"}, auto: BOOLEAN, age: Ages]
      /\ wake \in Ages \cup {Never}
  BY DEF TypeOK
<1>1. CASE monitor
  <2>1. mon'.suspendedAt = entered(mon).suspendedAt
    BY <1>1, MonitorStep
  <2>2. mon'.suspendedAt = Never
    <3>1. CASE mon.active
      BY <3>1, <2>1, <1>1 DEF entered, monitor, ShownInv
    <3>2. CASE ~mon.active
      BY <3>2, <2>1, Entered
    <3> QED BY <3>1, <3>2
  <2> QED BY <2>2 DEF ShownInv
<1>2. CASE leaveMonitor
  BY <1>0, <1>2 DEF leaveMonitor, ShownInv, Monitors
<1>3. CASE autoSuspend
  <2>1. CASE mon' = committed /\ suspended(TRUE) /\ wake' = Never
    BY <1>0, <2>1 DEF committed, Reset, suspended, ShownInv, Monitors
  <2>2. CASE mon' \in {skipped, refused, failed} /\ UNCHANGED mach /\ wake' \in {wake, Never}
    <3>1. mon'.active = mon.active /\ mon'.suspendedAt = mon.suspendedAt
      BY <1>0, <2>2 DEF skipped, refused, failed, Reset, Monitors
    <3> QED BY <3>1, <2>2 DEF ShownInv
  <2> QED BY <1>3, <2>1, <2>2 DEF autoSuspend, DueRuns
<1>4. CASE clockTicks \/ hostSleeps
  <2>1. PICK n \in Nat : later(n)
    <3>1. PenaltyResetAfter + 2 * Interval \in Nat
      BY Bounds
    <3> QED BY <1>4, <3>1 DEF clockTicks, hostSleeps
  <2>2. /\ mon'.active = mon.active /\ mon'.suspendedAt = aged(mon.suspendedAt, n)
        /\ mach'.st = mach.st /\ mach'.auto = mach.auto /\ mach'.age = aged(mach.age, n)
        /\ wake' = wake
    BY <1>0, <2>1 DEF later, Monitors
  <2>3. /\ aged(mach.age, n) \in Ages /\ mach.age <= aged(mach.age, n)
        /\ mon.suspendedAt = Never => aged(mon.suspendedAt, n) = Never
    BY <1>0, Aged
  <2>4. aged(mon.suspendedAt, n) # Never => mon.suspendedAt # Never
    BY <2>3
  <2>5. wake # Never /\ wake <= mach.age => wake <= aged(mach.age, n)
    BY <1>0, <2>3, Bounds DEF Ages
  <2> QED BY <2>2, <2>3, <2>4, <2>5 DEF ShownInv
<1>5. CASE triggered
  <2>1. UNCHANGED <<mach, mon>> /\ (mon.suspendedAt # Never => wake' = mon.suspendedAt)
    BY <1>5 DEF triggered
  <2>2. mach.age <= mach.age
    BY <1>0, Bounds DEF Ages
  <2> QED BY <2>1, <2>2 DEF ShownInv
<1>6. CASE wakes
  <2>1. ~mon.active /\ UNCHANGED <<mon, wake>>
    BY <1>6 DEF wakes
  <2>2. mach'.auto = mach.auto /\ mach'.age = mach.age
    BY <1>0, <1>6 DEF wakes
  <2> QED BY <2>1, <2>2 DEF ShownInv
<1>7. CASE manualSuspend
  <2>1. mon'.suspendedAt = mon.suspendedAt
    BY <1>0, <1>7 DEF manualSuspend, Monitors
  <2>2. mon.suspendedAt = Never
    BY <1>7 DEF manualSuspend, ShownInv
  <2> QED BY <2>1, <2>2 DEF ShownInv
<1>8. CASE loadChanges \/ touch \/ setPeriod \/ UNCHANGED vars
  <2>1. UNCHANGED <<mach, mon, wake>>
    BY <1>8 DEF loadChanges, touch, setPeriod, vars
  <2> QED BY <2>1 DEF ShownInv
<1>9. CASE sleeperRestarts
  BY <1>9 DEF sleeperRestarts, newMonitor, ShownInv
<1> QED BY <1>1, <1>2, <1>3, <1>4, <1>5, <1>6, <1>7, <1>8, <1>9 DEF Next

\* The suspend waiting for the flap guard is the last one of the machine and
\* was automatic, when the mode loop looks between a wake and the next suspend.
THEOREM ShownInvariant == ASSUME ~Stalls PROVE Spec => []ShownInv
<1>1. Init => ShownInv /\ DueRuns
  BY DEF Init, newMonitor, ShownInv, DueRuns
<1>2. TypeOK /\ ShownInv /\ DueRuns /\ [Next]_vars => (ShownInv /\ DueRuns)'
  BY ShownStep, DueRunsStep
<1>3. IdleInv => TypeOK
  BY DEF IdleInv
<1> QED BY <1>1, <1>2, <1>3, IdleInvariant, PTL DEF Spec

\* Only enterMonitor and a restart of the sleeper change the penalty.
LEMMA PenaltyStep ==
    ASSUME IdleInv, [Next]_vars
    PROVE  \/ mon'.penalty = mon.penalty
           \/ mon' = newMonitor
           \/ monitor /\ mon'.penalty = entered(mon).penalty
<1>0. TypeOK /\ mon \in Monitors
  BY DEF IdleInv, TypeOK
<1>1. CASE monitor
  BY <1>0, <1>1, MonitorStep
<1>2. CASE autoSuspend
  BY <1>0, <1>2 DEF autoSuspend, committed, skipped, refused, failed, Reset, Monitors
<1>3. CASE leaveMonitor \/ manualSuspend
  BY <1>0, <1>3 DEF leaveMonitor, manualSuspend, Monitors
<1>4. CASE clockTicks \/ hostSleeps
  BY <1>0, <1>4 DEF clockTicks, hostSleeps, later, Monitors
<1>5. CASE triggered \/ wakes \/ loadChanges \/ touch \/ setPeriod \/ UNCHANGED vars
  BY <1>5 DEF triggered, wakes, loadChanges, touch, setPeriod, vars
<1>6. CASE sleeperRestarts
  BY <1>6 DEF sleeperRestarts
<1> QED BY <1>1, <1>2, <1>3, <1>4, <1>5, <1>6 DEF Next

\* The flap guard follows the wakes of automatic suspends and nothing else
\* (enterMonitor, Woke), when the mode loop looks between a wake and the next
\* suspend.
THEOREM FlapGuard == ASSUME ~Stalls PROVE Spec => PenaltyFollowsFlaps
<1> DEFINE A == /\ mon'.penalty > mon.penalty =>
                     mach.auto /\ (wake < FlapWindow \/ mach.age < FlapWindow)
                /\ mon'.penalty < mon.penalty =>
                     mon' = newMonitor \/ (mach.auto /\ mach.age >= PenaltyResetAfter)
<1>1. IdleInv /\ ShownInv /\ [Next]_vars => A
  <2> SUFFICES ASSUME IdleInv, ShownInv, [Next]_vars PROVE A
      OBVIOUS
  <2>1. mon.penalty \in Nat /\ mon.penalty >= 1
    BY Bounds DEF IdleInv, TypeOK, Monitors
  <2>2. CASE mon'.penalty = mon.penalty
    BY <2>1, <2>2
  <2>3. CASE mon' = newMonitor
    BY <2>1, <2>3 DEF newMonitor
  <2>4. CASE mon'.penalty = entered(mon).penalty
    BY <2>4, EnteredPenalty DEF IdleInv
  <2> QED BY <2>2, <2>3, <2>4, PenaltyStep
<1>2. IdleInv /\ ShownInv /\ [Next]_vars => [A]_vars
  BY <1>1
<1> HIDE DEF A
<1>3. Spec => [][A]_vars
  BY <1>2, IdleInvariant, ShownInvariant, PTL DEF Spec
<1> QED BY <1>3 DEF A, PenaltyFollowsFlaps

\* An automatic suspend comes only after the guest was seen quiet for the
\* setting times the penalty (Threshold, Due, autoSuspend), however often the
\* host slept or the mode loop stalled.
THEOREM SuspendsAfterQuiet == Spec => FlapsSlowDown
<1> DEFINE A == mach.st = "running" /\ mach'.st = "suspended" /\ mach'.auto
                  => calm.time >= After * mon.penalty
<1>1. IdleInv /\ [Next]_vars => [A]_vars
  <2> SUFFICES ASSUME IdleInv, [Next]_vars, mach.st = "running",
                      mach'.st = "suspended", mach'.auto
               PROVE  calm.time >= After * mon.penalty
      OBVIOUS
  <2>1. mon.due
    <3>1. mach' # mach
      OBVIOUS
    <3>2. ~ (monitor \/ leaveMonitor \/ triggered \/ loadChanges \/ touch \/ setPeriod
             \/ sleeperRestarts \/ UNCHANGED vars)
      BY <3>1 DEF monitor, leaveMonitor, triggered, loadChanges, touch, setPeriod,
                  sleeperRestarts, vars
    <3>3. ~ (clockTicks \/ hostSleeps \/ wakes)
      BY DEF clockTicks, hostSleeps, later, wakes, IdleInv, TypeOK
    <3>4. ~ manualSuspend
      BY DEF manualSuspend, suspended
    <3> QED BY <3>2, <3>3, <3>4 DEF Next, autoSuspend
  <2>2. mon.active /\ mon.idle >= After * mon.penalty /\ mon.idle <= calm.time
    BY <2>1 DEF IdleInv, DueInv, IdleIsReal
  <2>3. mon.idle \in Nat /\ calm.time \in Nat /\ mon.penalty \in Nat
    BY Bounds DEF IdleInv, TypeOK, Monitors
  <2>4. After * mon.penalty \in Nat
    BY <2>3, Bounds
  <2> QED BY <2>2, <2>3, <2>4
<1> HIDE DEF A
<1>2. Spec => [][A]_vars
  BY <1>1, IdleInvariant, PTL DEF Spec
<1> QED BY <1>2 DEF A, FlapsSlowDown

\* Idle time is never more than the quiet that was really seen, for every
\* interval, period and number of events (Tracker.Observe).
THEOREM IdleTimeIsReal == Spec => []IdleIsReal
<1>1. IdleInv => IdleIsReal
  BY DEF IdleInv
<1> QED BY <1>1, IdleInvariant, PTL

\* The type invariant of the monitor.
THEOREM TypeCorrect == Spec => []TypeOK
<1>1. IdleInv => TypeOK
  BY DEF IdleInv
<1> QED BY <1>1, IdleInvariant, PTL
=============================================================================
