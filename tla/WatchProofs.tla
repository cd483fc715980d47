---------------------------- MODULE WatchProofs ----------------------------
(***************************************************************************)
(* The watch loop for every interval, cap, schedule and budget: how long   *)
(* it sleeps, how often a schedule runs, and when the inbox is settled.    *)
(***************************************************************************)
EXTENDS Watch, TLAPS, FiniteSetTheorems

USE CadenceAssumption DEF config, loop, bounds, history, Never

(* The backoff.                                                            *)
LEMMA BackoffRange ==
    ASSUME TypeOK, NEW n \in Nat
    PROVE  /\ Backoff(n) \in Nat
           /\ interval <= Backoff(n)
           /\ Backoff(n) <= Longest
  <1> DEFINE k == Least(n, MaxShift)
  <1>1. interval \in Nat \ {0} /\ Cap \in Nat \ {0} /\ MaxShift \in Nat
    BY DEF TypeOK
  <1>2. k \in 0 .. MaxShift
    BY <1>1 DEF Least
  <1>3. 2^k \in Nat \ {0}
    BY <1>2, PowersAssumption
  <1> DEFINE x == 2^k
  <1> HIDE DEF x
  <1>4. x \in Nat \ {0}
    BY <1>3 DEF x
  <1>5. interval * x \in Nat /\ interval <= interval * x
    BY <1>1, <1>4
  <1>6. Backoff(n) = Least(interval * x, Greatest(interval, Cap))
    BY DEF Backoff, x
  <1> QED
    BY <1>1, <1>5, <1>6 DEF Least, Greatest, Longest

LEMMA BackoffClean == TypeOK => Backoff(0) = interval
  <1>1. ASSUME TypeOK PROVE Backoff(0) = interval
    <2>1. interval \in Nat \ {0} /\ Cap \in Nat \ {0} /\ MaxShift \in Nat
      BY <1>1 DEF TypeOK
    <2>2. Least(0, MaxShift) = 0
      BY <2>1 DEF Least
    <2>3. 2^0 = 1
      BY <2>1, PowersAssumption
    <2>4. Backoff(0) = Least(interval * 1, Greatest(interval, Cap))
      BY <2>2, <2>3 DEF Backoff
    <2> QED
      BY <2>1, <2>4 DEF Least, Greatest
  <1> QED
    BY <1>1
-----------------------------------------------------------------------------
(* Types.                                                                  *)
\* Nothing is pending in the empty inbox.
LEMMA NonePending == Pending(<<>>) = {}
  BY DEF Pending

LEMMA TypeInit == Init => TypeOK
  <1> SUFFICES ASSUME Init PROVE TypeOK
    OBVIOUS
  <1>1. Pending(inbox) = {}
    BY NonePending DEF Init
  <1> QED
    BY <1>1 DEF Init, TypeOK, Never

\* The numbers of the loop.
LEMMA Numbers ==
    ASSUME TypeOK
    PROVE  /\ interval \in Nat \ {0} /\ now \in Nat /\ now \in 1 .. Horizon
           /\ wake \in Nat /\ slept \in Nat /\ slept <= now /\ lastRun \in 0 .. now
           /\ failures \in Nat /\ writes \in Nat /\ faults \in Nat
  BY DEF TypeOK

LEMMA DueType ==
    ASSUME TypeOK, DueSince, now' \in 1 .. Horizon
    PROVE  due' \in 1 .. Never
  BY DEF TypeOK, DueSince, Never, Least

\* After a run that failed, the events with a budget left.
LEMMA FailedRun ==
    ASSUME TypeOK, TickFails
    PROVE  /\ Pending(inbox') = {p \in Pending(inbox) : inbox[p].tries + 1 < MaxAttempts}
           /\ \A e \in Pending(inbox') :
                /\ inbox'[e].at = inbox[e].at /\ inbox'[e].tries = inbox[e].tries + 1
                /\ inbox'[e].at \in 1 .. now /\ inbox'[e].tries \in 0 .. MaxAttempts - 1
  <1> DEFINE left == {p \in Pending(inbox) : inbox[p].tries + 1 < MaxAttempts}
  <1>1. inbox' = [e \in left |-> [at |-> inbox[e].at, tries |-> inbox[e].tries + 1]]
    BY DEF TickFails
  <1> HIDE DEF left
  <1>2. Pending(inbox') = left
    BY <1>1 DEF Pending
  <1>3. \A e \in left : inbox'[e].at = inbox[e].at /\ inbox'[e].tries = inbox[e].tries + 1
    BY <1>1
  <1>4. \A e \in left :
          inbox[e].at \in 1 .. now /\ inbox[e].tries + 1 \in 0 .. MaxAttempts - 1
    BY DEF left, TypeOK
  <1> QED
    BY <1>2, <1>3, <1>4 DEF left

LEMMA TypeStep == TypeOK /\ [Next]_vars => TypeOK'
  <1> SUFFICES ASSUME TypeOK, [Next]_vars PROVE TypeOK'
    OBVIOUS
  <1>1. CASE Advance
    <2>1. now' \in 1 .. Horizon
      BY <1>1 DEF Advance, TypeOK
    <2> QED
      BY <1>1, <2>1, DueType DEF Advance, TypeOK, Never
  <1>2. CASE Capture
    <2>1. writes' \in 0 .. MaxWrites /\ writes' = writes + 1 /\ writes \in Nat
      BY <1>2 DEF Capture, TypeOK
    <2>2. Pending(inbox') = Pending(inbox) \cup {writes + 1}
      BY <1>2 DEF Capture, Pending
    <2>3. \A e \in Pending(inbox') :
            inbox'[e] = IF e = writes + 1 THEN [at |-> now, tries |-> 0] ELSE inbox[e]
      BY <1>2, <2>2 DEF Capture
    <2>4. \A e \in Pending(inbox') :
            inbox'[e].at \in 1 .. now /\ inbox'[e].tries \in 0 .. MaxAttempts - 1
      BY <2>2, <2>3 DEF TypeOK
    <2>5. now' \in 1 .. Horizon /\ now' = now
      BY <1>2 DEF Capture, TypeOK
    <2>6. due' \in 1 .. Never
      BY <1>2, <2>5, DueType DEF Capture
    <2>7. Pending(inbox') \subseteq 1 .. writes'
      BY <2>1, <2>2 DEF TypeOK
    <2>8. UNCHANGED <<config, lastRun, loop, health, faults, cronRuns>>
      BY <1>2 DEF Capture
    <2> QED
      BY <2>1, <2>4, <2>5, <2>6, <2>7, <2>8 DEF TypeOK, Pending
  <1>3. CASE HealthChanges
    BY <1>3, DueType DEF HealthChanges, TypeOK, Never
  <1>4. CASE TickRaises
    BY <1>4, BackoffRange DEF TickRaises, Sleep, Awake, TypeOK, Never
  <1>5. CASE TickIdle
    BY <1>5, BackoffRange DEF TickIdle, Sleep, Awake, TypeOK, Never
  <1>6. CASE TickNoBackend
    BY <1>6, BackoffRange DEF TickNoBackend, Sleep, Awake, TypeOK, Never
  <1>7. CASE TickPublishes
    <2>1. Pending(inbox') = {}
      BY <1>7, NonePending DEF TickPublishes
    <2>2. wake' \in Nat
      <3>1. wake' = now + Backoff(0)
        BY <1>7 DEF TickPublishes, Sleep
      <3> QED
        BY <3>1, Numbers, BackoffRange
    <2>3. /\ lastRun' = now /\ due' = Never /\ failures' = 0 /\ slept' = now
          /\ cronRuns' \in Nat
      BY <1>7 DEF TickPublishes, Sleep, TypeOK
    <2>4. UNCHANGED <<config, now, health, bounds>>
      BY <1>7 DEF TickPublishes
    <2> QED
      BY <2>1, <2>2, <2>3, <2>4 DEF TypeOK, Never, Pending
  <1>8. CASE TickFails
    <2>1. /\ Pending(inbox') \subseteq 1 .. writes
          /\ \A e \in Pending(inbox') :
               inbox'[e].at \in 1 .. now /\ inbox'[e].tries \in 0 .. MaxAttempts - 1
      BY <1>8, FailedRun DEF TypeOK
    <2> QED
      BY <1>8, <2>1, BackoffRange DEF TickFails, Sleep, Awake, TypeOK, Never, Pending
  <1>11. CASE TickConflicts
    BY <1>11, BackoffRange DEF TickConflicts, Sleep, Awake, TypeOK, Never
  <1>9. CASE Restart
    BY <1>9 DEF Restart, TypeOK, Never
  <1>10. CASE UNCHANGED vars
    BY <1>10 DEF vars, TypeOK, Never
  <1> QED
    BY <1>1, <1>2, <1>3, <1>4, <1>5, <1>6, <1>7, <1>8, <1>9, <1>10, <1>11
    DEF Next, Tick

\* The variables of the loop have their types.
THEOREM TypeCorrect == Spec => []TypeOK
  BY TypeInit, TypeStep, PTL DEF Spec
-----------------------------------------------------------------------------
(* How long the loop sleeps.                                               *)
\* A run that has been due since a time finds the loop asleep until at most the
\* longest sleep after it; only while nothing prevents the run is it due.
Nap ==
  /\ now <= wake /\ wake <= slept + Longest
  /\ failures > 0 => slept + interval <= wake
  /\ due # Never =>
       /\ health = "ok" /\ Decision # "none"
       /\ wake <= due + Longest

LEMMA NapInit == Init => Nap
  BY DEF Init, Nap, Longest, Greatest

\* What DueSince leaves behind, when the sleep has not changed.
LEMMA NapDue ==
    ASSUME TypeOK, TypeOK', Nap, DueSince, UNCHANGED loop, UNCHANGED config,
           now' >= now, now' <= wake
    PROVE  Nap'
  <1>1. Longest' = Longest /\ Longest \in Nat /\ interval \in Nat
    BY DEF Longest, Greatest, TypeOK
  <1>2. due' # Never => health' = "ok" /\ Decision' # "none"
    BY DEF DueSince, Decision, Evaluate, IsCronDue, CronMatches
  <1>3. CASE due' # Never
    <2>1. due' = Least(due, now')
      BY <1>3 DEF DueSince
    <2>2. due \in 1 .. Never /\ now' \in 1 .. Horizon /\ wake \in Nat /\ slept <= now
          /\ slept \in Nat /\ now \in Nat
      BY DEF TypeOK
    <2>3. due' = now' \/ (due # Never /\ due' = due)
      BY <2>1, <2>2, <1>3 DEF Least, Never
    <2>4. wake <= due' + Longest
      BY <1>1, <2>2, <2>3 DEF Nap
    <2> QED
      BY <1>1, <1>2, <2>4 DEF Nap
  <1>4. CASE due' = Never
    BY <1>1, <1>4 DEF Nap, Never
  <1> QED
    BY <1>3, <1>4

LEMMA NapStep == TypeOK /\ TypeOK' /\ Nap /\ [Next]_vars => Nap'
  <1> SUFFICES ASSUME TypeOK, TypeOK', Nap, [Next]_vars PROVE Nap'
    OBVIOUS
  <1>1. CASE Advance
    BY <1>1, NapDue DEF Advance, TypeOK
  <1>2. CASE Capture
    BY <1>2, Numbers, NapDue DEF Capture, Nap
  <1>3. CASE HealthChanges
    BY <1>3, NapDue DEF HealthChanges, TypeOK, Nap
  <1>4. ASSUME NEW n \in Nat, Sleep(n), UNCHANGED config, UNCHANGED now, due' = Never
        PROVE  Nap'
    <2>1. Backoff(n) \in Nat /\ interval <= Backoff(n) /\ Backoff(n) <= Longest
      BY BackoffRange
    <2>2. Longest' = Longest /\ now \in Nat /\ Longest \in Nat /\ interval \in Nat
      BY <1>4 DEF Longest, Greatest, TypeOK
    <2> QED
      BY <1>4, <2>1, <2>2 DEF Sleep, Nap, Never
  <1>5. CASE TickRaises
    <2>1. failures + 1 \in Nat /\ due' = Never
      BY <1>5 DEF TickRaises, TypeOK, Nap
    <2> QED
      BY <1>4, <1>5, <2>1 DEF TickRaises
  <1>6. CASE TickIdle
    BY <1>4, <1>6 DEF TickIdle, Nap
  <1>7. CASE TickNoBackend
    <2>1. failures + 1 \in Nat /\ due' = Never
      BY <1>7 DEF TickNoBackend, TypeOK, Nap
    <2> QED
      BY <1>4, <1>7, <2>1 DEF TickNoBackend
  <1>8. CASE TickPublishes
    BY <1>4, <1>8 DEF TickPublishes
  <1>9. CASE TickFails
    BY <1>4, <1>9 DEF TickFails
  <1>12. CASE TickConflicts
    BY <1>4, <1>12 DEF TickConflicts
  <1>10. CASE Restart
    <2>1. Longest' = Longest /\ Longest \in Nat /\ Decision' = Decision
      BY <1>10
      DEF Restart, Longest, Greatest, TypeOK, Decision, Evaluate, IsCronDue,
          CronMatches
    <2> QED
      BY <1>10, <2>1 DEF Restart, Nap, TypeOK, Never
  <1>11. CASE UNCHANGED vars
    BY <1>11
    DEF vars, Nap, Longest, Greatest, Decision, Evaluate, IsCronDue, CronMatches, Never
  <1> QED
    BY <1>1, <1>2, <1>3, <1>5, <1>6, <1>7, <1>8, <1>9, <1>10, <1>11, <1>12
    DEF Next, Tick

\* The loop neither hammers what fails nor oversleeps what is due.
THEOREM SleepBounded == Spec => []SleepIsBounded
  <1>1. TypeOK /\ Nap => SleepIsBounded
    BY DEF TypeOK, Nap, SleepIsBounded, BackoffSlows, DueIsAttempted,
                             Longest, Greatest, Never
  <1> QED
    BY TypeInit, TypeStep, NapInit, NapStep, <1>1, PTL DEF Spec
-----------------------------------------------------------------------------
(* How often a schedule runs.                                              *)
Fires(t) == {f \in 1 .. t : CronMatches(f)}

LEMMA FiresFinite == \A t \in Nat : IsFiniteSet(Fires(t)) /\ Cardinality(Fires(t)) \in Nat
  <1> TAKE t \in Nat
  <1>1. IsFiniteSet(1 .. t)
    BY FS_Interval
  <1>2. Fires(t) \subseteq 1 .. t
    BY DEF Fires
  <1> QED
    BY <1>1, <1>2, FS_Subset, FS_CardinalityType

LEMMA FiresGrow ==
    ASSUME NEW s \in Nat, NEW t \in Nat, s <= t
    PROVE  Cardinality(Fires(s)) <= Cardinality(Fires(t))
  <1>1. Fires(s) \subseteq Fires(t)
    BY DEF Fires
  <1> QED
    BY <1>1, FiresFinite, FS_Subset

\* A fire after s is one more than there are up to s.
LEMMA FireAfter ==
    ASSUME NEW s \in Nat, NEW t \in Nat, s <= t, NEW f \in 1 .. t, CronMatches(f), f > s
    PROVE  Cardinality(Fires(s)) + 1 <= Cardinality(Fires(t))
  <1>1. f \notin Fires(s) /\ Fires(s) \cup {f} \subseteq Fires(t)
    BY DEF Fires
  <1>2. Cardinality(Fires(s) \cup {f}) = Cardinality(Fires(s)) + 1
    BY <1>1, FiresFinite, FS_AddElement
  <1>3. Cardinality(Fires(s) \cup {f}) <= Cardinality(Fires(t))
    BY <1>1, FiresFinite, FS_Subset
  <1> QED
    BY <1>2, <1>3

\* The runs of the schedule are counted against the fires up to the last run.
Counted == cronRuns <= Cardinality(Fires(lastRun))

LEMMA CountedInit == Init => Counted
  <1> SUFFICES ASSUME Init PROVE Counted
    OBVIOUS
  <1>1. cronRuns = 0 /\ lastRun = 0
    BY DEF Init
  <1> QED
    BY <1>1, FiresFinite DEF Counted

LEMMA FiresKept == ASSUME schedule' = schedule, NEW t PROVE Fires(t)' = Fires(t')
  BY DEF Fires, CronMatches, Minute, DayOfMonth, DayOfWeek

LEMMA CountedStep == TypeOK /\ Counted /\ [Next]_vars => Counted'
  <1> SUFFICES ASSUME TypeOK, Counted, [Next]_vars PROVE Counted'
    OBVIOUS
  <1>0. schedule' = schedule
    BY DEF Next, vars, Advance, Capture, HealthChanges, Tick, TickRaises, TickIdle,
           TickNoBackend, TickPublishes, TickFails, TickConflicts, Restart
  <1>1. CASE TickPublishes
    <2>1. lastRun \in Nat /\ now \in Nat /\ lastRun <= now /\ cronRuns \in Nat
      BY DEF TypeOK
    <2>2. lastRun' = now
      BY <1>1 DEF TickPublishes
    <2>3. Counted' <=> cronRuns' <= Cardinality(Fires(now))
      BY <1>0, <2>2 DEF Counted, Fires, CronMatches, Minute, DayOfMonth, DayOfWeek
    <2>4. CASE Decision = "cron"
      <3>1. PICK f \in 1 .. now : CronMatches(f) /\ f > lastRun
        BY <2>4 DEF Decision, Evaluate, IsCronDue
      <3>2. Cardinality(Fires(lastRun)) + 1 <= Cardinality(Fires(now))
        BY <2>1, <3>1, FireAfter
      <3>3. cronRuns' = cronRuns + 1
        BY <1>1, <2>4 DEF TickPublishes
      <3> QED
        BY <2>1, <2>3, <3>2, <3>3, FiresFinite DEF Counted
    <2>5. CASE Decision # "cron"
      <3>1. cronRuns' = cronRuns
        BY <1>1, <2>1, <2>5 DEF TickPublishes
      <3>2. Cardinality(Fires(lastRun)) <= Cardinality(Fires(now))
        BY <2>1, FiresGrow
      <3> QED
        BY <2>1, <2>3, <3>1, <3>2, FiresFinite DEF Counted
    <2> QED
      BY <2>4, <2>5
  <1>2. CASE ~TickPublishes
    <2>1. lastRun' = lastRun /\ cronRuns' = cronRuns
      BY <1>2 DEF Next, vars, Advance, Capture, HealthChanges, Tick, TickRaises, TickIdle,
                  TickNoBackend, TickFails, TickConflicts, Restart
    <2> QED
      BY <1>0, <2>1 DEF Counted, Fires, CronMatches, Minute, DayOfMonth, DayOfWeek
  <1> QED
    BY <1>1, <1>2

\* One fire of the schedule publishes at most one run.
THEOREM FiresRunOnce == Spec => []OneRunPerFire
  <1>1. TypeOK /\ Counted => OneRunPerFire
    <2> SUFFICES ASSUME TypeOK, Counted PROVE OneRunPerFire
      OBVIOUS
    <2>1. lastRun \in Nat /\ now \in Nat /\ lastRun <= now /\ cronRuns \in Nat
      BY DEF TypeOK
    <2>2. Cardinality(Fires(lastRun)) <= Cardinality(Fires(now))
      BY <2>1, FiresGrow
    <2>3. cronRuns <= Cardinality(Fires(now))
      BY <2>1, <2>2, FiresFinite DEF Counted
    <2> QED
      BY <2>3 DEF OneRunPerFire, Fires
  <1> QED
    BY TypeInit, TypeStep, CountedInit, CountedStep, <1>1, PTL DEF Spec
-----------------------------------------------------------------------------
(* When the inbox is settled.                                              *)
\* A run is only ever due for what is pending.
LEMMA DueIsPending == Decision # "none" => Pending(inbox) # {}
  <1>1. Cardinality({}) = 0
    BY FS_EmptySet
  <1>2. ASSUME Pending(inbox) = {} PROVE Decision = "none"
    <2>1. ~(Cardinality(Pending(inbox)) >= Threshold)
      BY <1>1, <1>2
    <2> QED
      BY <1>2, <2>1 DEF Decision, Evaluate
  <1> QED
    BY <1>2

\* The pending event that lasts: none is newer, and none has fewer failures, so
\* that it is among the last to leave.
Lasts(f) ==
  /\ f \in Pending(inbox)
  /\ \A e \in Pending(inbox) : inbox[e].at <= inbox[f].at /\ inbox[f].tries <= inbox[e].tries

\* Without faults the loop never backs off, and wakes once per attempt after the
\* event that lasts was idle.
Rhythm ==
  faults = 0 =>
    /\ health = "ok" /\ failures = 0
    /\ wake <= slept + interval
    /\ Pending(inbox) # {} =>
         \E f \in Pending(inbox) :
           /\ Lasts(f)
           /\ wake <= inbox[f].at + IdleMinutes + (inbox[f].tries + 1) * interval

LEMMA RhythmInit == Init => Rhythm
  BY NonePending DEF Init, Rhythm

\* One sleep more than n of them.
LEMMA OneMore ==
    ASSUME NEW n \in Nat, NEW d \in Nat
    PROVE  n * d \in Nat /\ (n + 1) * d \in Nat /\ (n + 1) * d = n * d + d
  OBVIOUS

LEMMA RhythmStep == TypeOK /\ TypeOK' /\ Nap /\ Rhythm /\ [Next]_vars => Rhythm'
  <1> SUFFICES ASSUME TypeOK, TypeOK', Nap, Rhythm, [Next]_vars, faults' = 0
               PROVE Rhythm'
    BY DEF Rhythm
  <1>0. faults = 0
    <2>1. faults' = faults \/ faults' = faults + 1
      BY DEF Next, vars, Advance, Capture, HealthChanges, Tick, TickRaises, TickIdle,
             TickNoBackend, TickPublishes, TickFails, TickConflicts, Restart
    <2> QED
      BY <2>1, Numbers
  <1>1. /\ interval \in Nat \ {0} /\ IdleMinutes \in Nat /\ MaxAttempts \in Nat \ {0}
        /\ now \in Nat /\ wake \in Nat /\ slept \in Nat /\ slept <= now /\ now <= wake
    BY Numbers DEF Nap
  <1>2. \A e \in Pending(inbox) :
          inbox[e].at \in Nat /\ inbox[e].at <= now /\ inbox[e].tries \in Nat
    BY DEF TypeOK
  <1>3. health = "ok" /\ failures = 0 /\ wake <= slept + interval
    BY <1>0 DEF Rhythm
  <1>4. ASSUME Pending(inbox) # {}
        PROVE  \E f \in Pending(inbox) :
                 /\ Lasts(f)
                 /\ wake <= inbox[f].at + IdleMinutes + (inbox[f].tries + 1) * interval
    BY <1>0, <1>4 DEF Rhythm
  <1>5. ASSUME UNCHANGED <<inbox, interval>>, health' = "ok", failures' = 0,
               wake' <= slept' + interval,
               Pending(inbox) # {} =>
                 \E f \in Pending(inbox) :
                   /\ Lasts(f)
                   /\ wake' <= inbox[f].at + IdleMinutes + (inbox[f].tries + 1) * interval
        PROVE  Rhythm'
    BY <1>5 DEF Rhythm, Lasts, Pending
  <1>6. CASE Advance
    BY <1>3, <1>4, <1>5, <1>6 DEF Advance
  <1>7. ASSUME Sleep(0), Awake, UNCHANGED interval
        PROVE  now = wake /\ failures' = 0 /\ slept' = now /\ wake' = now + interval
    BY <1>1, <1>7, BackoffClean DEF Sleep, Awake
  <1>8. CASE Capture
    <2>0. PICK new \in Nat : new = writes + 1
      BY Numbers
    <2>1. Pending(inbox') = Pending(inbox) \cup {new}
      BY <1>8, <2>0 DEF Capture, Pending
    <2>2. new \notin Pending(inbox) /\ new \in Pending(inbox')
      BY <2>0, <2>1, Numbers DEF TypeOK
    <2>3. /\ inbox'[new].at = now /\ inbox'[new].tries = 0
          /\ \A e \in Pending(inbox) : inbox'[e] = inbox[e]
      BY <1>8, <2>0, <2>1, <2>2 DEF Capture, Pending
    <2>4. Lasts(new)'
      <3>1. \A e \in Pending(inbox') :
              /\ inbox'[e].at <= inbox'[new].at /\ inbox'[new].tries <= inbox'[e].tries
        BY <1>1, <1>2, <2>1, <2>3
      <3>2. /\ new \in Pending(inbox')
            /\ \A e \in Pending(inbox') :
                 /\ inbox'[e].at <= inbox'[new].at
                 /\ inbox'[new].tries <= inbox'[e].tries
        BY <2>2, <3>1
      <3> QED
        BY <3>2 DEF Lasts, Pending
    <2>5. wake <= now + IdleMinutes + (0 + 1) * interval
      BY <1>1, <1>3
    <2>6. UNCHANGED <<wake, slept, health, failures, interval>>
      BY <1>8 DEF Capture
    <2>7. wake <= inbox'[new].at + IdleMinutes + (inbox'[new].tries + 1) * interval
      BY <2>3, <2>5
    <2>8. UNCHANGED <<config, now, lastRun, loop, health, faults, cronRuns>>
      BY <1>8 DEF Capture
    <2> QED
      BY <1>3, <2>2, <2>4, <2>7, <2>8 DEF Rhythm, Pending
  <1>9. CASE TickIdle
    <2>1. now = wake /\ failures' = 0 /\ slept' = now /\ wake' = now + interval
      BY <1>7, <1>9 DEF TickIdle
    <2>2. ASSUME Pending(inbox) # {}
          PROVE  \E f \in Pending(inbox) :
                   /\ Lasts(f)
                   /\ wake' <= inbox[f].at + IdleMinutes + (inbox[f].tries + 1) * interval
      <3>1. PICK f \in Pending(inbox) : Lasts(f)
        BY <1>4, <2>2
      <3>2. PICK e \in Pending(inbox) : ~(now >= inbox[e].at + IdleMinutes)
        BY <1>9, <2>2 DEF TickIdle, Decision, Evaluate
      <3>3. now < inbox[f].at + IdleMinutes
        BY <1>1, <1>2, <3>1, <3>2 DEF Lasts
      <3>4. /\ inbox[f].tries * interval \in Nat
            /\ (inbox[f].tries + 1) * interval = inbox[f].tries * interval + interval
        BY <1>1, <1>2, OneMore
      <3>5. wake' <= inbox[f].at + IdleMinutes + (inbox[f].tries + 1) * interval
        BY <1>1, <1>2, <2>1, <3>3, <3>4
      <3> QED
        BY <3>1, <3>5
    <2> QED
      BY <1>1, <1>3, <1>5, <1>9, <2>1, <2>2 DEF TickIdle
  <1>10. CASE TickPublishes
    <2>1. now = wake /\ failures' = 0 /\ slept' = now /\ wake' = now + interval
      BY <1>7, <1>10 DEF TickPublishes
    <2>2. Pending(inbox)' = {}
      BY <1>10, NonePending DEF TickPublishes, Pending
    <2> QED
      BY <1>1, <1>3, <1>10, <2>1, <2>2 DEF TickPublishes, Rhythm
  <1>11. CASE TickFails
    <2>1. now = wake /\ failures' = 0 /\ slept' = now /\ wake' = now + interval
      BY <1>7, <1>11 DEF TickFails
    <2>2. PICK f \in Pending(inbox) :
            /\ Lasts(f)
            /\ wake <= inbox[f].at + IdleMinutes + (inbox[f].tries + 1) * interval
      BY <1>4, <1>11, DueIsPending DEF TickFails
    <2>3. UNCHANGED <<health, interval>>
      BY <1>11 DEF TickFails
    <2>4. CASE f \in Pending(inbox')
      <3>1. inbox'[f].at = inbox[f].at /\ inbox'[f].tries = inbox[f].tries + 1
        BY <1>11, <2>4, FailedRun
      <3>2. \A e \in Pending(inbox') :
              /\ e \in Pending(inbox)
              /\ inbox'[e].at = inbox[e].at /\ inbox'[e].tries = inbox[e].tries + 1
        BY <1>11, FailedRun
      <3>3. Lasts(f)'
        BY <1>2, <2>2, <2>4, <3>1, <3>2 DEF Lasts, Pending
      <3> DEFINE n == inbox[f].tries + 1
      <3>4. n \in Nat /\ inbox'[f].tries + 1 = n + 1
        BY <1>2, <3>1
      <3> HIDE DEF n
      <3>5. n * interval \in Nat /\ (n + 1) * interval = n * interval + interval
        BY <1>1, <3>4, OneMore
      <3>6. now <= inbox[f].at + IdleMinutes + n * interval
        BY <2>1, <2>2 DEF n
      <3>7. wake' <= inbox'[f].at + IdleMinutes + (inbox'[f].tries + 1) * interval
        BY <1>1, <1>2, <2>1, <3>1, <3>4, <3>5, <3>6
      <3> QED
        BY <1>1, <1>3, <2>1, <2>3, <2>4, <3>3, <3>7 DEF Rhythm, Pending
    <2>5. CASE f \notin Pending(inbox')
      <3>1. inbox[f].tries + 1 >= MaxAttempts
        BY <1>1, <1>2, <1>11, <2>5, FailedRun
      <3>2. \A e \in Pending(inbox) : ~(inbox[e].tries + 1 < MaxAttempts)
        BY <1>1, <1>2, <2>2, <3>1 DEF Lasts
      <3>3. Pending(inbox') = {}
        BY <1>11, <3>2, FailedRun
      <3> QED
        BY <1>1, <1>3, <2>1, <2>3, <3>3 DEF Rhythm, Pending
    <2> QED
      BY <2>4, <2>5
  <1>12. CASE UNCHANGED vars
    BY <1>3, <1>4, <1>5, <1>12 DEF vars
  <1>13. ~HealthChanges /\ ~Restart /\ ~TickRaises /\ ~TickNoBackend /\ ~TickConflicts
    BY <1>0, <1>3 DEF HealthChanges, Restart, TickRaises, TickNoBackend, TickConflicts
  <1> QED
    BY <1>6, <1>8, <1>9, <1>10, <1>11, <1>12, <1>13 DEF Next, Tick

\* Without faults every event is settled one sleep per attempt after the inbox
\* went idle, although its events spend their budgets one by one.
THEOREM SettledOnTime == Spec => []SettledInTime
  <1>1. TypeOK /\ Nap /\ Rhythm => SettledInTime
    <2> SUFFICES ASSUME TypeOK, Nap, Rhythm, faults = 0, Pending(inbox) # {}
                 PROVE  \E e \in Pending(inbox) :
                          now <= inbox[e].at + IdleMinutes + MaxAttempts * interval
      BY DEF SettledInTime
    <2>1. PICK f \in Pending(inbox) :
            wake <= inbox[f].at + IdleMinutes + (inbox[f].tries + 1) * interval
      BY DEF Rhythm
    <2> DEFINE n == inbox[f].tries + 1
    <2>2. /\ interval \in Nat \ {0} /\ IdleMinutes \in Nat /\ n \in Nat
          /\ n <= MaxAttempts /\ MaxAttempts \in Nat /\ inbox[f].at \in Nat
          /\ now \in Nat /\ wake \in Nat
      BY DEF TypeOK
    <2>3. wake <= inbox[f].at + IdleMinutes + n * interval
      BY <2>1
    <2> HIDE DEF n
    <2>4. n * interval <= MaxAttempts * interval
      BY <2>2
    <2>5. n * interval \in Nat /\ MaxAttempts * interval \in Nat
      BY <2>2
    <2>6. now <= inbox[f].at + IdleMinutes + MaxAttempts * interval
      BY <2>2, <2>3, <2>4, <2>5 DEF Nap
    <2> QED
      BY <2>6
  <1> QED
    BY TypeInit, TypeStep, NapInit, NapStep, RhythmInit, RhythmStep, <1>1, PTL DEF Spec
=============================================================================
