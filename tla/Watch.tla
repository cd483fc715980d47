------------------------------- MODULE Watch -------------------------------
(***************************************************************************)
(* `agora watch`: a loop that recovers, evaluates the three triggers over  *)
(* the inbox, runs one consolidation when one is due, and sleeps; ticks    *)
(* that raise, or find no backend, back off.  Time is explicit: one unit   *)
(* is a minute of the cron schedule and a second of the sleeps.            *)
(***************************************************************************)
EXTENDS Naturals, FiniteSets

CONSTANTS
  Intervals,    \* the values --interval may have
  Cap,          \* _WATCH_BACKOFF_CAP_S
  MaxShift,     \* _WATCH_BACKOFF_MAX_SHIFT
  Threshold, IdleMinutes,   \* of curator.triggers
  Schedules,    \* the parsed cron schedules
  MinutesPerDay, DaysPerMonth, DaysPerWeek,   \* of a small calendar
  MaxAttempts,  \* curations of an event before it is terminal
  Horizon,      \* bound on the time
  MaxWrites,    \* bound on the captures
  MaxFaults     \* bound on the changes of health, the restarts and the conflicts
ASSUME CadenceAssumption ==
  /\ Cap \in Nat \ {0} /\ MaxShift \in Nat /\ Intervals \subseteq Nat \ {0}
  /\ Threshold \in Nat \ {0} /\ IdleMinutes \in Nat
  /\ MaxAttempts \in Nat \ {0}
  /\ Horizon \in Nat \ {0} /\ MaxWrites \in Nat /\ MaxFaults \in Nat
\* Arithmetic that the provers do not have.
ASSUME PowersAssumption == \A n \in 0 .. MaxShift : 2^n \in Nat \ {0} /\ 2^0 = 1

VARIABLES
  interval, schedule,   \* the configuration of this repository
  now,
  inbox,                \* pending event -> when it was written, its failed curations
  lastRun,              \* state.last_run: the last published run, 0 for never
  failures,             \* consecutive unproductive ticks
  slept, wake,          \* when the loop went to sleep, and until when
  health,               \* what a tick would meet: "ok", "raises", "noBackend"
  writes, faults,       \* what the bounds count
  due,                  \* history: since when a run has been due and possible
  cronRuns              \* history: runs published because of the schedule

config == <<interval, schedule>>
loop == <<failures, slept, wake>>
bounds == <<writes, faults>>
history == <<due, cronRuns>>
vars == <<config, now, inbox, lastRun, loop, health, bounds, history>>
-----------------------------------------------------------------------------
(* cron.py: a field is its values and whether it was restricted.            *)
Minute(t) == t % MinutesPerDay
DayOfMonth(t) == 1 + ((t \div MinutesPerDay) % DaysPerMonth)
DayOfWeek(t) == (t \div MinutesPerDay) % DaysPerWeek
CronMatches(t) ==
  /\ Minute(t) \in schedule.minute
  /\ LET dom == DayOfMonth(t) \in schedule.dom.values
         dow == DayOfWeek(t) \in schedule.dow.values
     IN IF schedule.dom.restricted /\ schedule.dow.restricted THEN dom \/ dow
        ELSE (schedule.dom.restricted => dom) /\ (schedule.dow.restricted => dow)
\* (mutant) the schedule is due whenever it matches the present day.
IsCronDueToday(t, last) ==
  \E f \in 1 .. t : CronMatches(f) /\ f \div MinutesPerDay = t \div MinutesPerDay
\* The latest fire is after the last run: some fire is.  0 is no run.
IsCronDue(t, last) == \E f \in 1 .. t : CronMatches(f) /\ f > last

\* triggers.evaluate: the first of the three that holds.
Pending(events) == DOMAIN events
Evaluate(t, events, last) ==
  IF Cardinality(Pending(events)) >= Threshold THEN "threshold"
  ELSE IF Pending(events) = {} THEN "none"
  ELSE IF \A e \in Pending(events) : t >= events[e].at + IdleMinutes THEN "idle"
  ELSE IF IsCronDue(t, last) THEN "cron"
  ELSE "none"

Least(a, b) == IF a < b THEN a ELSE b
Greatest(a, b) == IF a > b THEN a ELSE b
\* (mutant) the bare cap.
BackoffBareCap(n) == Least(interval * 2^Least(n, MaxShift), Cap)
Backoff(n) == Least(interval * 2^Least(n, MaxShift), Greatest(interval, Cap))
-----------------------------------------------------------------------------
Never == Horizon + 1
\* History: a run has been due, and nothing stood in its way, since when.
DueSince ==
  due' = IF health' = "ok" /\ Evaluate(now', inbox', lastRun') # "none"
         THEN Least(due, now') ELSE Never
Init ==
  /\ interval \in Intervals /\ schedule \in Schedules
  /\ now = 1 /\ inbox = <<>> /\ lastRun = 0
  /\ failures = 0 /\ slept = 1 /\ wake = 1
  /\ health = "ok" /\ writes = 0 /\ faults = 0
  /\ due = Never /\ cronRuns = 0

\* Nothing happens while the loop sleeps; a tick does not wait.
Advance ==
  /\ now < wake /\ now < Horizon
  /\ now' = now + 1
  /\ UNCHANGED <<config, inbox, lastRun, loop, health, bounds, cronRuns>>
  /\ DueSince
Capture ==
  /\ writes < MaxWrites
  /\ writes' = writes + 1
  /\ inbox' = [e \in Pending(inbox) \cup {writes + 1} |->
                 IF e = writes + 1 THEN [at |-> now, tries |-> 0] ELSE inbox[e]]
  /\ UNCHANGED <<config, now, lastRun, loop, health, faults, cronRuns>>
  /\ DueSince
\* The configuration breaks, the backend goes away, or all is well again.
HealthChanges ==
  /\ faults < MaxFaults
  /\ health' \in {"ok", "raises", "noBackend"} \ {health}
  /\ faults' = faults + 1
  /\ UNCHANGED <<config, now, inbox, lastRun, loop, writes, cronRuns>>
  /\ DueSince

Sleep(n) == failures' = n /\ slept' = now /\ wake' = now + Backoff(n)
Awake == now >= wake /\ now < Horizon
Decision == Evaluate(now, inbox, lastRun)
\* A tick that raises is reported, and never ends the loop.
TickRaises ==
  /\ Awake /\ health = "raises"
  /\ Sleep(failures + 1)
  /\ UNCHANGED <<config, now, inbox, lastRun, health, bounds, history>>
TickIdle ==
  /\ Awake /\ health # "raises" /\ Decision = "none"
  /\ Sleep(0)
  /\ UNCHANGED <<config, now, inbox, lastRun, health, bounds, history>>
TickNoBackend ==
  /\ Awake /\ health = "noBackend" /\ Decision # "none"
  /\ Sleep(failures + 1)
  /\ UNCHANGED <<config, now, inbox, lastRun, health, bounds, history>>
\* A run that publishes takes every pending event and stamps last_run.
TickPublishes ==
  /\ Awake /\ health = "ok" /\ Decision # "none"
  /\ inbox' = <<>> /\ lastRun' = now
  /\ cronRuns' = cronRuns + (IF Decision = "cron" THEN 1 ELSE 0)
  /\ due' = Never
  /\ Sleep(0)
  /\ UNCHANGED <<config, now, health, bounds>>
\* (mutant) a run that fails keeps its events without end.
TickFailsFree ==
  /\ Awake /\ health = "ok" /\ Decision # "none"
  /\ due' = Never
  /\ Sleep(0)
  /\ UNCHANGED <<config, now, inbox, lastRun, health, bounds, cronRuns>>
\* A run that fails gives each event back whose own budget is not spent.
TickFails ==
  /\ Awake /\ health = "ok" /\ Decision # "none"
  /\ inbox' = [e \in {p \in Pending(inbox) : inbox[p].tries + 1 < MaxAttempts} |->
                 [at |-> inbox[e].at, tries |-> inbox[e].tries + 1]]
  /\ due' = Never
  /\ Sleep(0)
  /\ UNCHANGED <<config, now, lastRun, health, bounds, cronRuns>>
\* A run whose commit loses to another's gives all of them back uncharged.
TickConflicts ==
  /\ Awake /\ health = "ok" /\ Decision # "none"
  /\ faults < MaxFaults /\ faults' = faults + 1
  /\ due' = Never
  /\ Sleep(0)
  /\ UNCHANGED <<config, now, inbox, lastRun, health, writes, cronRuns>>
Restart ==
  /\ faults < MaxFaults /\ faults' = faults + 1
  /\ failures' = 0 /\ slept' = now /\ wake' = now
  /\ UNCHANGED <<config, now, inbox, lastRun, health, writes, history>>

Tick == TickRaises \/ TickIdle \/ TickNoBackend \/ TickPublishes \/ TickFails
          \/ TickConflicts
Next == Advance \/ Capture \/ HealthChanges \/ Tick \/ Restart
Spec == Init /\ [][Next]_vars
-----------------------------------------------------------------------------
(* Properties.                                                             *)
Longest == Greatest(interval, Cap)

TypeOK ==
  /\ interval \in Intervals /\ schedule \in Schedules
  /\ now \in 1 .. Horizon
  /\ Pending(inbox) \subseteq 1 .. writes
  /\ \A e \in Pending(inbox) : inbox[e].at \in 1 .. now /\ inbox[e].tries \in 0 .. MaxAttempts - 1
  /\ lastRun \in 0 .. now
  /\ failures \in Nat /\ slept \in 1 .. now /\ wake \in Nat
  /\ health \in {"ok", "raises", "noBackend"}
  /\ writes \in 0 .. MaxWrites /\ faults \in 0 .. MaxFaults
  /\ due \in 1 .. Never /\ cronRuns \in Nat

\* The backoff only ever makes the loop slower (cli.py: "never the bare
\* constant"), and never slower than its cap.
BackoffSlows == failures > 0 => wake - slept >= interval

\* A run that is due, and that nothing prevents, is attempted within the longest
\* sleep, however many ticks failed before.
DueIsAttempted == due # Never => now <= due + Longest

\* The loop neither hammers what fails nor oversleeps what is due.
SleepIsBounded == BackoffSlows /\ DueIsAttempted

\* One fire of the schedule publishes at most one run, although the loop polls
\* often and a fire stays visible.
OneRunPerFire == cronRuns <= Cardinality({f \in 1 .. now : CronMatches(f)})

\* Without faults of its surroundings the loop settles every event, published or with
\* its budget spent, at most one sleep per attempt after the inbox went idle, although
\* older events spend their budgets before younger ones.
SettledInTime ==
  faults = 0 /\ Pending(inbox) # {} =>
    \E e \in Pending(inbox) : now <= inbox[e].at + IdleMinutes + MaxAttempts * interval
=============================================================================
