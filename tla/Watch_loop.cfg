SPECIFICATION Spec
CONSTANTS
  Intervals <- MCIntervals
  Cap = 4
  MaxShift = 3
  Threshold = 2
  IdleMinutes = 4
  Schedules <- MCSchedules
  MinutesPerDay = 4
  DaysPerMonth = 3
  DaysPerWeek = 2
  MaxAttempts = 2
  Horizon = 15
  MaxWrites = 3
  MaxFaults = 2
INVARIANTS
  SleepIsBounded
  OneRunPerFire
  SettledInTime
CHECK_DEADLOCK FALSE
