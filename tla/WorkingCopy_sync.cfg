SPECIFICATION FairSpec
CONSTANTS
  Notes <- MCNotes
  MaxCommits = 3
  MaxEdits = 1
  Habits <- MCHabits
INVARIANTS
  DerivedIsCurrent
PROPERTIES
  SyncIsExact
  BackupIsTrue
  ReadersCatchUp
CHECK_DEADLOCK FALSE
