SPECIFICATION Spec
CONSTANTS
  Notes <- MCNotes
  Tags <- MCTags
  Procs <- MCProcs
  HostOf <- MCHostOf
  JobOf <- MCJobOf
  Trees <- MCTrees
  Vaults <- MCVaults
  MaxCommits = 3
INVARIANTS
  RestampConfined
  RestampRepeats
PROPERTIES
  NoCommitLost
CHECK_DEADLOCK FALSE
