SPECIFICATION Spec
CONSTANTS
  Batches <- MCBatches
  Text <- MCText
  Gated <- MCGated
  Wishes <- MCWishes
  Domains <- MCDomains
  Dates <- MCDates
  HumanPaths <- MCNobody
  Rogue <- MCTame
INVARIANT LintBlamesThisRun
CHECK_DEADLOCK FALSE
