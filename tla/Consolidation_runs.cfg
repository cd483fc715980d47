SPECIFICATION Spec
CONSTANTS
  Batches <- MCBatches
  Text <- MCText
  Gated <- MCGated
  Wishes <- MCWishes
  Domains <- MCDomains
  Dates <- MCDates
  HumanPaths <- MCHumanPaths
  Rogue <- MCRogue
INVARIANTS
  CapturesStayCited
  TreeWellFormed
  PendingIffUnauthored
  GatedNeverOriginates
  OldNotesBlamedInTwoCases
PROPERTIES
  RunConfined
CHECK_DEADLOCK FALSE
