SPECIFICATION FairSpec
CONSTANTS
  Connectors <- MCConnectors
  AgentOf <- MCAgentOf
  Charged <- MCCharged
  ConnectorKind <- MCKind
  Harvesters <- MCHarvesters
  Texts <- MCTexts
  Entries <- MCEntries
  Siblings <- MCSiblings
  MaxFacts = 2
  MaxEdits = 1
  MaxCrashes = 1
INVARIANTS
  SkippedIsWritten
  NothingFiledTwice
PROPERTIES
  RestingIsSettled
CHECK_DEADLOCK FALSE
