SPECIFICATION Spec
CONSTANTS
  BrainSlugOf <- MCSlugOf
  BrainTags <- MCBrainTags
  BrainDomains <- MCBrainDomains
  BrainDate <- MCDate
  BrainDotted <- MCDotted
  BrainUnsafe <- MCUnsafe
  ImportSlug <- MCImportSlug
  ImportMocStem <- MCImportMocStem
  ImportDomains <- MCImportDomains
  ImportTags <- MCImportTags
  KbDomainList <- MCKbDomains
  KbMapStem <- MCKbMapStem
  KbDateOfStem <- MCKbDateOfStem
  Plans <- MCPlans
  Authorings <- MCAuthorings
  Routings <- MCRoutings
  Vaults <- MCVaults
  Kbs <- MCKbs
  Packings <- MCPackings
  Queries <- MCQueries
  Drawings <- MCDrawings
  Inits <- MCInits
  Batches <- MCBatches
INVARIANTS
  BrainIsTamed
  ActsRunWhereConfigured
  ImportIsFaithful
  ConversionIsFaithful
  PackIsBestFit
  ReaderIsExact
  InitIsRepeatable
  BatchIsAnswered
CHECK_DEADLOCK FALSE
