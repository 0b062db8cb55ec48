SPECIFICATION Spec
CONSTANTS
  Years <- MCYears
  Sequences <- MCSequences
  ListSize = 16
  MaxFlags = 3
  Contents = {"a", "b"}
  MaxRows = 5
  MaxLot <- MCMaxLot
  Lots <- MCLots
  LowThreshold = 2000
  StandardThreshold = 9000
  HsCodes <- MCHsCodes
  Days <- MCDays
  MaxLines = 2
  Amounts <- MCAmounts
  Keys <- MCKeys
  Kids <- MCKids
  Directory <- MCDirectory
  Issuer = "issuer"
  Indexes0 = {0, 1}
INVARIANTS
  SlipsAreRejected
  BytesHoldTheFlags
  CommitmentsBind
  EveryLotCanBeJudged
  PricedByTheRateOfTheDay
  OnlyTheSignedIsAccepted
  DutiesAreSegregated
