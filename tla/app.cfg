SPECIFICATION FairSpec
CONSTANTS
  MaxChecks = 3
  ApiConfigured = TRUE
  MaxPicks = 2
INVARIANTS
  NothingRunsUnwatched
  ShownWasDelivered
  SelectionIsCurrent
PROPERTIES
  OnlyTheLatestCheckSpeaks
  PickerReturns
  CheckingEnds
