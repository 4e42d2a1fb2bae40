SPECIFICATION Spec
CONSTANTS
  Address <- MCAddress
  Machine <- MCMachine
  EdgeId <- MCEdgeId
  RawDocuments <- MCRawDocuments
  Repicked <- MCRepicked
INVARIANTS
  DrawnOnce
  EveryConversationDrawn
  NoDanglingShown
  OnlyUncheckedFieldsCrash
