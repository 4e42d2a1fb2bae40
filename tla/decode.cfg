SPECIFICATION Spec
CONSTANTS
  Address <- MCAddress
  Unspecified <- Nobody
  Mac <- MCMac
  Vlan <- MCVlan
  Port <- MCPort
  Name <- MCName
  Text <- MCText
  Arpa <- MCArpa
  Captured <- MCCaptured
  Lines <- MCLines
INVARIANTS
  RecordsAreWellDecoded
  TruncationOnlyLoses
  OnlyAssertedPairsBind
  NamesTheRightHost
  OuterIsTheConversation
