CONSTANTS
  Unspecified <- Nobody
  Address <- MCAddress
  Mac <- MCMac
  Vlan <- MCVlan
  Port <- MCPort
  Name <- MCName
  Scope <- MCScope
  Prefix <- MCPrefix
  GroupMac <- MCGroupMac
  LimitedBroadcast <- MCLimitedBroadcast
  Frames <- LanAndFlowFrames
  MaxPackets = 4

SPECIFICATION Spec

CONSTRAINT OneCast

INVARIANT TypeOK
INVARIANT OffSegmentUnbound
INVARIANT BoundIsLocal
INVARIANT WindowsNest
INVARIANT PacketsConserved
INVARIANT MachineIdsUnique
INVARIANT FlowCountExact
INVARIANT SynDecides
INVARIANT ServicesPartition
PROPERTY EvidenceOnlyGrows
PROPERTY Promised

CHECK_DEADLOCK FALSE
