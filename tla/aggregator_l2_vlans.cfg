CONSTANTS
  Unspecified <- Nobody
  Address <- MCAddress
  Mac <- MCMac
  Vlan <- MCVlan
  Port <- MCPort
  Name <- MCName
  Scope <- MCScope
  Prefix <- MCPrefix
  GroupMac <- MCGroupMac
  LimitedBroadcast <- MCLimitedBroadcast
  Frames <- TwoVlanFrames
  MaxPackets = 3

SPECIFICATION Spec

INVARIANT EndpointsExist

CHECK_DEADLOCK FALSE
