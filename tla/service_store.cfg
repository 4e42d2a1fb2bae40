CONSTANTS
  c1 = c1
  c2 = c2
  c3 = c3
  w1 = w1
  w2 = w2
  Id <- ThreeUploads
  Worker <- TwoWorkers
  Capacity = 2
  MaxSize = 1
  MaxFrames = 1

SPECIFICATION Spec

CONSTRAINT Untroubled

PROPERTY KeepsRecent
