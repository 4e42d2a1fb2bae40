CONSTANTS
  c1 = c1
  c2 = c2
  c3 = c3
  w1 = w1
  w2 = w2
  Id <- TwoUploads
  Worker <- OneWorker
  Capacity = 1
  MaxSize = 1
  MaxFrames = 1

SPECIFICATION Spec

INVARIANT AlwaysStarts
