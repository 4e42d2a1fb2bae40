SPECIFICATION Spec
CONSTANTS
  p1 = p1
  p2 = p2
  Base <- MCBase
  Client <- MCClient
  Pointer <- MCPointer
  WheelFactors <- MCWheelFactors
  CircleSets <- MCCircleSets
  Padding = 1
  MaxSteps = 3
SYMMETRY Alike
INVARIANT HeldPointIsUnderHand
PROPERTY ZoomKeepsAnchor

\* Nothing is left to do once MaxSteps are spent: the bound stops it, not the code.
CHECK_DEADLOCK FALSE
