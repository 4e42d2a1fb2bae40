\* Sets of pointers and targets; fingers and bodies are interchangeable.
SPECIFICATION Spec
CONSTANTS
  m = m
  f1 = f1
  f2 = f2
  b1 = b1
  b2 = b2
  e1 = e1
  Mice <- MCMice
  Touches <- MCTouches
  Bodies <- MCBodies
  Edges <- MCEdges
SYMMETRY Alike
INVARIANTS
  OneRolePerPointer
  AtRest
  HeatFollowsDrag
PROPERTIES
  OnlyATapClears
  DroppingDoesNotSelect
