----------------------------- MODULE MCViewport -----------------------------
(* A screen of 16 by 12 and the corners of a rectangle on it, whose         *)
(* distances are whole: 8, 6 and 10.                                        *)
EXTENDS Viewport, TLC

CONSTANTS p1, p2

MCBase == [width |-> 16, height |-> 12]
MCClient == {[x |-> 2, y |-> 3], [x |-> 10, y |-> 3], [x |-> 10, y |-> 9]}
MCPointer == {p1, p2}
MCWheelFactors == {<<8, 1>>}

Circle(cx, cy, r) == [x |-> cx, y |-> cy, radius |-> r]

\* Nothing placed yet; too far apart for any view.
MCCircleSets == {{}, {Circle(-90, 0, 2), Circle(90, 0, 2)}}

Alike == Permutations(MCPointer)
=============================================================================
