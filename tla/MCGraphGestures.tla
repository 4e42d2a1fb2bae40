-------------------------- MODULE MCGraphGestures --------------------------
(* A mouse and two fingers over two bodies and an edge.                     *)
EXTENDS GraphGestures, TLC

CONSTANTS m, f1, f2, b1, b2, e1

MCMice == {m}
MCTouches == {f1, f2}
MCBodies == {b1, b2}
MCEdges == {e1}

\* Fingers are alike, and so are bodies.
Alike == Permutations(MCTouches) \cup Permutations(MCBodies)
=============================================================================
