------------------------------ MODULE Viewport ------------------------------
(***************************************************************************)
(* The window onto the drawing space: the arithmetic of lib/viewport.ts,   *)
(* the mapping of lib/pointer.ts and the gestures, the wheel and the       *)
(* buttons of useViewport.ts that apply it, for at most two pointers.      *)
(* Which press begins which gesture is the matter of GraphGestures; here   *)
(* it is where the graph lies under the hand.                              *)
(*                                                                         *)
(* setViewport only queues: a move or a turn of the wheel is rendered by a *)
(* later task (Render), a click on a button before the next event. What    *)
(* reads the screen or viewportRef in between sees the view rendered last. *)
(***************************************************************************)
EXTENDS Fractions, FiniteSets

CONSTANTS
  Base,          \* the extent of the drawing space, and of the svg on screen
  Client,        \* the points of the screen a pointer may be at
  Pointer,       \* two pointers
  WheelFactors,  \* what a turn of the wheel zooms by
  CircleSets,    \* where the simulation may have put the bodies, as of the last render
  Padding,       \* FIT_PADDING, 60
  MaxSteps       \* bound on presses, turns of the wheel and buttons

Off == [off |-> TRUE]

Square(n) == n * n

SquareGap(c, d) == Square(c.x - d.x) + Square(c.y - d.y)

ASSUME ViewportAssumption ==
  /\ Base.width \in Nat \ {0} /\ Base.height \in Nat \ {0}
  /\ \E p, q \in Pointer : p # q /\ Pointer = {p, q}
  /\ Client \subseteq [x : 0..Base.width, y : 0..Base.height]
  /\ \A c, d \in Client : \E g \in 0..(Base.width + Base.height) : Square(g) = SquareGap(c, d)
  /\ \A f \in WheelFactors : f[1] \in Nat \ {0} /\ f[2] \in Nat \ {0} /\ f = Lowest(f[1], f[2])
  /\ \A cs \in CircleSets : IsFiniteSet(cs) /\ cs \subseteq [x : Int, y : Int, radius : Nat]
  /\ Padding \in Nat /\ MaxSteps \in Nat

VARIABLES
  view,     \* the viewport with every update queued so far
  shown,    \* the viewport rendered last: viewportRef and the svg's matrix
  at,       \* livePointers: where each pointer is down
  gesture,  \* gestureRef; for a pan and a pinch alike grabbed is the graph point taken
  slipped,  \* something else than the gesture has moved the view since its last move
  steps

vars == <<view, shown, at, gesture, slipped, steps>>

-----------------------------------------------------------------------------
(* lib/viewport.ts.                                                        *)

MinScale == <<3, 20>>
MaxScale == Whole(6)

BaseWidth == Whole(Base.width)
BaseHeight == Whole(Base.height)

InitialViewport == [x |-> Whole(0), y |-> Whole(0), width |-> BaseWidth, height |-> BaseHeight]

PanBy(v, dx, dy) == [v EXCEPT !.x = @ (+) dx, !.y = @ (+) dy]

CentreOf(v) == [x |-> v.x (+) (v.width (/) Whole(2)), y |-> v.y (+) (v.height (/) Whole(2))]

ClampWidth(w) == Smaller(Larger(w, BaseWidth (/) MaxScale), BaseWidth (/) MinScale)

\* Mutation of ZoomAt: the corner moves by the factor asked for, also when the
\* width is stopped at a bound.
ZoomAtUnclamped(v, factor, anchor) ==
  LET width == ClampWidth(v.width (/) factor)
  IN [x |-> anchor.x (-) ((anchor.x (-) v.x) (/) factor),
      y |-> anchor.y (-) ((anchor.y (-) v.y) (/) factor),
      width |-> width, height |-> v.height (.) (width (/) v.width)]

ZoomAt(v, factor, anchor) ==
  LET width == ClampWidth(v.width (/) factor)
      ratio == width (/) v.width
  IN [x |-> anchor.x (-) ((anchor.x (-) v.x) (.) ratio),
      y |-> anchor.y (-) ((anchor.y (-) v.y) (.) ratio),
      width |-> width, height |-> v.height (.) ratio]

PinchTo(start, grabbed, toward, factor) ==
  LET width == ClampWidth(start.width (/) factor)
      height == width (.) (start.height (/) start.width)
      fx == (toward.x (-) start.x) (/) start.width
      fy == (toward.y (-) start.y) (/) start.height
  IN [x |-> grabbed.x (-) (fx (.) width), y |-> grabbed.y (-) (fy (.) height),
      width |-> width, height |-> height]

Least(S) == CHOOSE n \in S : \A m \in S : n <= m
Greatest(S) == CHOOSE n \in S : \A m \in S : m <= n

FitTo(cs) ==
  IF cs = {} THEN InitialViewport
  ELSE LET minX == Least({c.x - c.radius : c \in cs})
           maxX == Greatest({c.x + c.radius : c \in cs})
           minY == Least({c.y - c.radius : c \in cs})
           maxY == Greatest({c.y + c.radius : c \in cs})
           aspect == BaseWidth (/) BaseHeight
           width == ClampWidth(Larger(Whole(maxX - minX + Padding * 2),
                                      Whole(maxY - minY + Padding * 2) (.) aspect))
           height == width (/) aspect
       IN [x |-> Lowest(minX + maxX, 2) (-) (width (/) Whole(2)),
           y |-> Lowest(minY + maxY, 2) (-) (height (/) Whole(2)),
           width |-> width, height |-> height]

-----------------------------------------------------------------------------
(* lib/pointer.ts and the points a gesture is measured by.                 *)

\* The svg's inverse matrix while it shows v. Every view has the shape of the
\* base, so nothing is letterboxed.
ToUser(v, c) ==
  [x |-> v.x (+) ((c.x (.) v.width) (/) BaseWidth), y |-> v.y (+) ((c.y (.) v.height) (/) BaseHeight)]

NoGesture == [kind |-> "none"]

\* Where the hand is: a pointer, or the middle between two.
Hand(where, ps) ==
  LET p == CHOOSE p \in ps : TRUE
      q == CHOOSE q \in ps : ps = {p, q}
  IN [x |-> Lowest(where[p].x + where[q].x, 2), y |-> Lowest(where[p].y + where[q].y, 2)]

\* gapBetween: Math.hypot.
Gap(where) ==
  CHOOSE g \in 0..(Base.width + Base.height) :
    \A p, q \in Pointer : p # q => Square(g) = SquareGap(where[p], where[q])

Begin(kind, ps) ==
  /\ gesture' = [kind |-> kind, pointers |-> ps, start |-> shown, grabbed |-> ToUser(shown, Hand(at', ps)),
                 gap |-> IF kind = "pinch" THEN Gap(at') ELSE 0]
  /\ slipped' = (shown # view)

-----------------------------------------------------------------------------

Init ==
  /\ view = InitialViewport /\ shown = InitialViewport
  /\ at = [p \in Pointer |-> Off]
  /\ gesture = NoGesture /\ slipped = FALSE /\ steps = 0

Count == steps < MaxSteps /\ steps' = steps + 1

\* One pointer pans if it came down on empty canvas, two are a pinch.
Press(p, c, onBackground) ==
  /\ Count
  /\ at[p] = Off
  /\ at' = [at EXCEPT ![p] = c]
  /\ IF \A q \in Pointer : at'[q] # Off THEN Begin("pinch", Pointer)
     ELSE IF onBackground THEN Begin("pan", {p})
     ELSE UNCHANGED <<gesture, slipped>>
  /\ UNCHANGED <<view, shown>>

\* Mutation of Matrix: toUser reads the matrix anew at every move.
MatrixLive(g) == shown

\* The matrix a gesture was given when it began.
Matrix(g) == g.start

Pan(hand) ==
  LET point == ToUser(Matrix(gesture), hand)
  IN view' = PanBy(gesture.start, gesture.grabbed.x (-) point.x, gesture.grabbed.y (-) point.y)

Pinch(hand) ==
  view' = PinchTo(gesture.start, gesture.grabbed, ToUser(Matrix(gesture), hand),
                  Lowest(Gap(at'), gesture.gap))

Move(p, c) ==
  /\ at[p] \notin {Off, c}
  /\ at' = [at EXCEPT ![p] = c]
  /\ CASE gesture.kind = "pan" /\ p \in gesture.pointers ->
            Pan(Hand(at', gesture.pointers)) /\ slipped' = FALSE
       [] gesture.kind = "pinch" /\ gesture.gap # 0 /\ Gap(at') # 0 ->
            Pinch(Hand(at', gesture.pointers)) /\ slipped' = FALSE
       [] OTHER -> slipped' = (gesture # NoGesture) /\ UNCHANGED view
  /\ UNCHANGED <<shown, gesture, steps>>

\* The finger left over from a pinch goes on as a pan.
Lift(p) ==
  /\ at[p] # Off
  /\ at' = [at EXCEPT ![p] = Off]
  /\ IF gesture.kind = "pinch"
     THEN Begin("pan", gesture.pointers \ {p})
     ELSE gesture' = NoGesture /\ slipped' = FALSE
  /\ UNCHANGED <<view, shown, steps>>

\* The anchor is read off the screen, the view it is applied to is not.
Wheel(c, factor) ==
  /\ Count
  /\ view' = ZoomAt(view, factor, ToUser(shown, [x |-> Whole(c.x), y |-> Whole(c.y)]))
  /\ slipped' = (gesture # NoGesture)
  /\ UNCHANGED <<shown, at, gesture>>

Click(v) ==
  /\ Count
  /\ view' = v /\ shown' = v
  /\ slipped' = (gesture # NoGesture)
  /\ UNCHANGED <<at, gesture>>

ZoomIn == Click(ZoomAt(view, <<13, 10>>, CentreOf(view)))
ZoomOut == Click(ZoomAt(view, <<10, 13>>, CentreOf(view)))
Fit(circles) == Click(FitTo(circles))
Reset == Click(InitialViewport)

\* The task that renders what is queued.
Render ==
  /\ shown # view
  /\ shown' = view
  /\ UNCHANGED <<view, at, gesture, slipped, steps>>

Next ==
  \/ \E p \in Pointer, c \in Client : Move(p, c) \/ \E b \in BOOLEAN : Press(p, c, b)
  \/ \E p \in Pointer : Lift(p)
  \/ \E c \in Client, f \in WheelFactors : Wheel(c, f)
  \/ \E circles \in CircleSets : Fit(circles)
  \/ ZoomIn \/ ZoomOut \/ Reset \/ Render

Spec == Init /\ [][Next]_vars

-----------------------------------------------------------------------------
(* Properties.                                                             *)

\* "The point grabbed stays under the pointer however many moves it takes to
\* get there" (useViewport.ts), through pans, pinches that reach a zoom bound
\* and the hand-over from one to the other; but not where a wheel, a button or
\* a view not yet rendered came in between, until the next move takes it back.
HeldPointIsUnderHand ==
  gesture.kind # "none" /\ ~slipped => ToUser(view, Hand(at, gesture.pointers)) = gesture.grabbed

InBounds(v) ==
  /\ BaseWidth (/) MaxScale \preceq v.width /\ v.width \preceq BaseWidth (/) MinScale
  /\ v.height (.) BaseWidth = v.width (.) BaseHeight

\* A zoom keeps the shape of the view within its bounds, and what is under the
\* cursor (the wheel, with nothing waiting to be rendered) or in the middle
\* (the buttons) stays there, at the bounds too.
ZoomKeepsAnchor ==
  [][/\ \A c \in Client, f \in WheelFactors :
          Wheel(c, f) /\ shown = view =>
            LET p == [x |-> Whole(c.x), y |-> Whole(c.y)] IN ToUser(view', p) = ToUser(view, p)
     /\ ZoomIn \/ ZoomOut => CentreOf(view') = CentreOf(view)
     /\ view' # view => InBounds(view')]_vars
=============================================================================
