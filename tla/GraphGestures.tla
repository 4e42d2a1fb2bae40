--------------------------- MODULE GraphGestures ---------------------------
(***************************************************************************)
(* The pointers on the graph's canvas: useForceLayout.ts drags bodies,     *)
(* useViewport.ts pans and pinches, Graph.tsx sends every pointer event to *)
(* both and turns clicks into selections.                                  *)
(*                                                                         *)
(* An action is one pointer event with everything its handlers do, in the  *)
(* order they run: the target's own handler first, then the canvas's.      *)
(* Coordinates are left to Viewport.tla; here a move only says whether the *)
(* pointer is further from its press than the slop (lib/pointer.ts).       *)
(***************************************************************************)
EXTENDS Naturals, Sequences

CONSTANTS
  Mice,     \* pointer ids a button presses: captured only where the code says
  Touches,  \* pointer ids of fingers: the browser captures them on any target
  Bodies,   \* circles that are machines or stand-alone addresses
  Edges     \* the fat invisible lines that take the clicks of edges

Background == "background"
Up == "up"
Gone == "gone"
None == "none"

ASSUME GestureAssumption ==
  /\ Mice \cap Touches = {}
  /\ Bodies \cap Edges = {}
  /\ (Bodies \cup Edges) \cap {Background, Up, Gone, None} = {}
  /\ None \notin Mice \cup Touches

Pointers == Mice \cup Touches

Targets == Bodies \cup Edges \cup {Background}

VARIABLES
  \* What hand and browser do.
  down,        \* pointer -> what it was pressed on, Up, or Gone once that was removed
  far,         \* pointers that are down and have been further from their press than the slop
  shared,      \* pointers that are down and have taken part in a pinch
  crossed,     \* pointers that are down and another has since been pressed on a body
  astray,      \* a press or its release happened outside the canvas
  click,       \* the press the browser reports as a click next, or NoClick
  \* useViewport.
  live,        \* livePointers: a Map, in the order its keys were inserted
  background,  \* backgroundPointers
  gesture,     \* gestureRef
  panned,      \* pannedRef
  \* useForceLayout.
  drag,        \* dragRef, and whether its body belongs to the current layout
  dragged,     \* draggedRef
  pinned,      \* the bodies with fx and fy set
  hot,         \* the simulation's alphaTarget is above zero
  \* App.
  selection

handVars == <<down, far, shared, crossed, astray>>
viewVars == <<live, background, gesture, panned>>
simVars == <<drag, dragged, pinned, hot>>
vars == <<handVars, viewVars, simVars, click, selection>>

NoClick == [on |-> None]

NoGesture == [kind |-> None]

NoDrag == [pointer |-> None]

Pans == [kind : {"pan"}, pointer : Pointers]

Pinches == [kind : {"pinch"}, first : Pointers, second : Pointers]

Drags == [pointer : Pointers, body : Bodies, fresh : BOOLEAN]

\* A click and what its press was like.
Clicks == [on : Targets, moved : BOOLEAN, shared : BOOLEAN, crossed : BOOLEAN]

\* The pointers whose moves the gesture g answers.
Users(g) ==
  CASE g.kind = "pan" -> {g.pointer}
    [] g.kind = "pinch" -> {g.first, g.second}
    [] OTHER -> {}

Members(s) == {s[i] : i \in DOMAIN s}

NoRepeat(s) == \A i, j \in DOMAIN s : s[i] = s[j] => i = j

IsDown(p) == down[p] # Up

\* pointerup reaches the canvas wherever it happens.
IsCaptured(p) == down[p] \in Bodies \cup {Background} \/ (p \in Touches /\ down[p] \in Edges)

TypeOK ==
  /\ down \in [Pointers -> Targets \cup {Up, Gone}]
  /\ far \subseteq Pointers /\ shared \subseteq Pointers /\ crossed \subseteq Pointers
  /\ astray \in BOOLEAN
  /\ click \in Clicks \cup {NoClick}
  /\ live \in Seq(Pointers) /\ NoRepeat(live)
  /\ background \subseteq Pointers
  /\ gesture \in Pans \cup Pinches \cup {NoGesture}
  /\ panned \in BOOLEAN /\ dragged \in BOOLEAN /\ hot \in BOOLEAN
  /\ drag \in Drags \cup {NoDrag}
  /\ pinned \subseteq Bodies
  /\ selection \in Bodies \cup Edges \cup {None}

Init ==
  /\ down = [p \in Pointers |-> Up]
  /\ far = {} /\ shared = {} /\ crossed = {} /\ astray = FALSE
  /\ click = NoClick
  /\ live = <<>> /\ background = {} /\ gesture = NoGesture /\ panned = FALSE
  /\ drag = NoDrag /\ dragged = FALSE /\ pinned = {} /\ hot = FALSE
  /\ selection = None

-----------------------------------------------------------------------------
(* pointerdown.                                                            *)

\* Map.set: a key that is there keeps its place.
Tracked(p) == IF p \in Members(live) THEN live ELSE Append(live, p)

BeginsPinch(pointers) == Len(pointers) = 2

\* handlePointerDown of useViewport, once the background has marked its own.
ViewDown(p, marked) ==
  /\ live' = Tracked(p)
  /\ background' = marked
  /\ IF BeginsPinch(live')
     THEN /\ gesture' = [kind |-> "pinch", first |-> live'[1], second |-> live'[2]]
          /\ panned' = TRUE
     ELSE IF Len(live') <= 2 /\ p \in marked
          THEN gesture' = [kind |-> "pan", pointer |-> p] /\ panned' = FALSE
          ELSE UNCHANGED <<gesture, panned>>

PinchBegins(p) == BeginsPinch(Tracked(p))

\* Mutation of DragAfterPress: a pinch does not take over from a drag.
DragAfterPressKept(p, d) == d

\* cancelDrag runs exactly when the event began a pinch; d is the drag by then.
DragAfterPress(p, d) == IF PinchBegins(p) THEN NoDrag ELSE d

\* Mutation of HotAfterPress: cancelDrag forgets the simulation.
HotAfterPressKept(p, d, h) == h

\* It cools the simulation, h, if there was a drag to cancel.
HotAfterPress(p, d, h) == h /\ ~(PinchBegins(p) /\ d # NoDrag)

\* For the presses in flight a new one may be the other finger of a pinch, or
\* a press on a body.
HandDown(p, t) ==
  /\ down' = [down EXCEPT ![p] = t]
  /\ shared' = shared \cup {q \in Members(Tracked(p)) : PinchBegins(p) /\ (q = p \/ IsDown(q))}
  /\ crossed' = crossed \cup {q \in Pointers : t \in Bodies /\ IsDown(q)}
  /\ UNCHANGED <<far, astray>>

\* On the background: markBackgroundPointer, then the canvas.
PressBackground(p) ==
  /\ click = NoClick
  /\ ~IsDown(p)
  /\ HandDown(p, Background)
  /\ ViewDown(p, background \cup {p})
  /\ drag' = DragAfterPress(p, drag)
  /\ hot' = HotAfterPress(p, drag, hot)
  /\ UNCHANGED <<dragged, pinned, click, selection>>

\* On a body: handleBodyPointerDown takes the drag whoever had it, and a pinch
\* this press begins cancels it again. The body stays pinned either way.
PressBody(p, b) ==
  LET taken == [pointer |-> p, body |-> b, fresh |-> TRUE]
  IN  /\ click = NoClick
      /\ ~IsDown(p)
      /\ HandDown(p, b)
      /\ ViewDown(p, background)
      /\ drag' = DragAfterPress(p, taken)
      /\ hot' = HotAfterPress(p, taken, TRUE)
      /\ dragged' = FALSE
      /\ pinned' = pinned \cup {b}
      /\ UNCHANGED <<click, selection>>

\* On an edge: only the canvas has a handler.
PressEdge(p, e) ==
  /\ click = NoClick
  /\ ~IsDown(p)
  /\ HandDown(p, e)
  /\ ViewDown(p, background)
  /\ drag' = DragAfterPress(p, drag)
  /\ hot' = HotAfterPress(p, drag, hot)
  /\ UNCHANGED <<dragged, pinned, click, selection>>

-----------------------------------------------------------------------------
(* pointermove, beyond the slop or within it. A mouse also moves while no  *)
(* button is down.                                                         *)

DraggedBy(p) == drag # NoDrag /\ drag.pointer = p

\* Both handlers run; each ignores a pointer that is not its own.
Move(p, beyond) ==
  /\ click = NoClick
  /\ IsDown(p) \/ p \in Mice
  /\ far' = IF beyond /\ IsDown(p) THEN far \cup {p} ELSE far
  /\ pinned' = IF DraggedBy(p) /\ drag.fresh THEN pinned \cup {drag.body} ELSE pinned
  /\ dragged' = (dragged \/ (beyond /\ DraggedBy(p)))
  /\ panned' = (panned \/ (beyond /\ gesture.kind = "pan" /\ p \in Users(gesture)))
  /\ UNCHANGED <<down, shared, crossed, astray, click, live, background, gesture,
                 drag, hot, selection>>

-----------------------------------------------------------------------------
(* pointerup and pointercancel.                                            *)

Place(s, p) == CHOOSE i \in DOMAIN s : s[i] = p

\* Map.delete.
Without(s, p) ==
  IF p \in Members(s)
  THEN [i \in 1..(Len(s) - 1) |-> IF i < Place(s, p) THEN s[i] ELSE s[i + 1]]
  ELSE s

\* Mutation of GestureAfter: a pinch goes on with the finger that was lifted.
GestureAfterLifted(g, remaining, p) ==
  IF g.kind = "pinch" /\ remaining # <<>> THEN [kind |-> "pan", pointer |-> p] ELSE NoGesture

\* The gesture ends whichever pointer was lifted; a pinch goes on as a pan of
\* the first pointer that remains.
GestureAfter(g, remaining, p) ==
  IF g.kind = "pinch" /\ remaining # <<>>
  THEN [kind |-> "pan", pointer |-> Head(remaining)]
  ELSE NoGesture

\* Mutation of Unmarked: only livePointers forgets the pointer.
StillMarked(p) == background

Unmarked(p) == background \ {p}

\* handlePointerUp of useForceLayout, then of useViewport.
CanvasUp(p) ==
  /\ drag' = IF DraggedBy(p) THEN NoDrag ELSE drag
  /\ hot' = (hot /\ ~DraggedBy(p))
  /\ live' = Without(live, p)
  /\ background' = Unmarked(p)
  /\ gesture' = GestureAfter(gesture, live', p)
  /\ UNCHANGED <<panned, dragged, pinned>>

\* What the browser may report after p is lifted: a click on what it was
\* pressed on, if that is still there. A finger's tap need not become one, nor
\* does a mouse that was not captured and has left the edge.
ClicksAfter(p) ==
  LET press == [on |-> down[p], moved |-> p \in far,
                shared |-> p \in shared, crossed |-> p \in crossed]
  IN  {c \in {press, NoClick} :
         /\ c = press => down[p] # Gone
         /\ c = NoClick => p \in Touches \/ down[p] \in Edges \cup {Gone}}

\* The press is over, and with it what is remembered of it.
HandUp(p) ==
  /\ down' = [down EXCEPT ![p] = Up]
  /\ far' = far \ {p}
  /\ shared' = shared \ {p}
  /\ crossed' = crossed \ {p}

Lift(p) ==
  /\ click = NoClick
  /\ IsDown(p)
  /\ HandUp(p)
  /\ click' \in ClicksAfter(p)
  /\ CanvasUp(p)
  /\ UNCHANGED <<astray, selection>>

\* A pointer nothing captures is released where the canvas does not hear it.
LiftElsewhere(p) ==
  /\ click = NoClick
  /\ IsDown(p)
  /\ ~IsCaptured(p)
  /\ HandUp(p)
  /\ astray' = TRUE
  /\ UNCHANGED <<click, viewVars, simVars, selection>>

\* A button pressed outside the canvas is released over it.
LiftFromElsewhere(p) ==
  /\ click = NoClick
  /\ p \in Mice
  /\ ~IsDown(p)
  /\ astray' = TRUE
  /\ CanvasUp(p)
  /\ UNCHANGED <<down, far, shared, crossed, click, selection>>

-----------------------------------------------------------------------------
(* click and dblclick.                                                     *)

\* Mutation of Selects: no guard against what was just moved.
SelectsAlways(t) == t # Background

\* select of Graph.tsx.
Selects(t) == t # Background /\ ~dragged

\* Mutation of Clears: no guard against a pan.
ClearsAlways(t) == t = Background

\* clearSelection of Graph.tsx.
Clears(t) == t = Background /\ ~panned

\* The click, and the double click it may complete on a body: releaseBody.
Click(double) ==
  /\ click # NoClick
  /\ double => click.on \in Bodies
  /\ selection' = IF Selects(click.on) THEN click.on
                  ELSE IF Clears(click.on) THEN None
                  ELSE selection
  /\ pinned' = IF double THEN pinned \ {click.on} ELSE pinned
  /\ click' = NoClick
  /\ UNCHANGED <<handVars, viewVars, drag, dragged, hot>>

-----------------------------------------------------------------------------
(* A new document: a new layout, a new simulation, and no selection. Its   *)
(* bodies have no coordinates until the effect has run, so for one render  *)
(* neither circles nor lines are drawn: the elements pointers were pressed *)
(* on, and with them the captures, are gone. The hooks keep their refs.    *)

LoadDocument ==
  /\ click = NoClick
  /\ down' = [p \in Pointers |-> IF down[p] \in Bodies \cup Edges THEN Gone ELSE down[p]]
  /\ drag' = IF drag = NoDrag THEN NoDrag ELSE [drag EXCEPT !.fresh = FALSE]
  /\ pinned' = {}
  /\ hot' = FALSE
  /\ selection' = None
  /\ UNCHANGED <<far, shared, crossed, astray, click, viewVars, dragged>>

Next ==
  \/ \E p \in Pointers :
       \/ PressBackground(p)
       \/ \E b \in Bodies : PressBody(p, b)
       \/ \E e \in Edges : PressEdge(p, e)
       \/ \E beyond \in BOOLEAN : Move(p, beyond)
       \/ Lift(p)
       \/ LiftElsewhere(p)
       \/ LiftFromElsewhere(p)
  \/ \E double \in BOOLEAN : Click(double)
  \/ LoadDocument

Spec == Init /\ [][Next]_vars

-----------------------------------------------------------------------------
(* Properties.                                                             *)

\* A pointer that drags a body neither pans nor pinches, and no gesture follows
\* one that has left or follows one twice, whatever order fingers come and go
\* in: the promise of Graph.tsx that the two gestures "can never both act on
\* one pointer". It needs every release to be heard.
OneRolePerPointer ==
  ~astray => /\ drag # NoDrag => drag.pointer \notin Users(gesture)
             /\ \A p \in Users(gesture) : IsDown(p)
             /\ gesture.kind = "pinch" => gesture.first # gesture.second

\* When every pointer is up, both hooks are back where they began: nothing is
\* tracked, no gesture or drag goes on, and the simulation may cool.
AtRest ==
  (~astray /\ \A p \in Pointers : ~IsDown(p)) =>
    /\ live = <<>> /\ background = {} /\ gesture = NoGesture
    /\ drag = NoDrag /\ ~hot

\* The simulation is kept hot exactly while a body of the current layout is
\* dragged, and that body is under a pointer that is down: no order of
\* presses, pinches and new documents leaves it running for ever.
HeatFollowsDrag ==
  /\ hot <=> (drag # NoDrag /\ drag.fresh)
  /\ hot => down[drag.pointer] = drag.body

\* A selection is cleared by a press that stayed put and was alone: never at
\* the end of a pan, never by a finger of a pinch.
OnlyATapClears ==
  [][(click # NoClick /\ ~astray /\ selection' # selection /\ selection' = None)
       => ~click.moved /\ ~click.shared]_vars

\* Dropping a body does not select it, unless the press became part of a pinch
\* or another pointer went down on a body meanwhile.
DroppingDoesNotSelect ==
  [][(/\ click # NoClick
      /\ click.on \in Bodies
      /\ click.moved /\ ~click.shared /\ ~click.crossed) => UNCHANGED selection]_vars
=============================================================================
