------------------------- MODULE GraphGesturesProofs -------------------------
(***************************************************************************)
(* What holds on the canvas for any number of mice, fingers, bodies and    *)
(* edges. HeatFollowsDrag and, with the types, Tracking and Dragging hold  *)
(* whatever happens; Heard and Panning as long as the canvas hears of      *)
(* every press and release.                                                *)
(***************************************************************************)
EXTENDS GraphGestures, SequenceTheorems, TLAPS

\* What is remembered of a press is forgotten with it, and the canvas tracks
\* every pointer that is down.
Tracking ==
  /\ \A p \in Pointers : IsDown(p) => p \in Members(live)
  /\ \A p \in far \cup shared \cup crossed : IsDown(p)

\* A press on a body, alone among bodies and out of every pinch, still has the
\* drag, and draggedRef says whether it moved.
DragIsHeld ==
  \A p \in Pointers : (down[p] \in Bodies /\ p \notin shared /\ p \notin crossed)
    => drag # NoDrag /\ drag.pointer = p /\ (p \in far => dragged)

\* A click tells the same of the press it belongs to.
ClickTellsDrag ==
  (click # NoClick /\ click.on \in Bodies /\ click.moved /\ ~click.shared /\ ~click.crossed)
    => dragged

Dragging == DragIsHeld /\ ClickTellsDrag

\* As long as every press and release was heard, what the hooks hold is down,
\* a pinch is of the two pointers tracked first, and no pointer has two roles.
Heard ==
  ~astray =>
    /\ \A p \in Members(live) \cup background \cup Users(gesture) : IsDown(p)
    /\ drag # NoDrag => IsDown(drag.pointer) /\ drag.pointer \notin Users(gesture)
    /\ gesture.kind = "pinch" => /\ Len(live) > 1
                                 /\ gesture.first = live[1]
                                 /\ gesture.second = live[2]

\* pannedRef misses no pan: while it is down, the background is pressed by the
\* one pointer there is, which has not moved.
Panning ==
  ~astray =>
    /\ Len(live) > 1 => panned
    /\ \A p \in Pointers : (down[p] = Background /\ ~panned)
         => /\ gesture = [kind |-> "pan", pointer |-> p]
            /\ p \notin far /\ p \notin shared
    /\ (click # NoClick /\ click.on = Background /\ (click.moved \/ click.shared)) => panned

USE GestureAssumption

-----------------------------------------------------------------------------
(* The Map of the pointers that are tracked.                               *)

\* Map.set keeps the keys apart and adds one at the end.
LEMMA TrackedIs ==
  ASSUME live \in Seq(Pointers), NoRepeat(live), NEW p \in Pointers
  PROVE  /\ Tracked(p) \in Seq(Pointers)
         /\ NoRepeat(Tracked(p))
         /\ Members(Tracked(p)) = Members(live) \cup {p}
         /\ \A i \in DOMAIN live : Tracked(p)[i] = live[i]
         /\ p \in Members(live) => Tracked(p) = live
         /\ p \notin Members(live) => Len(Tracked(p)) = Len(live) + 1
<1>1. CASE p \in Members(live)
  BY <1>1 DEF Tracked
<1>2. CASE p \notin Members(live)
  <2>1. Tracked(p) = Append(live, p)
    BY <1>2 DEF Tracked
  <2>2. /\ Tracked(p) \in Seq(Pointers)
        /\ Len(Tracked(p)) = Len(live) + 1
        /\ \A i \in 1..Len(live) : Tracked(p)[i] = live[i]
        /\ Tracked(p)[Len(live) + 1] = p
    BY <2>1, AppendProperties
  <2>3. /\ DOMAIN Tracked(p) = 1..(Len(live) + 1)
        /\ DOMAIN live = 1..Len(live)
        /\ Len(live) \in Nat
    BY <2>2, LenProperties
  <2>4. NoRepeat(Tracked(p))
    BY <1>2, <2>2, <2>3 DEF NoRepeat, Members
  <2>5. Members(Tracked(p)) = Members(live) \cup {p}
    BY <2>2, <2>3 DEF Members
  <2>. QED BY <1>2, <2>2, <2>3, <2>4, <2>5
<1>. QED BY <1>1, <1>2

\* Map.delete takes one key out and keeps the order of the others.
LEMMA WithoutIs ==
  ASSUME NEW s \in Seq(Pointers), NoRepeat(s), NEW p \in Pointers
  PROVE  /\ Without(s, p) \in Seq(Pointers)
         /\ NoRepeat(Without(s, p))
         /\ Members(Without(s, p)) = Members(s) \ {p}
         /\ Len(Without(s, p)) <= Len(s)
         /\ (Len(s) > 1 /\ p = s[1]) => Without(s, p) # <<>> /\ Head(Without(s, p)) = s[2]
         /\ (Len(s) > 1 /\ p # s[1]) => Without(s, p) # <<>> /\ Head(Without(s, p)) = s[1]
<1>. DEFINE n == Len(s)
            k == Place(s, p)
            w == Without(s, p)
<1>1. n \in Nat /\ DOMAIN s = 1..n
  BY LenProperties
<1>2. CASE p \notin Members(s)
  <2>1. w = s
    BY <1>2 DEF Without
  <2>2. Members(s) = Members(s) \ {p}
    BY <1>2
  <2>3. n > 1 => s # <<>> /\ Head(s) = s[1] /\ p # s[1]
    BY <1>1, <1>2 DEF Members
  <2>. QED BY <1>1, <2>1, <2>2, <2>3
<1>3. CASE p \in Members(s)
  <2>1. k \in 1..n /\ s[k] = p
    BY <1>1, <1>3 DEF Members, Place
  <2>2. w = [i \in 1..(n - 1) |-> IF i < k THEN s[i] ELSE s[i + 1]]
    BY <1>3 DEF Without
  <2>3. \A i \in 1..n : s[i] \in Pointers
    BY <1>1, ElementOfSeq
  <2>4. n - 1 \in Nat
    BY <1>1, <2>1
  <2>. HIDE DEF k, n, w
  <2>5. \A i \in 1..(n - 1) : w[i] = IF i < k THEN s[i] ELSE s[i + 1]
    BY <2>2
  <2>6. w \in [1..(n - 1) -> Pointers]
    BY <1>1, <2>1, <2>2, <2>3
  <2>7. w \in Seq(Pointers) /\ Len(w) = n - 1 /\ DOMAIN w = 1..(n - 1)
    BY <2>4, <2>6
  <2>8. \A i, j \in 1..n : s[i] = s[j] => i = j
    BY <1>1 DEF NoRepeat
  <2>9. NoRepeat(w)
    BY <1>1, <2>1, <2>5, <2>7, <2>8 DEF NoRepeat
  <2>10. Members(w) \subseteq Members(s) \ {p}
    <3>. SUFFICES ASSUME NEW i \in 1..(n - 1) PROVE w[i] \in Members(s) \ {p}
      BY <2>7 DEF Members
    <3>1. PICK j \in 1..n : j # k /\ w[i] = s[j]
      BY <1>1, <2>1, <2>5
    <3>. QED BY <1>1, <2>1, <2>8, <3>1 DEF Members
  <2>11. Members(s) \ {p} \subseteq Members(w)
    <3>. SUFFICES ASSUME NEW i \in 1..n, s[i] # p PROVE s[i] \in Members(w)
      BY <1>1 DEF Members
    <3>1. PICK j \in 1..(n - 1) : w[j] = s[i]
      <4>1. CASE i < k
        <5>1. i \in 1..(n - 1) /\ w[i] = s[i]
          BY <1>1, <2>1, <2>5, <4>1
        <5>. QED BY <5>1
      <4>2. CASE i > k
        <5>1. i - 1 \in 1..(n - 1) /\ w[i - 1] = s[i]
          BY <1>1, <2>1, <2>5, <4>2
        <5>. QED BY <5>1
      <4>. QED BY <1>1, <2>1, <4>1, <4>2
    <3>. QED BY <2>7, <3>1 DEF Members
  <2>12. n > 1 => w # <<>> /\ Head(w) = w[1] /\ 1 \in 1..(n - 1)
    BY <1>1, <2>7
  <2>13. p = s[1] /\ n > 1 => k = 1 /\ w[1] = s[2]
    BY <1>1, <2>1, <2>5, <2>8
  <2>14. p # s[1] /\ n > 1 => w[1] = s[1]
    BY <1>1, <2>1, <2>5
  <2>. QED BY <1>1, <2>7, <2>9, <2>10, <2>11, <2>12, <2>13, <2>14 DEF n, w
<1>. QED BY <1>2, <1>3

\* What a pan and a pinch answer.
LEMMA UsersAre ==
  /\ \A g \in Pans : g.kind = "pan" /\ Users(g) = {g.pointer} /\ g.pointer \in Pointers
  /\ \A g \in Pinches : /\ g.kind = "pinch" /\ Users(g) = {g.first, g.second}
                        /\ g.first \in Pointers /\ g.second \in Pointers
  /\ NoGesture.kind = None /\ Users(NoGesture) = {}
  /\ None # "pan" /\ None # "pinch"
BY DEF Pans, Pinches, Users, NoGesture, None

-----------------------------------------------------------------------------
(* Types.                                                                  *)

LEMMA ViewDownTypes ==
  ASSUME TypeOK, NEW p \in Pointers, NEW marked \in SUBSET Pointers, ViewDown(p, marked)
  PROVE  /\ live' \in Seq(Pointers) /\ NoRepeat(live')
         /\ background' \subseteq Pointers
         /\ gesture' \in Pans \cup Pinches \cup {NoGesture}
         /\ panned' \in BOOLEAN
<1>1. live' \in Seq(Pointers) /\ NoRepeat(live')
  BY TrackedIs DEF ViewDown, TypeOK
<1>2. CASE BeginsPinch(live')
  <2>1. live'[1] \in Pointers /\ live'[2] \in Pointers
    BY <1>1, <1>2, ElementOfSeq DEF BeginsPinch
  <2>. QED BY <1>1, <1>2, <2>1 DEF ViewDown, Pinches
<1>3. CASE ~BeginsPinch(live')
  <2>1. background' = marked
    BY DEF ViewDown
  <2>2. CASE gesture' = [kind |-> "pan", pointer |-> p] /\ panned' = FALSE
    BY <1>1, <2>1, <2>2 DEF Pans
  <2>3. CASE UNCHANGED <<gesture, panned>>
    BY <1>1, <2>1, <2>3 DEF TypeOK
  <2>. QED BY <1>3, <2>2, <2>3 DEF ViewDown
<1>. QED BY <1>2, <1>3

LEMMA HandDownTypes ==
  ASSUME TypeOK, NEW p \in Pointers, NEW t \in Targets, HandDown(p, t)
  PROVE  /\ down' \in [Pointers -> Targets \cup {Up, Gone}]
         /\ far' \subseteq Pointers /\ shared' \subseteq Pointers /\ crossed' \subseteq Pointers
         /\ astray' \in BOOLEAN
<1>1. Members(Tracked(p)) \subseteq Pointers
  <2>1. Members(live) \subseteq Pointers
    BY ElementOfSeq, LenProperties DEF TypeOK, Members
  <2>. QED BY <2>1, TrackedIs DEF TypeOK
<1>. QED BY <1>1 DEF HandDown, TypeOK

LEMMA CanvasUpTypes ==
  ASSUME TypeOK, NEW p \in Pointers, CanvasUp(p)
  PROVE  /\ live' \in Seq(Pointers) /\ NoRepeat(live')
         /\ background' \subseteq Pointers
         /\ gesture' \in Pans \cup Pinches \cup {NoGesture}
         /\ drag' \in Drags \cup {NoDrag}
         /\ hot' \in BOOLEAN
         /\ UNCHANGED <<panned, dragged, pinned>>
<1>1. live' \in Seq(Pointers) /\ NoRepeat(live')
  BY WithoutIs DEF CanvasUp, TypeOK
<1>2. live' # <<>> => Head(live') \in Pointers
  BY <1>1
<1>3. gesture' \in Pans \cup Pinches \cup {NoGesture}
  BY <1>2 DEF CanvasUp, GestureAfter, Pans
<1>. QED BY <1>1, <1>3 DEF CanvasUp, Unmarked, TypeOK

LEMMA HandUpTypes ==
  ASSUME TypeOK, NEW p \in Pointers, HandUp(p)
  PROVE  /\ down' \in [Pointers -> Targets \cup {Up, Gone}]
         /\ far' \subseteq Pointers /\ shared' \subseteq Pointers /\ crossed' \subseteq Pointers
BY DEF HandUp, TypeOK

\* A press, whatever it is on.
Press(p, t) ==
  \/ t = Background /\ PressBackground(p)
  \/ t \in Bodies /\ PressBody(p, t)
  \/ t \in Edges /\ PressEdge(p, t)

\* What every press does, and what only a press on a body does.
LEMMA PressIs ==
  ASSUME TypeOK, NEW p \in Pointers, NEW t \in Targets, Press(p, t)
  PROVE  /\ click = NoClick /\ ~IsDown(p)
         /\ HandDown(p, t)
         /\ \E marked \in SUBSET Pointers : /\ marked \subseteq background \cup {p}
                                            /\ t = Background => p \in marked
                                            /\ t # Background => marked = background
                                            /\ ViewDown(p, marked)
         /\ t \notin Bodies => /\ drag' = DragAfterPress(p, drag)
                               /\ hot' = HotAfterPress(p, drag, hot)
                               /\ UNCHANGED <<dragged, pinned>>
         /\ t \in Bodies =>
              LET taken == [pointer |-> p, body |-> t, fresh |-> TRUE]
              IN  /\ drag' = DragAfterPress(p, taken)
                  /\ hot' = HotAfterPress(p, taken, TRUE)
                  /\ dragged' = FALSE
                  /\ pinned' = pinned \cup {t}
         /\ UNCHANGED <<click, selection>>
<1>1. CASE t = Background /\ PressBackground(p)
  BY <1>1 DEF PressBackground, TypeOK
<1>2. CASE t \in Bodies /\ PressBody(p, t)
  BY <1>2 DEF PressBody, TypeOK
<1>3. CASE t \in Edges /\ PressEdge(p, t)
  BY <1>3 DEF PressEdge, TypeOK
<1>. QED BY <1>1, <1>2, <1>3 DEF Press

LEMMA NextIs ==
  ASSUME [Next]_vars
  PROVE  \/ \E p \in Pointers, t \in Targets : Press(p, t)
         \/ \E p \in Pointers, beyond \in BOOLEAN : Move(p, beyond)
         \/ \E p \in Pointers : Lift(p) \/ LiftElsewhere(p) \/ LiftFromElsewhere(p)
         \/ \E double \in BOOLEAN : Click(double)
         \/ LoadDocument
         \/ UNCHANGED vars
BY DEF Next, Press, Targets

\* Every variable keeps its type.
THEOREM GestureTypeCorrect == Spec => []TypeOK
<1>1. Init => TypeOK
  <2>. SUFFICES ASSUME Init PROVE TypeOK
    OBVIOUS
  <2>1. down \in [Pointers -> Targets \cup {Up, Gone}]
    BY DEF Init
  <2>2. live \in Seq(Pointers) /\ NoRepeat(live)
    BY DEF Init, NoRepeat
  <2>. QED BY <2>1, <2>2 DEF Init, TypeOK
<1>2. TypeOK /\ [Next]_vars => TypeOK'
  <2>. SUFFICES ASSUME TypeOK, [Next]_vars PROVE TypeOK'
    OBVIOUS
  <2>1. ASSUME NEW p \in Pointers, NEW t \in Targets, Press(p, t) PROVE TypeOK'
    <3>1. /\ live' \in Seq(Pointers) /\ NoRepeat(live')
          /\ background' \subseteq Pointers
          /\ gesture' \in Pans \cup Pinches \cup {NoGesture}
          /\ panned' \in BOOLEAN
      BY <2>1, PressIs, ViewDownTypes
    <3>2. /\ down' \in [Pointers -> Targets \cup {Up, Gone}]
          /\ far' \subseteq Pointers /\ shared' \subseteq Pointers /\ crossed' \subseteq Pointers
          /\ astray' \in BOOLEAN
      BY <2>1, PressIs, HandDownTypes
    <3>3. CASE t \in Bodies
      <4>1. [pointer |-> p, body |-> t, fresh |-> TRUE] \in Drags
        BY <3>3 DEF Drags
      <4>2. /\ drag' = DragAfterPress(p, [pointer |-> p, body |-> t, fresh |-> TRUE])
            /\ hot' = HotAfterPress(p, [pointer |-> p, body |-> t, fresh |-> TRUE], TRUE)
            /\ dragged' = FALSE /\ pinned' = pinned \cup {t}
            /\ UNCHANGED <<click, selection>>
        BY <2>1, <3>3, PressIs
      <4>3. drag' \in Drags \cup {NoDrag} /\ hot' \in BOOLEAN
        BY <4>1, <4>2 DEF DragAfterPress, HotAfterPress
      <4>. QED BY <3>1, <3>2, <3>3, <4>2, <4>3 DEF TypeOK
    <3>4. CASE t \notin Bodies
      <4>1. /\ drag' \in Drags \cup {NoDrag} /\ hot' \in BOOLEAN
            /\ dragged' \in BOOLEAN /\ pinned' \subseteq Bodies
            /\ UNCHANGED <<click, selection>>
        BY <2>1, <3>4, PressIs DEF TypeOK, DragAfterPress, HotAfterPress
      <4>. QED BY <3>1, <3>2, <4>1 DEF TypeOK
    <3>. QED BY <3>3, <3>4
  <2>2. ASSUME NEW p \in Pointers, NEW beyond \in BOOLEAN, Move(p, beyond) PROVE TypeOK'
    <3>1. far' \subseteq Pointers /\ pinned' \subseteq Bodies
      BY <2>2 DEF Move, TypeOK, DraggedBy, Drags
    <3>2. dragged' \in BOOLEAN /\ panned' \in BOOLEAN
      BY <2>2 DEF Move, TypeOK
    <3>. QED BY <2>2, <3>1, <3>2 DEF Move, TypeOK
  <2>3. ASSUME NEW p \in Pointers, Lift(p) PROVE TypeOK'
    <3>1. click' \in Clicks \cup {NoClick}
      <4>1. down[p] # Gone /\ IsDown(p) => down[p] \in Targets
        BY DEF TypeOK, IsDown
      <4>2. CASE click' = NoClick
        BY <4>2
      <4>3. CASE click' # NoClick
        <5>1. /\ down[p] \in Targets
              /\ click' = [on |-> down[p], moved |-> p \in far,
                           shared |-> p \in shared, crossed |-> p \in crossed]
          BY <2>3, <4>1, <4>3 DEF Lift, ClicksAfter
        <5>. QED BY <5>1 DEF Clicks
      <4>. QED BY <4>2, <4>3
    <3>. QED BY <2>3, <3>1, HandUpTypes, CanvasUpTypes DEF Lift, TypeOK
  <2>4. ASSUME NEW p \in Pointers, LiftElsewhere(p) PROVE TypeOK'
    BY <2>4, HandUpTypes DEF LiftElsewhere, TypeOK, viewVars, simVars
  <2>5. ASSUME NEW p \in Pointers, LiftFromElsewhere(p) PROVE TypeOK'
    BY <2>5, CanvasUpTypes DEF LiftFromElsewhere, TypeOK
  <2>6. ASSUME NEW double \in BOOLEAN, Click(double) PROVE TypeOK'
    <3>1. click \in Clicks
      BY <2>6 DEF Click, TypeOK
    <3>2. selection' \in Bodies \cup Edges \cup {None}
      BY <2>6, <3>1 DEF Click, Selects, Clicks, Targets, TypeOK
    <3>. QED BY <2>6, <3>2 DEF Click, TypeOK, handVars, viewVars
  <2>7. CASE LoadDocument
    <3>1. drag' \in Drags \cup {NoDrag}
      BY <2>7 DEF LoadDocument, TypeOK, Drags
    <3>2. down' \in [Pointers -> Targets \cup {Up, Gone}]
      BY <2>7 DEF LoadDocument, TypeOK
    <3>. QED BY <2>7, <3>1, <3>2 DEF LoadDocument, TypeOK, viewVars
  <2>8. CASE UNCHANGED vars
    BY <2>8 DEF vars, handVars, viewVars, simVars, TypeOK, NoRepeat
  <2>. QED BY <2>1, <2>2, <2>3, <2>4, <2>5, <2>6, <2>7, <2>8, NextIs
<1>. QED BY <1>1, <1>2, PTL DEF Spec

-----------------------------------------------------------------------------
(* The heat of the simulation.                                             *)

LEMMA DragsAre ==
  /\ \A d \in Drags : d # NoDrag /\ d.pointer \in Pointers /\ d.body \in Bodies /\ d.fresh \in BOOLEAN
  /\ \A p \in Pointers, b \in Bodies : [pointer |-> p, body |-> b, fresh |-> TRUE] \in Drags
<1>1. ASSUME NEW d \in Drags PROVE d # NoDrag
  <2>1. d.pointer # None /\ NoDrag.pointer = None
    BY DEF Drags, Pointers, NoDrag
  <2>. QED BY <2>1
<1>. QED BY <1>1 DEF Drags

\* A press takes, keeps or cancels the drag.
LEMMA PressDrag ==
  ASSUME TypeOK, NEW p \in Pointers, NEW t \in Targets, Press(p, t)
  PROVE  \/ PinchBegins(p) /\ drag' = NoDrag
         \/ /\ ~PinchBegins(p) /\ t \in Bodies
            /\ drag' = [pointer |-> p, body |-> t, fresh |-> TRUE]
         \/ ~PinchBegins(p) /\ t \notin Bodies /\ drag' = drag
BY PressIs DEF DragAfterPress

\* The simulation is hot exactly while a body of the current layout is dragged.
THEOREM HeatAlways == Spec => []HeatFollowsDrag
<1>1. Init => HeatFollowsDrag
  BY DEF Init, HeatFollowsDrag
<1>2. TypeOK /\ HeatFollowsDrag /\ [Next]_vars => HeatFollowsDrag'
  <2>. SUFFICES ASSUME TypeOK, HeatFollowsDrag, [Next]_vars PROVE HeatFollowsDrag'
    OBVIOUS
  <2>0. hot => drag \in Drags /\ down[drag.pointer] = drag.body /\ drag.body \in Bodies
    BY DragsAre DEF HeatFollowsDrag, TypeOK
  <2>1. ASSUME NEW p \in Pointers, NEW t \in Targets, Press(p, t) PROVE HeatFollowsDrag'
    <3>1. down' = [down EXCEPT ![p] = t] /\ down[p] = Up
      BY <2>1, PressIs DEF HandDown, IsDown
    <3>2. hot => drag.pointer # p
      BY <2>0, <3>1
    <3>3. CASE t \in Bodies
      <4>. DEFINE taken == [pointer |-> p, body |-> t, fresh |-> TRUE]
      <4>1. drag' = DragAfterPress(p, taken) /\ hot' = HotAfterPress(p, taken, TRUE)
        BY <2>1, <3>3, PressIs
      <4>2. taken # NoDrag
        BY <3>3, DragsAre
      <4>3. CASE PinchBegins(p)
        BY <4>1, <4>2, <4>3 DEF DragAfterPress, HotAfterPress, HeatFollowsDrag
      <4>4. CASE ~PinchBegins(p)
        <5>1. drag' = taken /\ hot' = TRUE
          BY <4>1, <4>4 DEF DragAfterPress, HotAfterPress
        <5>2. down'[p] = t
          BY <3>1 DEF TypeOK
        <5>. QED BY <4>2, <5>1, <5>2 DEF HeatFollowsDrag
      <4>. QED BY <4>3, <4>4
    <3>4. CASE t \notin Bodies
      <4>1. drag' = DragAfterPress(p, drag) /\ hot' = HotAfterPress(p, drag, hot)
        BY <2>1, <3>4, PressIs
      <4>2. CASE PinchBegins(p)
        BY <4>1, <4>2 DEF DragAfterPress, HotAfterPress, HeatFollowsDrag
      <4>3. CASE ~PinchBegins(p)
        <5>1. drag' = drag /\ hot' = hot
          BY <4>1, <4>3 DEF DragAfterPress, HotAfterPress, TypeOK
        <5>2. hot => down'[drag.pointer] = down[drag.pointer]
          BY <2>0, <3>1, <3>2, DragsAre DEF TypeOK
        <5>. QED BY <2>0, <5>1, <5>2 DEF HeatFollowsDrag
      <4>. QED BY <4>2, <4>3
    <3>. QED BY <3>3, <3>4
  <2>2. ASSUME NEW p \in Pointers, CanvasUp(p), \A q \in Pointers : q # p => down'[q] = down[q]
        PROVE  HeatFollowsDrag'
    <3>1. CASE DraggedBy(p)
      BY <2>2, <3>1 DEF CanvasUp, HeatFollowsDrag
    <3>2. CASE ~DraggedBy(p)
      <4>1. drag' = drag /\ hot' = hot
        BY <2>2, <3>2 DEF CanvasUp, TypeOK
      <4>2. hot => drag.pointer \in Pointers \ {p}
        BY <2>0, <3>2, DragsAre DEF DraggedBy
      <4>. QED BY <2>2, <4>1, <4>2 DEF HeatFollowsDrag
    <3>. QED BY <3>1, <3>2
  <2>3. ASSUME NEW p \in Pointers, Lift(p) \/ LiftFromElsewhere(p) PROVE HeatFollowsDrag'
    BY <2>2, <2>3 DEF Lift, LiftFromElsewhere, HandUp, TypeOK
  <2>4. ASSUME NEW p \in Pointers, LiftElsewhere(p) PROVE HeatFollowsDrag'
    <3>1. down' = [down EXCEPT ![p] = Up] /\ drag' = drag /\ hot' = hot
      BY <2>4 DEF LiftElsewhere, HandUp, simVars
    <3>2. hot => drag.pointer # p /\ drag.pointer \in Pointers
      BY <2>0, <2>4, DragsAre DEF LiftElsewhere, IsCaptured
    <3>. QED BY <3>1, <3>2 DEF HeatFollowsDrag, TypeOK
  <2>5. CASE LoadDocument
    BY <2>5, DragsAre DEF LoadDocument, HeatFollowsDrag, TypeOK, Drags
  <2>6. CASE \/ \E p \in Pointers, beyond \in BOOLEAN : Move(p, beyond)
             \/ \E double \in BOOLEAN : Click(double)
             \/ UNCHANGED vars
    BY <2>6 DEF Move, Click, vars, handVars, simVars, HeatFollowsDrag
  <2>. QED BY <2>1, <2>3, <2>4, <2>5, <2>6, NextIs
<1>. QED BY <1>1, <1>2, GestureTypeCorrect, PTL DEF Spec

-----------------------------------------------------------------------------
(* Presses and what is remembered of them.                                 *)

\* What is remembered of a press ends with it, and the canvas tracks every
\* pointer that is down.
THEOREM TrackingAlways == Spec => []Tracking
<1>1. Init => Tracking
  BY DEF Init, Tracking, IsDown
<1>2. TypeOK /\ Tracking /\ [Next]_vars => Tracking'
  <2>. SUFFICES ASSUME TypeOK, Tracking, [Next]_vars PROVE Tracking'
    OBVIOUS
  <2>. USE DEF Tracking, IsDown
  <2>1. ASSUME NEW p \in Pointers, NEW t \in Targets, Press(p, t) PROVE Tracking'
    <3>1. down' = [down EXCEPT ![p] = t] /\ t # Up
      <4>1. HandDown(p, t)
        BY <2>1, PressIs
      <4>2. t # Up
        BY DEF Targets, Background, Up
      <4>. QED BY <4>1, <4>2 DEF HandDown
    <3>2. Members(live') = Members(live) \cup {p}
      BY <2>1, PressIs, TrackedIs DEF ViewDown, TypeOK
    <3>3. \A q \in Pointers : down'[q] # Up <=> q = p \/ down[q] # Up
      BY <3>1 DEF TypeOK
    <3>4. /\ far' = far /\ \A q \in shared' : q \in shared \/ q = p \/ IsDown(q)
          /\ \A q \in crossed' : q \in crossed \/ IsDown(q)
      <4>1. HandDown(p, t)
        BY <2>1, PressIs
      <4>. QED BY <4>1 DEF HandDown
    <3>5. far' \cup shared' \cup crossed' \subseteq Pointers
      BY <2>1, PressIs, HandDownTypes
    <3>. QED BY <3>2, <3>3, <3>4, <3>5
  <2>2. ASSUME NEW p \in Pointers, HandUp(p), Members(live) \ {p} \subseteq Members(live')
        PROVE  Tracking'
    BY <2>2 DEF HandUp, TypeOK
  <2>3. ASSUME NEW p \in Pointers, Lift(p) PROVE Tracking'
    <3>1. Members(live') = Members(live) \ {p}
      BY <2>3, WithoutIs DEF Lift, CanvasUp, TypeOK
    <3>. QED BY <2>2, <2>3, <3>1 DEF Lift
  <2>4. ASSUME NEW p \in Pointers, LiftElsewhere(p) PROVE Tracking'
    BY <2>2, <2>4 DEF LiftElsewhere, viewVars, Members
  <2>5. ASSUME NEW p \in Pointers, LiftFromElsewhere(p) PROVE Tracking'
    <3>1. Members(live') = Members(live) \ {p}
      BY <2>5, WithoutIs DEF LiftFromElsewhere, CanvasUp, TypeOK
    <3>. QED BY <2>5, <3>1 DEF LiftFromElsewhere
  <2>6. ASSUME NEW p \in Pointers, NEW beyond \in BOOLEAN, Move(p, beyond) PROVE Tracking'
    BY <2>6 DEF Move, Members
  <2>7. CASE LoadDocument
    <3>1. \A p \in Pointers : down'[p] # Up <=> down[p] # Up
      BY <2>7 DEF LoadDocument, TypeOK, Gone, Up
    <3>. QED BY <2>7, <3>1 DEF LoadDocument, viewVars, Members, TypeOK
  <2>8. CASE (\E double \in BOOLEAN : Click(double)) \/ UNCHANGED vars
    BY <2>8 DEF Click, vars, handVars, viewVars, Members
  <2>. QED BY <2>1, <2>3, <2>4, <2>5, <2>6, <2>7, <2>8, NextIs
<1>. QED BY <1>1, <1>2, GestureTypeCorrect, PTL DEF Spec

-----------------------------------------------------------------------------
(* Bodies.                                                                 *)

\* A press that is no part of a pinch and alone among bodies has the drag.
THEOREM DraggingAlways == Spec => []Dragging
<1>1. Init => Dragging
  BY DEF Init, Dragging, DragIsHeld, ClickTellsDrag, Up
<1>2. TypeOK /\ Tracking /\ Dragging /\ [Next]_vars => Dragging'
  <2>. SUFFICES ASSUME TypeOK, Tracking, Dragging, [Next]_vars PROVE Dragging'
    OBVIOUS
  <2>. USE DEF Dragging, DragIsHeld, ClickTellsDrag
  <2>1. ASSUME NEW p \in Pointers, NEW t \in Targets, Press(p, t) PROVE Dragging'
    <3>1. click' = NoClick /\ HandDown(p, t) /\ down[p] = Up
      BY <2>1, PressIs DEF IsDown
    <3>2. SUFFICES ASSUME NEW q \in Pointers,
                          down'[q] \in Bodies, q \notin shared', q \notin crossed'
                   PROVE  drag' # NoDrag /\ drag'.pointer = q /\ (q \in far' => dragged')
      BY <3>1
    <3>3. q \notin shared /\ q \notin crossed /\ far' = far
      BY <3>1, <3>2 DEF HandDown
    <3>4. p \in Members(Tracked(p)) /\ Members(live) \subseteq Members(Tracked(p))
      BY TrackedIs DEF TypeOK
    <3>5. CASE q = p
      <4>1. t \in Bodies
        BY <3>1, <3>2, <3>5 DEF HandDown, TypeOK
      <4>2. ~PinchBegins(p)
        BY <3>1, <3>2, <3>4, <3>5 DEF HandDown
      <4>3. drag' = [pointer |-> p, body |-> t, fresh |-> TRUE]
        BY <2>1, <4>1, <4>2, PressDrag
      <4>4. p \notin far'
        BY <3>1, <3>3 DEF Tracking, IsDown
      <4>. QED BY <3>5, <4>1, <4>3, <4>4, DragsAre
    <3>6. CASE q # p
      <4>1. down[q] \in Bodies /\ IsDown(q)
        BY <3>1, <3>2, <3>6 DEF HandDown, TypeOK, IsDown
      <4>2. t \notin Bodies
        BY <3>1, <3>2, <4>1 DEF HandDown
      <4>3. ~PinchBegins(p)
        BY <3>1, <3>2, <3>4, <4>1 DEF HandDown, Tracking
      <4>4. drag' = drag /\ dragged' = dragged
        BY <2>1, <4>2, <4>3, PressDrag, PressIs
      <4>. QED BY <3>3, <4>1, <4>4
    <3>. QED BY <3>5, <3>6
  <2>2. ASSUME NEW p \in Pointers, NEW beyond \in BOOLEAN, Move(p, beyond) PROVE Dragging'
    BY <2>2 DEF Move, DraggedBy
  <2>3. ASSUME NEW p \in Pointers, HandUp(p), CanvasUp(p) PROVE DragIsHeld'
    <3>1. SUFFICES ASSUME NEW q \in Pointers,
                          down'[q] \in Bodies, q \notin shared', q \notin crossed'
                   PROVE  drag' # NoDrag /\ drag'.pointer = q /\ (q \in far' => dragged')
      OBVIOUS
    <3>2. q # p
      BY <2>3, <3>1 DEF HandUp, TypeOK
    <3>3. drag # NoDrag /\ drag.pointer = q /\ (q \in far => dragged)
      BY <2>3, <3>1, <3>2 DEF HandUp, TypeOK
    <3>. QED BY <2>3, <3>2, <3>3 DEF HandUp, CanvasUp, DraggedBy
  <2>4. ASSUME NEW p \in Pointers, Lift(p) PROVE Dragging'
    <3>1. HandUp(p) /\ CanvasUp(p) /\ dragged' = dragged
      BY <2>4 DEF Lift, CanvasUp
    <3>2. click' = NoClick \/ click' = [on |-> down[p], moved |-> p \in far,
                                       shared |-> p \in shared, crossed |-> p \in crossed]
      BY <2>4 DEF Lift, ClicksAfter
    <3>3. ASSUME click' # NoClick
          PROVE  /\ click'.on = down[p] /\ click'.moved = (p \in far)
                 /\ click'.shared = (p \in shared) /\ click'.crossed = (p \in crossed)
      BY <3>2, <3>3
    <3>4. ClickTellsDrag'
      BY <3>1, <3>3
    <3>. QED BY <2>3, <3>1, <3>4
  <2>5. ASSUME NEW p \in Pointers, LiftElsewhere(p) PROVE Dragging'
    BY <2>5 DEF LiftElsewhere, HandUp, simVars, TypeOK
  <2>6. ASSUME NEW p \in Pointers, LiftFromElsewhere(p) PROVE Dragging'
    <3>1. \A q \in Pointers : down[q] \in Bodies => q # p
      BY <2>6 DEF LiftFromElsewhere, IsDown
    <3>2. UNCHANGED <<down, far, shared, crossed, click, dragged>>
      BY <2>6 DEF LiftFromElsewhere, CanvasUp
    <3>3. drag' = drag \/ drag.pointer = p
      BY <2>6 DEF LiftFromElsewhere, CanvasUp, DraggedBy
    <3>. QED BY <3>1, <3>2, <3>3
  <2>7. ASSUME NEW double \in BOOLEAN, Click(double) PROVE Dragging'
    BY <2>7 DEF Click, handVars
  <2>8. CASE LoadDocument
    <3>1. \A q \in Pointers : down'[q] \notin Bodies
      BY <2>8 DEF LoadDocument, TypeOK, Targets
    <3>. QED BY <2>8, <3>1 DEF LoadDocument
  <2>9. CASE UNCHANGED vars
    BY <2>9 DEF vars, handVars, simVars
  <2>. QED BY <2>1, <2>2, <2>4, <2>5, <2>6, <2>7, <2>8, <2>9, NextIs
<1>. QED BY <1>1, <1>2, GestureTypeCorrect, TrackingAlways, PTL DEF Spec

\* While a click is due, nothing else happens.
LEMMA ClickIsNext ==
  ASSUME [Next]_vars, TypeOK, click # NoClick
  PROVE  (\E double \in BOOLEAN : Click(double)) \/ UNCHANGED vars
BY PressIs, NextIs DEF Move, Lift, LiftElsewhere, LiftFromElsewhere, LoadDocument

THEOREM DroppedIsNotSelected == Spec => DroppingDoesNotSelect
<1>. DEFINE Dropping == (/\ click # NoClick
                        /\ click.on \in Bodies
                        /\ click.moved /\ ~click.shared /\ ~click.crossed) => UNCHANGED selection
<1>1. TypeOK /\ Dragging /\ [Next]_vars => [Dropping]_vars
  <2>. SUFFICES ASSUME TypeOK, Dragging, [Next]_vars,
                       click # NoClick, click.on \in Bodies,
                       click.moved, ~click.shared, ~click.crossed
                PROVE  UNCHANGED selection
    OBVIOUS
  <2>1. dragged
    BY DEF Dragging, ClickTellsDrag
  <2>2. click.on # Background
    OBVIOUS
  <2>3. ASSUME NEW double \in BOOLEAN, Click(double) PROVE selection' = selection
    BY <2>1, <2>2, <2>3 DEF Click, Selects, Clears
  <2>. QED BY <2>3, ClickIsNext DEF vars
<1>. QED BY <1>1, GestureTypeCorrect, DraggingAlways, PTL DEF Spec, DroppingDoesNotSelect

-----------------------------------------------------------------------------
(* Gestures, as long as every press and release is heard.                  *)

\* What the canvas makes of the gesture when a pointer is pressed.
LEMMA PressGesture ==
  ASSUME TypeOK, NEW p \in Pointers, NEW t \in Targets, Press(p, t)
  PROVE  /\ live' = Tracked(p)
         /\ background' \subseteq background \cup {p}
         /\ \/ /\ PinchBegins(p) /\ Len(live') = 2
               /\ gesture' = [kind |-> "pinch", first |-> live'[1], second |-> live'[2]]
               /\ panned' = TRUE
            \/ /\ ~PinchBegins(p) /\ Len(live') <= 2 /\ (t = Background \/ p \in background)
               /\ gesture' = [kind |-> "pan", pointer |-> p]
               /\ panned' = FALSE
            \/ /\ ~PinchBegins(p) /\ (t = Background => Len(live') > 2)
               /\ gesture' = gesture
               /\ panned' = panned
<1>1. PICK marked \in SUBSET Pointers : /\ marked \subseteq background \cup {p}
                                        /\ t = Background => p \in marked
                                        /\ t # Background => marked = background
                                        /\ ViewDown(p, marked)
  BY PressIs
<1>2. live' = Tracked(p) /\ background' = marked
  BY <1>1 DEF ViewDown
<1>3. Len(live') \in Nat
  <2>1. live' \in Seq(Pointers)
    BY <1>2, TrackedIs DEF TypeOK
  <2>. QED BY <2>1, LenProperties
<1>4. PinchBegins(p) <=> Len(live') = 2
  BY <1>2 DEF PinchBegins, BeginsPinch
<1>5. CASE PinchBegins(p)
  BY <1>1, <1>2, <1>4, <1>5 DEF ViewDown, BeginsPinch
<1>6. CASE ~PinchBegins(p) /\ Len(live') <= 2 /\ p \in marked
  <2>1. t = Background \/ p \in background
    BY <1>1, <1>6
  <2>. QED BY <1>1, <1>2, <1>4, <1>6, <2>1 DEF ViewDown, BeginsPinch
<1>7. CASE ~PinchBegins(p) /\ ~(Len(live') <= 2 /\ p \in marked)
  <2>1. t = Background => Len(live') > 2
    BY <1>1, <1>3, <1>7
  <2>. QED BY <1>1, <1>2, <1>4, <1>7, <2>1 DEF ViewDown, BeginsPinch
<1>. QED BY <1>5, <1>6, <1>7

\* A release that was not heard is never forgotten.
LEMMA AstrayStays ==
  ASSUME TypeOK, [Next]_vars, astray
  PROVE  astray'
<1>1. ASSUME NEW p \in Pointers, NEW t \in Targets, Press(p, t) PROVE astray'
  <2>1. HandDown(p, t)
    BY <1>1, PressIs
  <2>. QED BY <2>1 DEF HandDown
<1>2. ASSUME NEW p \in Pointers, Lift(p) \/ LiftElsewhere(p) \/ LiftFromElsewhere(p)
      PROVE  astray'
  BY <1>2 DEF Lift, LiftElsewhere, LiftFromElsewhere
<1>3. ASSUME NEW p \in Pointers, NEW beyond \in BOOLEAN, Move(p, beyond) PROVE astray'
  BY <1>3 DEF Move
<1>4. ASSUME NEW double \in BOOLEAN, Click(double) PROVE astray'
  BY <1>4 DEF Click, handVars
<1>5. CASE LoadDocument \/ UNCHANGED vars
  BY <1>5 DEF LoadDocument, vars, handVars
<1>. QED BY <1>1, <1>2, <1>3, <1>4, <1>5, NextIs

\* The members of a sequence are counted by its length.
LEMMA MembersAndLength ==
  ASSUME NEW s \in Seq(Pointers), NEW p \in Members(s)
  PROVE  /\ Len(s) > 0
         /\ \A q \in Members(s) : q # p => Len(s) > 1
BY LenProperties DEF Members

\* What the hooks hold is down and has one role.
THEOREM HeardAlways == Spec => []Heard
<1>1. Init => Heard
  <2>. SUFFICES ASSUME Init PROVE Heard
    OBVIOUS
  <2>1. Members(live) = {} /\ background = {} /\ gesture = NoGesture /\ drag = NoDrag
    BY DEF Init, Members
  <2>2. Users(gesture) = {} /\ gesture.kind # "pinch"
    BY <2>1, UsersAre
  <2>. QED BY <2>1, <2>2 DEF Heard
<1>2. TypeOK /\ Heard /\ [Next]_vars => Heard'
  <2>. SUFFICES ASSUME TypeOK, Heard, [Next]_vars, ~astray, ~astray' PROVE Heard'
    <3>1. TypeOK /\ [Next]_vars /\ astray => astray'
      BY AstrayStays
    <3>. QED BY <3>1 DEF Heard
  <2>0. /\ \A q \in Members(live) \cup background \cup Users(gesture) : IsDown(q) /\ q \in Pointers
        /\ drag # NoDrag => /\ drag.pointer \in Pointers
                            /\ IsDown(drag.pointer)
                            /\ drag.pointer \notin Users(gesture)
        /\ gesture.kind = "pinch" => /\ Len(live) > 1
                                     /\ gesture.first = live[1]
                                     /\ gesture.second = live[2]
                                     /\ Users(gesture) = {live[1], live[2]}
    <3>1. Members(live) \subseteq Pointers
      BY ElementOfSeq, LenProperties DEF TypeOK, Members
    <3>2. Users(gesture) \subseteq Pointers
      BY UsersAre DEF TypeOK
    <3>3. gesture.kind = "pinch" => Users(gesture) = {gesture.first, gesture.second}
      BY UsersAre DEF TypeOK
    <3>4. drag # NoDrag => drag.pointer \in Pointers
      BY DragsAre DEF TypeOK
    <3>. QED BY <3>1, <3>2, <3>3, <3>4 DEF Heard, TypeOK
  <2>1. ASSUME NEW p \in Pointers, NEW t \in Targets, Press(p, t) PROVE Heard'
    <3>1. down' = [down EXCEPT ![p] = t] /\ t # Up /\ ~IsDown(p)
      <4>1. HandDown(p, t) /\ ~IsDown(p)
        BY <2>1, PressIs
      <4>2. t # Up
        BY DEF Targets, Background, Up
      <4>. QED BY <4>1, <4>2 DEF HandDown
    <3>2. \A q \in Pointers : IsDown(q)' <=> q = p \/ IsDown(q)
      BY <3>1 DEF IsDown, TypeOK
    <3>3. /\ live' \in Seq(Pointers) /\ Members(live') = Members(live) \cup {p}
          /\ \A i \in DOMAIN live : live'[i] = live[i]
          /\ Len(live') = Len(live) + 1
      <4>1. live' = Tracked(p) /\ p \notin Members(live)
        BY <2>0, <2>1, <3>1, PressGesture
      <4>. QED BY <4>1, TrackedIs DEF TypeOK
    <3>4. background' \subseteq background \cup {p} /\ p \notin background /\ p \notin Users(gesture)
      BY <2>0, <2>1, <3>1, PressGesture
    <3>5. CASE /\ PinchBegins(p) /\ Len(live') = 2
               /\ gesture' = [kind |-> "pinch", first |-> live'[1], second |-> live'[2]]
      <4>1. live'[1] \in Members(live') /\ live'[2] \in Members(live')
        BY <3>3, <3>5, LenProperties DEF Members
      <4>2. live'[1] \in Pointers /\ live'[2] \in Pointers
        BY <3>3, <3>5, ElementOfSeq
      <4>3. gesture' \in Pinches
        BY <3>5, <4>2 DEF Pinches
      <4>4. Users(gesture)' = {live'[1], live'[2]}
        BY <3>5, <4>3, UsersAre
      <4>5. drag' = NoDrag
        BY <2>1, <3>5, PressDrag
      <4>6. \A q \in Members(live') \cup background' \cup Users(gesture)' : q = p \/ (IsDown(q) /\ q \in Pointers)
        BY <2>0, <3>3, <3>4, <4>1, <4>4
      <4>. QED BY <3>2, <3>3, <3>5, <4>5, <4>6 DEF Heard
    <3>6. CASE /\ ~PinchBegins(p) /\ (t = Background \/ p \in background)
               /\ gesture' = [kind |-> "pan", pointer |-> p]
      <4>1. gesture' \in Pans
        BY <3>6 DEF Pans
      <4>2. Users(gesture)' = {p} /\ gesture'.kind # "pinch"
        BY <3>6, <4>1, UsersAre
      <4>3. drag' = drag
        <5>1. t \notin Bodies
          BY <3>4, <3>6
        <5>. QED BY <2>1, <3>6, <5>1, PressDrag
      <4>4. drag # NoDrag => drag.pointer # p
        BY <2>0, <3>1
      <4>5. \A q \in Members(live') \cup background' \cup Users(gesture)' : q = p \/ (IsDown(q) /\ q \in Pointers)
        BY <2>0, <3>3, <3>4, <4>2
      <4>. QED BY <2>0, <3>2, <4>2, <4>3, <4>4, <4>5 DEF Heard
    <3>7. CASE ~PinchBegins(p) /\ gesture' = gesture
      <4>1. Users(gesture)' = Users(gesture)
        BY <3>7 DEF Users
      <4>2. /\ drag' # NoDrag => drag'.pointer = p \/ (drag' = drag)
        BY <2>1, <3>7, PressDrag
      <4>3. \A q \in Members(live') \cup background' \cup Users(gesture)' : q = p \/ (IsDown(q) /\ q \in Pointers)
        BY <2>0, <3>3, <3>4, <4>1
      <4>4. drag' # NoDrag => IsDown(drag.pointer)' /\ drag'.pointer \notin Users(gesture)'
        BY <2>0, <3>2, <3>4, <4>1, <4>2
      <4>5. gesture'.kind = "pinch" => /\ Len(live') > 1
                                       /\ gesture'.first = live'[1]
                                       /\ gesture'.second = live'[2]
        <5>1. Len(live) \in Nat /\ DOMAIN live = 1..Len(live)
          BY LenProperties DEF TypeOK
        <5>. QED BY <2>0, <3>3, <3>7, <5>1
      <4>. QED BY <3>2, <4>3, <4>4, <4>5 DEF Heard
    <3>. QED BY <2>1, <3>5, <3>6, <3>7, PressGesture
  <2>2. ASSUME NEW p \in Pointers, Lift(p) PROVE Heard'
    <3>1. down' = [down EXCEPT ![p] = Up] /\ CanvasUp(p)
      BY <2>2 DEF Lift, HandUp
    <3>2. \A q \in Pointers : q # p => (IsDown(q)' <=> IsDown(q))
      BY <3>1 DEF IsDown, TypeOK
    <3>3. Members(live') = Members(live) \ {p} /\ live' \in Seq(Pointers)
      BY <3>1, WithoutIs DEF CanvasUp, TypeOK
    <3>4. background' = background \ {p}
      BY <3>1 DEF CanvasUp, Unmarked
    <3>5. \A q \in Members(live') \cup background' : IsDown(q)'
      BY <2>0, <3>2, <3>3, <3>4
    <3>6. drag' # NoDrag => /\ drag' = drag /\ drag.pointer # p
                            /\ IsDown(drag.pointer)' /\ drag.pointer \notin Users(gesture)
      BY <2>0, <3>1, <3>2 DEF CanvasUp, DraggedBy
    <3>7. CASE gesture' = NoGesture
      <4>1. Users(gesture)' = {} /\ gesture'.kind # "pinch"
        BY <3>7, UsersAre
      <4>. QED BY <3>5, <3>6, <4>1 DEF Heard
    <3>8. CASE gesture' # NoGesture
      <4>1. /\ gesture.kind = "pinch" /\ live' # <<>>
            /\ gesture' = [kind |-> "pan", pointer |-> Head(live')]
        BY <3>1, <3>8 DEF CanvasUp, GestureAfter
      <4>2. Head(live') \in Members(live') /\ Head(live') \in Pointers
        BY <3>3, <4>1, LenProperties DEF Members
      <4>3. Head(live') \in {live[1], live[2]}
        BY <2>0, <3>1, <4>1, WithoutIs DEF CanvasUp, TypeOK
      <4>4. Head(live') \in Users(gesture)
        BY <2>0, <4>1, <4>3
      <4>5. gesture' \in Pans
        BY <4>1, <4>2 DEF Pans
      <4>6. Users(gesture)' = {Head(live')} /\ gesture'.kind # "pinch"
        BY <4>1, <4>5, UsersAre
      <4>7. IsDown(Head(live))'
        BY <3>5, <4>2
      <4>. QED BY <3>5, <3>6, <4>4, <4>6, <4>7 DEF Heard
    <3>. QED BY <3>7, <3>8
  <2>3. ASSUME NEW p \in Pointers, LiftElsewhere(p) \/ LiftFromElsewhere(p) PROVE Heard'
    BY <2>3 DEF LiftElsewhere, LiftFromElsewhere
  <2>4. ASSUME UNCHANGED <<live, background, gesture>>,
               \A q \in Pointers : IsDown(q)' <=> IsDown(q),
               drag' # NoDrag => drag # NoDrag /\ drag'.pointer = drag.pointer
        PROVE  Heard'
    <3>1. Users(gesture)' = Users(gesture) /\ Members(live)' = Members(live)
      BY <2>4 DEF Users, Members
    <3>. QED BY <2>0, <2>4, <3>1 DEF Heard
  <2>5. ASSUME NEW p \in Pointers, NEW beyond \in BOOLEAN, Move(p, beyond) PROVE Heard'
    BY <2>4, <2>5 DEF Move, IsDown
  <2>6. ASSUME NEW double \in BOOLEAN, Click(double) PROVE Heard'
    BY <2>4, <2>6 DEF Click, IsDown, handVars, viewVars
  <2>7. CASE LoadDocument
    <3>1. \A q \in Pointers : IsDown(q)' <=> IsDown(q)
      BY <2>7 DEF LoadDocument, IsDown, TypeOK, Gone, Up
    <3>2. drag' # NoDrag => drag # NoDrag /\ drag'.pointer = drag.pointer
      BY <2>7, DragsAre DEF LoadDocument, TypeOK, Drags
    <3>. QED BY <2>4, <2>7, <3>1, <3>2 DEF LoadDocument, viewVars
  <2>8. CASE UNCHANGED vars
    BY <2>4, <2>8 DEF vars, IsDown, handVars, viewVars, simVars
  <2>. QED BY <2>1, <2>2, <2>3, <2>5, <2>6, <2>7, <2>8, NextIs
<1>. QED BY <1>1, <1>2, GestureTypeCorrect, PTL DEF Spec

\* A pointer that drags a body neither pans nor pinches, and no gesture follows
\* one that has left.
THEOREM OneRoleAlways == Spec => []OneRolePerPointer
<1>1. TypeOK /\ Heard => OneRolePerPointer
  <2>1. ASSUME TypeOK, Heard, ~astray, gesture.kind = "pinch" PROVE gesture.first # gesture.second
    <3>1. /\ Len(live) > 1 /\ Len(live) \in Nat /\ DOMAIN live = 1..Len(live)
          /\ gesture.first = live[1] /\ gesture.second = live[2]
      BY <2>1, LenProperties DEF Heard, TypeOK
    <3>. QED BY <2>1, <3>1 DEF TypeOK, NoRepeat
  <2>. QED BY <2>1 DEF Heard, OneRolePerPointer
<1>. QED BY <1>1, HeardAlways, GestureTypeCorrect, PTL

\* When every pointer is up, both hooks are back where they began.
THEOREM RestIsComplete == Spec => []AtRest
<1>1. TypeOK /\ Heard /\ HeatFollowsDrag => AtRest
  <2>. SUFFICES ASSUME TypeOK, Heard, HeatFollowsDrag, ~astray, \A p \in Pointers : ~IsDown(p)
                PROVE  /\ live = <<>> /\ background = {} /\ gesture = NoGesture
                       /\ drag = NoDrag /\ ~hot
    BY DEF AtRest
  <2>1. Members(live) \subseteq Pointers
    BY ElementOfSeq, LenProperties DEF TypeOK, Members
  <2>2. Members(live) = {} /\ background = {}
    BY <2>1 DEF Heard, TypeOK
  <2>3. live = <<>>
    <3>1. Len(live) \in Nat /\ DOMAIN live = 1..Len(live)
      BY LenProperties DEF TypeOK
    <3>2. Len(live) = 0
      <4>1. ASSUME Len(live) > 0 PROVE FALSE
        <5>1. live[1] \in Members(live)
          BY <3>1, <4>1 DEF Members
        <5>. QED BY <2>2, <5>1
      <4>. QED BY <3>1, <4>1
    <3>. QED BY <3>2, EmptySeq DEF TypeOK
  <2>4. gesture = NoGesture
    BY UsersAre DEF Heard, TypeOK
  <2>5. drag = NoDrag
    BY DragsAre DEF Heard, TypeOK
  <2>. QED BY <2>2, <2>3, <2>4, <2>5 DEF HeatFollowsDrag
<1>. QED BY <1>1, HeardAlways, HeatAlways, GestureTypeCorrect, PTL

-----------------------------------------------------------------------------
(* Taps.                                                                   *)

\* pannedRef misses no pan and no pinch.
THEOREM PanningAlways == Spec => []Panning
<1>1. Init => Panning
  BY DEF Init, Panning, Up, Background
<1>2. TypeOK /\ Tracking /\ Heard /\ Panning /\ [Next]_vars => Panning'
  <2>. SUFFICES ASSUME TypeOK, Tracking, Heard, Panning, [Next]_vars, ~astray, ~astray'
                PROVE  Panning'
    <3>1. TypeOK /\ [Next]_vars /\ astray => astray'
      BY AstrayStays
    <3>. QED BY <3>1 DEF Panning
  <2>. USE DEF Panning
  <2>0. Len(live) \in Nat /\ DOMAIN live = 1..Len(live)
    BY LenProperties DEF TypeOK
  <2>1. ASSUME NEW p \in Pointers, NEW t \in Targets, Press(p, t) PROVE Panning'
    <3>1. /\ click' = NoClick /\ down' = [down EXCEPT ![p] = t] /\ ~IsDown(p)
          /\ far' = far
          /\ shared' = shared \cup {q \in Members(Tracked(p)) : PinchBegins(p) /\ (q = p \/ IsDown(q))}
      <4>1. HandDown(p, t) /\ click' = NoClick /\ ~IsDown(p)
        BY <2>1, PressIs
      <4>. QED BY <4>1 DEF HandDown
    <3>2. p \notin Members(live) /\ p \notin background /\ p \notin far /\ p \notin shared
      BY <3>1 DEF Heard, Tracking
    <3>3. Len(live') = Len(live) + 1
      <4>1. live' = Tracked(p)
        BY <2>1, PressGesture
      <4>. QED BY <3>2, <4>1, TrackedIs DEF TypeOK
    <3>4. PinchBegins(p) <=> Len(live') = 2
      <4>1. live' = Tracked(p)
        BY <2>1, PressGesture
      <4>. QED BY <4>1 DEF PinchBegins, BeginsPinch
    <3>5. Len(live') > 1 => panned'
      <4>1. PinchBegins(p) => panned'
        BY <2>1, PressGesture
      <4>2. ~PinchBegins(p) => Len(live') <= 2 \/ panned' = panned
        BY <2>1, PressGesture
      <4>. QED BY <2>0, <3>3, <3>4, <4>1, <4>2
    <3>6. ASSUME NEW q \in Pointers, down'[q] = Background, ~panned'
          PROVE  /\ gesture' = [kind |-> "pan", pointer |-> q]
                 /\ q \notin far' /\ q \notin shared'
      <4>1. Len(live') = 1 /\ ~PinchBegins(p)
        BY <2>0, <3>3, <3>4, <3>5, <3>6
      <4>2. q = p
        <5>1. ASSUME q # p PROVE FALSE
          <6>1. down[q] = Background
            BY <3>1, <3>6, <5>1 DEF TypeOK
          <6>2. q \in Members(live)
            BY <6>1 DEF Tracking, IsDown, Background, Up
          <6>3. Len(live) > 0
            BY <6>2, MembersAndLength DEF TypeOK
          <6>. QED BY <2>0, <3>3, <4>1, <6>3
        <5>. QED BY <5>1
      <4>3. t = Background
        BY <3>1, <3>6, <4>2 DEF TypeOK
      <4>4. gesture' = [kind |-> "pan", pointer |-> p]
        <5>1. ~(Len(live') > 2)
          BY <4>1
        <5>2. ~PinchBegins(p) /\ ~(t = Background => Len(live') > 2)
          BY <4>1, <4>3, <5>1
        <5>. QED BY <2>1, <5>2, PressGesture
      <4>. QED BY <3>1, <3>2, <4>1, <4>2, <4>4
    <3>. QED BY <3>1, <3>5, <3>6
  <2>2. ASSUME NEW p \in Pointers, NEW beyond \in BOOLEAN, Move(p, beyond) PROVE Panning'
    <3>1. /\ UNCHANGED <<down, shared, live, gesture, click>> /\ click = NoClick
          /\ panned' = (panned \/ (beyond /\ gesture.kind = "pan" /\ p \in Users(gesture)))
          /\ far' = IF beyond /\ IsDown(p) THEN far \cup {p} ELSE far
      BY <2>2 DEF Move
    <3>2. ASSUME NEW q \in Pointers, down[q] = Background, ~panned' PROVE q \notin far'
      <4>1. ~panned /\ gesture = [kind |-> "pan", pointer |-> q] /\ q \notin far
        BY <3>1, <3>2
      <4>2. gesture \in Pans
        BY <4>1 DEF Pans
      <4>3. gesture.kind = "pan" /\ Users(gesture) = {q}
        BY <4>1, <4>2, UsersAre
      <4>. QED BY <3>1, <3>2, <4>1, <4>3
    <3>. QED BY <3>1, <3>2
  <2>3. ASSUME NEW p \in Pointers, Lift(p) PROVE Panning'
    <3>1. /\ down' = [down EXCEPT ![p] = Up] /\ IsDown(p)
          /\ far' = far \ {p} /\ shared' = shared \ {p} /\ panned' = panned
      BY <2>3 DEF Lift, HandUp, CanvasUp
    <3>2. Len(live') <= Len(live) /\ Len(live') \in Nat
      <4>1. live' = Without(live, p)
        BY <2>3 DEF Lift, CanvasUp
      <4>. QED BY <4>1, WithoutIs, LenProperties DEF TypeOK
    <3>3. ASSUME NEW q \in Pointers, down'[q] = Background PROVE panned'
      <4>1. q # p /\ down[q] = Background
        BY <3>1, <3>3 DEF TypeOK, Background, Up
      <4>2. p \in Members(live) /\ q \in Members(live)
        BY <3>1, <4>1 DEF Tracking, IsDown, Background, Up
      <4>3. Len(live) > 1
        BY <4>1, <4>2, MembersAndLength DEF TypeOK
      <4>. QED BY <3>1, <4>3
    <3>4. ASSUME click' # NoClick, click'.on = Background, click'.moved \/ click'.shared
          PROVE  panned'
      <4>1. click' = [on |-> down[p], moved |-> p \in far,
                     shared |-> p \in shared, crossed |-> p \in crossed]
        BY <2>3, <3>4 DEF Lift, ClicksAfter
      <4>2. down[p] = Background /\ (p \in far \/ p \in shared)
        BY <3>4, <4>1
      <4>. QED BY <3>1, <4>2
    <3>. QED BY <2>0, <3>1, <3>2, <3>3, <3>4
  <2>4. ASSUME NEW p \in Pointers, LiftElsewhere(p) \/ LiftFromElsewhere(p) PROVE Panning'
    BY <2>4 DEF LiftElsewhere, LiftFromElsewhere
  <2>5. ASSUME NEW double \in BOOLEAN, Click(double) PROVE Panning'
    BY <2>5 DEF Click, handVars, viewVars
  <2>6. CASE LoadDocument
    <3>1. \A q \in Pointers : down'[q] = Background => down[q] = Background
      BY <2>6 DEF LoadDocument, TypeOK, Gone, Background
    <3>. QED BY <2>6, <3>1 DEF LoadDocument, viewVars
  <2>7. CASE UNCHANGED vars
    BY <2>7 DEF vars, handVars, viewVars
  <2>. QED BY <2>1, <2>2, <2>3, <2>4, <2>5, <2>6, <2>7, NextIs
<1>. QED BY <1>1, <1>2, GestureTypeCorrect, TrackingAlways, HeardAlways, PTL DEF Spec

\* Only a press that stayed put and was alone clears the selection.
THEOREM ClearedByATap == Spec => OnlyATapClears
<1>. DEFINE Clearing == (click # NoClick /\ ~astray /\ selection' # selection /\ selection' = None)
                          => ~click.moved /\ ~click.shared
<1>1. TypeOK /\ Panning /\ [Next]_vars => [Clearing]_vars
  <2>. SUFFICES ASSUME TypeOK, Panning, [Next]_vars,
                       click # NoClick, ~astray, selection' # selection, selection' = None
                PROVE  ~click.moved /\ ~click.shared
    OBVIOUS
  <2>1. click \in Clicks
    BY DEF TypeOK
  <2>2. PICK double \in BOOLEAN : Click(double)
    BY ClickIsNext DEF vars
  <2>3. ~Selects(click.on)
    <3>1. click.on # None
      BY <2>1 DEF Clicks, Targets, Background, None
    <3>. QED BY <2>2, <3>1 DEF Click
  <2>4. Clears(click.on)
    BY <2>2, <2>3 DEF Click
  <2>5. click.on = Background /\ ~panned
    BY <2>4 DEF Clears
  <2>. QED BY <2>5 DEF Panning
<1>. QED BY <1>1, GestureTypeCorrect, PanningAlways, PTL DEF Spec, OnlyATapClears
=============================================================================
