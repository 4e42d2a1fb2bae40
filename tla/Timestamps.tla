----------------------------- MODULE Timestamps -----------------------------
(***************************************************************************)
(* The time of a frame, from the text tshark prints to the text the        *)
(* document shows (backend/app/parsing/timestamps.py), with the precision  *)
(* capinfos states for the file (backend/app/parsing/capinfos.py).         *)
(*                                                                         *)
(* A printed time is a sign, whole seconds and the digits of a fraction; a *)
(* shown one is whole seconds since the epoch, calendar left out, and a    *)
(* fraction of as many digits as the document decided on.                  *)
(***************************************************************************)
EXTENDS Integers, Sequences, FiniteSetsExt

CONSTANTS
  Nines,   \* fractional digits of a nanosecond: 9 in the code
  Stated,  \* precisions the file header may state, None where it states none
  Texts    \* what tshark may print: [negative, whole, fraction], whole None if it is no number

None == -1

ASSUME TimeAssumption ==
  /\ Nines \in Nat \ {0}
  /\ Stated \subseteq Nat \cup {None}
  /\ Texts \subseteq [negative : BOOLEAN, whole : Nat \cup {None}, fraction : Seq(0 .. 9)]

VARIABLES
  stated,  \* the precision stated, 0 being whole seconds
  text,    \* the time printed last
  shown    \* what the document says of it

vars == <<stated, text, shown>>

NoText == [negative |-> FALSE, whole |-> None, fraction |-> <<>>]

NotShown == [seconds |-> 0, fraction |-> None]

Pow10[n \in Nat] == IF n = 0 THEN 1 ELSE 10 * Pow10[n - 1]

NsPerSecond == Pow10[Nines]

\* The number a sequence of digits denotes, read from the left.
Value(ds) ==
  LET read[i \in 0 .. Len(ds)] == IF i = 0 THEN 0 ELSE 10 * read[i - 1] + ds[i]
  IN  read[Len(ds)]

-----------------------------------------------------------------------------
(* Parsing.                                                                *)

\* Mutation of Nanos: the fraction read as a number, not padded.
NanosUnpadded(fraction) == Value(SubSeq(fraction, 1, Min({Len(fraction), Nines})))

\* Padded with zeros on the right, and cut to nanoseconds.
Nanos(fraction) ==
  IF Len(fraction) >= Nines
  THEN Value(SubSeq(fraction, 1, Nines))
  ELSE Value(fraction) * Pow10[Nines - Len(fraction)]

EpochNs(t) ==
  LET total == t.whole * NsPerSecond + Nanos(t.fraction)
  IN  IF t.negative THEN -total ELSE total

-----------------------------------------------------------------------------
(* Showing.                                                                *)

\* Mutation of Digits: microseconds unless told otherwise.
DigitsOrMicro(p) == IF p \in 1..Nines THEN p ELSE (2 * Nines) \div 3

\* The digits the document shows: nine unless the header states one to nine.
Digits(p) == IF p \in 1..Nines THEN p ELSE Nines

\* Mutation of Shown: the division truncates, as C's does.
ShownTruncated(ns, digits) ==
  LET seconds == IF ns < 0 THEN -((-ns) \div NsPerSecond) ELSE ns \div NsPerSecond
      nanos == IF ns < 0 THEN (-ns) % NsPerSecond ELSE ns % NsPerSecond
  IN  [seconds |-> seconds, fraction |-> nanos \div Pow10[Nines - digits]]

\* divmod floors, so that a time before the epoch borrows; the fraction is cut
\* to its first digits.
Shown(ns, digits) ==
  [seconds |-> ns \div NsPerSecond,
   fraction |-> (ns % NsPerSecond) \div Pow10[Nines - digits]]

-----------------------------------------------------------------------------
Init == stated \in Stated /\ text = NoText /\ shown = NotShown

\* The frame is left out.
Reject(t) ==
  /\ t.whole = None
  /\ text' = t /\ shown' = NotShown
  /\ UNCHANGED stated

Stamp(t) ==
  /\ t.whole # None
  /\ text' = t /\ shown' = Shown(EpochNs(t), Digits(stated))
  /\ UNCHANGED stated

Next == \E t \in Texts : Reject(t) \/ Stamp(t)

Spec == Init /\ [][Next]_vars

-----------------------------------------------------------------------------
(* Properties. A time in units of 10^-n of a second is an integer.         *)

Stamped == shown # NotShown

\* The text in units of its own last digit.
Meant == (IF text.negative THEN -1 ELSE 1) * (text.whole * Pow10[Len(text.fraction)] + Value(text.fraction))

\* What is shown, in units of its own last digit.
Said == shown.seconds * Pow10[Digits(stated)] + shown.fraction

\* The clock the header states can print the text: nothing but zeros follow the
\* digits it has.
Ticks == \A i \in DOMAIN text.fraction : stated # None /\ i > stated => text.fraction[i] = 0

\* The fraction is one, and never negative: "divmod floors, so a negative epoch
\* borrows" (timestamps.py). What is shown is at most one unit of its last
\* digit before what the text means, before the epoch as after it, also when a
\* frame is finer than the file says. Texts finer than a nanosecond are cut
\* towards zero instead, and are left out.
ShownJustBefore ==
  Stamped /\ Len(text.fraction) <= Nines =>
    LET digits == Digits(stated)
        meant == Meant * Pow10[Nines - Len(text.fraction)]
        unit == Pow10[Nines - digits]
    IN  /\ shown.fraction \in 0..(Pow10[digits] - 1)
        /\ Said * unit <= meant /\ meant < (Said + 1) * unit

\* "This backend makes a point of not losing those digits" (capinfos.py): the
\* text of a clock no finer than stated, or of any where nothing is stated, is
\* shown in full.
NothingLost ==
  Stamped /\ Len(text.fraction) <= Nines /\ Ticks =>
    Said * Pow10[Nines - Digits(stated)] = Meant * Pow10[Nines - Len(text.fraction)]
=============================================================================
