---------------------------- MODULE MCTimestamps ----------------------------
(* Three digits stand for nine. Fractions of up to one digit more than a    *)
(* nanosecond has, of digits that borrow, carry and pad.                    *)
EXTENDS Timestamps, SequencesExt

MCStated == {None, 0, 1, 2, 3}

MCTexts ==
  [negative : BOOLEAN, whole : {None, 0, 1, 2}, fraction : SeqOf({0, 1, 9}, 4)]
=============================================================================
