------------------------------- MODULE MCGame -------------------------------
(***************************************************************************)
(* Small instances of DailyPuzzle for TLC.  Days are two ticks long, so    *)
(* that a transaction can begin in the last tick of a day and take effect  *)
(* after midnight.                                                         *)
(***************************************************************************)
EXTENDS DailyPuzzle, TLC

CONSTANTS u1, u2, a1, a2, s1, s2, r1, m1, m2, p1, p2, p3, right, wrong, b, c, d

(* One puzzle, for date 0, whose answer is `right'. *)
OnePuzzle == [p \in Puzzles |-> [date |-> 0, answer |-> right, hint |-> c]]

(* Puzzles for date 0 and date 1; a third id is still unused. *)
TwoDays ==
  [p \in Puzzles |->
     IF p = p1 THEN [date |-> 0, answer |-> right, hint |-> c]
     ELSE IF p = p2 THEN [date |-> 1, answer |-> wrong, hint |-> d]
     ELSE None]

(* One puzzle, for date 1; every other id is still unused. *)
Tomorrow ==
  [p \in Puzzles |-> IF p = p1 THEN [date |-> 1, answer |-> right, hint |-> c] ELSE None]

(* Both answers contain c, only `right' contains b, only `wrong' d. *)
AnswerLetters ==
  [w \in Answers |-> IF w = right THEN Letters \cap {b, c} ELSE Letters \cap {c, d}]

Symmetry ==
  Permutations(Users) \cup Permutations(Players)
    \cup Permutations(Settlers) \cup Permutations(Admins)
    \cup Permutations(Puzzles \ {p1})
=============================================================================
