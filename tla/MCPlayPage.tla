----------------------------- MODULE MCPlayPage -----------------------------
(***************************************************************************)
(* Small instances of PlayPage for TLC: one player, the puzzles of two     *)
(* days that are one tick long each.                                       *)
(***************************************************************************)
EXTENDS PlayPage

CONSTANTS u1, p1, p2, right, wrong, c

TwoDays ==
  [p \in Puzzles |->
     IF p = p1 THEN [date |-> 0, answer |-> right, hint |-> c]
     ELSE [date |-> 1, answer |-> wrong, hint |-> c]]

SameLetter == [w \in Answers |-> {c}]
=============================================================================
