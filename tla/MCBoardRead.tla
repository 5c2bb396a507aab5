----------------------------- MODULE MCBoardRead -----------------------------
(***************************************************************************)
(* Small instances of BoardRead for TLC.                                   *)
(***************************************************************************)
EXTENDS BoardRead, TLC

CONSTANTS u1, u2, a1, s1, s2, p1, right, c

OnePuzzle == [p \in Puzzles |-> [date |-> 0, answer |-> right, hint |-> c]]

OneLetter == [w \in Answers |-> {c}]

ReadSymmetry == Permutations(Users) \cup Permutations(Settlers)
=============================================================================
