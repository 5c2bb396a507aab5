---------------------------- MODULE MCLeaderboard ----------------------------
(***************************************************************************)
(* Small instances of Leaderboard for TLC, put together as in MCCasts: the *)
(* initial state names who plays, on which puzzles, how often one may miss *)
(* and how far the clock goes.                                             *)
(***************************************************************************)
EXTENDS Leaderboard, TLC

CONSTANTS u1, u2, u3, p1, p2, right, other, b, c, Casts

VARIABLE cast

(* A puzzle for date 0, and one for date 1. *)
DaysInARow ==
  [p \in Puzzles |->
     IF p = p1 THEN [date |-> 0, answer |-> right, hint |-> b]
     ELSE [date |-> 1, answer |-> other, hint |-> c]]

OneLetterEach == [w \in Answers |-> IF w = right THEN {b} ELSE {c}]

Cast ==
  [ (* three players on one day, and the settlement after it *)
   day |-> [users |-> {u1, u2, u3}, puzzles |-> {p1}, until |-> 2, misses |-> 2],
    (* two players over a period of two days and into the next *)
   period |-> [users |-> {u1, u2}, puzzles |-> {p1, p2}, until |-> 4, misses |-> 0]]

in == Cast[cast]

WithinCast ==
  /\ now' <= in.until
  /\ \A p \in Puzzles \ in.puzzles : dailyPuzzles'[p] = dailyPuzzles[p]
  /\ \A p \in Puzzles : \A u \in Users \ in.users : games'[p][u].status = "NONE"
  /\ \A p \in Puzzles, u \in Users :
       Cardinality({g \in guesses'[p][u] : g.word # dailyPuzzles[p].answer}) <= in.misses

CastInit == Init /\ cast \in Casts

CastSpec ==
  /\ CastInit
  /\ [][Next /\ WithinCast /\ UNCHANGED cast]_<<vars, cast>>

UserSymmetry == Permutations(Users)
=============================================================================
