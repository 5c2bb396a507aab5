------------------------------ MODULE MCCasts -------------------------------
(***************************************************************************)
(* Instances of DailyPuzzle put together: each initial state names a cast, *)
(* the processes, users and puzzles that take part, and how far the clock  *)
(* and a game may go.  The others stay idle, so that one run explores      *)
(* several small systems instead of one that is too large.                 *)
(*                                                                         *)
(* Symmetry stays sound: two reachable states that a permutation maps to   *)
(* each other have the same cast, and whoever is not in it is idle in both.*)
(***************************************************************************)
EXTENDS MCGame

CONSTANT Casts

VARIABLE cast

Cast ==
  [ (* two requests of one player, while the day ends and is settled *)
   duel |-> [procs |-> {a1, a2, s1}, users |-> {u1}, puzzles |-> {p1}, until |-> 3, guesses |-> 2],
    (* the unlocked reads of getCurrentGame, while a guess commits *)
   read |-> [procs |-> {a1, r1, s1}, users |-> {u1}, puzzles |-> {p1}, until |-> 2, guesses |-> 2],
    (* two sweeps at once, over the games of two players *)
   sweep |-> [procs |-> {a1, s1, s2}, users |-> {u1, u2}, puzzles |-> {p1}, until |-> 2, guesses |-> 1],
    (* an edit of a puzzle whose day begins *)
   midnight |-> [procs |-> {a1, s1, m1}, users |-> {u1}, puzzles |-> {p1}, until |-> 1, guesses |-> 1],
    (* two admins at once, over dates and answers *)
   admins |-> [procs |-> {m1, m2}, users |-> {}, puzzles |-> {p1, p2, p3}, until |-> 0, guesses |-> 0],
    (* one player and the sweep, around the first midnight *)
   late |-> [procs |-> {a1, s1}, users |-> {u1}, puzzles |-> {p1, p2}, until |-> 1, guesses |-> 1],
    (* the sweep alone, with two days to settle *)
   queue |-> [procs |-> {s1}, users |-> {}, puzzles |-> {p1, p2}, until |-> 2, guesses |-> 0]]

in == Cast[cast]

WithinCast ==
  /\ \A t \in Players : req'[t] # None => req'[t].user \in in.users
  /\ \A p \in Puzzles \ in.puzzles : dailyPuzzles'[p] = dailyPuzzles[p]
  /\ \A p \in Puzzles, u \in Users : games'[p][u].guessCount <= in.guesses

(* Next of DailyPuzzle, for the processes of the cast. *)
CastNext ==
  /\ \/ now < in.until /\ Tick
     \/ \E t \in Players \cap in.procs : PlayerNext(t)
     \/ \E r \in Readers \cap in.procs : ReaderNext(r)
     \/ \E s \in Settlers \cap in.procs : SettlerNext(s)
     \/ \E a \in Admins \cap in.procs : AdminNext(a)
     \/ \E t \in Procs \cap in.procs : Crash(t)
  /\ WithinCast

CastInit == Init /\ cast \in Casts

CastSpec ==
  /\ CastInit
  /\ [][CastNext /\ UNCHANGED cast]_<<vars, cast>>

FairCastSpec == CastSpec /\ Fairness
=============================================================================
