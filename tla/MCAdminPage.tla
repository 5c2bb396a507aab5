---------------------------- MODULE MCAdminPage -----------------------------
(***************************************************************************)
(* Small instances of AdminPage for TLC: the puzzle of today, the one of   *)
(* tomorrow and an unused row; nobody plays.  The initial state names the  *)
(* cast: one admin alone who saves twice, one who saves once while another *)
(* changes the schedule, or one who saves once around midnight.  The word  *)
(* this admin types is always z.                                           *)
(***************************************************************************)
EXTENDS AdminPage

CONSTANTS p1, p2, p3, x, y, z, c

VARIABLE cast

TodayAndTomorrow ==
  [p \in Puzzles |->
     CASE p = p1 -> [date |-> 0, answer |-> x, hint |-> c]
       [] p = p2 -> [date |-> 1, answer |-> y, hint |-> c]
       [] OTHER -> None]

SameLetter == [w \in Answers |-> {c}]

Cast == [alone |-> [saves |-> 2, others |-> 0, until |-> 0],
         rival |-> [saves |-> 1, others |-> 1, until |-> 0],
         midnight |-> [saves |-> 1, others |-> 0, until |-> 1]]

WithinCast ==
  /\ now' <= Cast[cast].until /\ others' <= Cast[cast].others
  /\ \A n \in Saves : saves'[n].patch.word \in {z, None}
  /\ \A n \in Saves : n > Cast[cast].saves => saves'[n] = saves[n]

CastInit == PageInit /\ cast \in DOMAIN Cast

CastSpec ==
  /\ CastInit
  /\ [][PageNext /\ WithinCast /\ UNCHANGED cast]_<<pageVars, cast>>
=============================================================================
