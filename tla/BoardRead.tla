------------------------------ MODULE BoardRead ------------------------------
(***************************************************************************)
(* getBoard as a request on the running server (leaderboard/service.ts).   *)
(* A week or month read first runs the sweep of Settlement, each puzzle in *)
(* a transaction of its own, and then takes the board in one statement     *)
(* and, for a viewer who is not on it, the viewer's line in another.  A    *)
(* today or yesterday read is one statement.                               *)
(***************************************************************************)
EXTENDS DailyPuzzle

CONSTANTS
  PeriodDays, Threshold, Limit,
  Served    \* the settlers whose board reads keep coming

ASSUME ServedAssumption == Served \subseteq Settlers

VARIABLE board    \* the board request each settler serves, or none

boardVars == <<vars, board>>

Boards == INSTANCE Leaderboard WITH
  now <- now, dailyPuzzles <- dailyPuzzles, frozen <- frozen, games <- games,
  guesses <- guesses, PeriodDays <- PeriodDays, Threshold <- Threshold, Limit <- Limit

(* The request of a viewer, and the fields of the response so far.  `due'  *)
(* is history: the days its sweep selected and did not give up on.         *)
NewBoard(pc, u) ==
  [pc |-> pc, viewer |-> u, due |-> {}, entries |-> {}, count |-> 0,
   rank |-> None, qualified |-> FALSE, completedDays |-> 0]
NoBoard == NewBoard("none", None)

ReadInit == Init /\ board = [s \in Settlers |-> NoBoard]

BoardUnchanged == UNCHANGED vars

-----------------------------------------------------------------------------
(* today and yesterday *)

GetDayBoard(s, u, d) ==
  LET solved == Boards!SolvedOn(d) IN
  /\ AtPc(s, "idle") /\ board[s].pc = "none"
  /\ d \in {Boards!today, Boards!today - 1}
  /\ board' = [board EXCEPT ![s] =
       [NewBoard("returned", u) EXCEPT
          !.entries = Boards!singleDayEntries(d), !.count = Cardinality(solved),
          !.rank = IF u \in solved THEN Boards!DayRank(d, u) ELSE None,
          !.qualified = u \in solved,
          !.completedDays = IF u \in solved THEN 1 ELSE 0]]
  /\ BoardUnchanged

-----------------------------------------------------------------------------
(* week and month *)

GetPeriodBoard(s, u) ==
  /\ AtPc(s, "idle") /\ board[s].pc = "none"
  /\ SweepSelect(s, FALSE)
  /\ board' = [board EXCEPT ![s] = [NewBoard("reconcile", u) EXCEPT !.due = Swept]]

(* A step of the sweep.  A finalization that ends with its puzzle still    *)
(* ACTIVE has failed: the loop logs it and goes on.                        *)
GaveUp(s) ==
  IF AtPc(s, "sweep") \/ tx'[s].pc # "sweep" \/ dailyPuzzles'[Pid(s)].status # "ACTIVE"
    THEN {} ELSE {Pid(s)}

Reconcile(s) ==
  /\ ~AtPc(s, "idle")
  /\ SettlerNext(s)
  /\ board' = [board EXCEPT ![s].due = @ \ GaveUp(s)]

(* A wrong variant: the board is read while the sweep is still running. *)
NotAwaited(s) == board[s].pc = "reconcile"

Reconciled(s) == board[s].pc = "reconcile" /\ AtPc(s, "idle")

ReadBoard(s) ==
  LET u == board[s].viewer
      qualified == Boards!Qualified(Boards!today)
      read == [board[s] EXCEPT !.entries = Boards!multiDayEntries(Boards!today),
                               !.count = Cardinality(qualified)]
  IN
  /\ Reconciled(s)
  /\ board' = [board EXCEPT ![s] =
       IF u \in qualified
         THEN [read EXCEPT !.pc = "returned", !.qualified = TRUE,
                 !.rank = Boards!PeriodRank(Boards!today, u),
                 !.completedDays = Boards!scored(Boards!today, u).completed]
         ELSE [read EXCEPT !.pc = "viewer"]]
  /\ BoardUnchanged

(* The same CTEs once more, for the viewer alone; their frame and their    *)
(* clock are those of this statement.                                      *)
ReadViewer(s) ==
  LET line == Boards!scored(Boards!today, board[s].viewer) IN
  /\ board[s].pc = "viewer"
  /\ board' = [board EXCEPT ![s].pc = "returned",
                            ![s].qualified = Boards!Qualifies(line),
                            ![s].completedDays = line.completed]
  /\ BoardUnchanged

ReturnBoard(s) ==
  /\ board[s].pc = "returned"
  /\ board' = [board EXCEPT ![s] = NoBoard]
  /\ BoardUnchanged

BoardNext(s) ==
  \/ \E u \in Users, d \in Dates : GetDayBoard(s, u, d)
  \/ \E u \in Users : GetPeriodBoard(s, u)
  \/ board[s].pc = "none" /\ SweepSelect(s, TRUE) /\ UNCHANGED board
  \/ Reconcile(s)
  \/ ReadBoard(s) \/ ReadViewer(s) \/ ReturnBoard(s)

(* The request dies with its worker. *)
BoardCrash(s) ==
  /\ board[s].pc # "none"
  /\ IF AtPc(s, "idle") THEN UNCHANGED vars ELSE Crash(s)
  /\ board' = [board EXCEPT ![s] = NoBoard]

(* The rest of the server, admins and getCurrentGame aside: they touch     *)
(* nothing a started day or a sweep depends on.                            *)
Others ==
  \/ Tick
  \/ \E t \in Players : PlayerNext(t) \/ Crash(t)
  \/ \E s \in Settlers : board[s].pc = "none" /\ Crash(s)

ReadNext ==
  \/ Others /\ UNCHANGED board
  \/ \E s \in Settlers : BoardNext(s) \/ BoardCrash(s)

ReadSpec == ReadInit /\ [][ReadNext]_boardVars

-----------------------------------------------------------------------------
BoardTypeOK ==
  board \in [Settlers ->
    [pc : {"none", "reconcile", "viewer", "returned"}, viewer : Users \cup {None},
     due : SUBSET Puzzles, entries : SUBSET Users, count : 0..Cardinality(Users),
     rank : 1..Cardinality(Users) \cup {None}, qualified : BOOLEAN,
     completedDays : 0..Cardinality(Puzzles)]]

(* "Week/month reads reconcile expired ACTIVE days before aggregating":    *)
(* every day the sweep of a request selected is FINALIZED when the board   *)
(* is taken, by that sweep or by whoever held the row, unless its own      *)
(* finalization failed.                                                    *)
SweptDaysCount ==
  \A s \in Settlers : board[s].pc \in {"viewer", "returned"} =>
    \A p \in board[s].due : dailyPuzzles[p].status = "FINALIZED"

-----------------------------------------------------------------------------
(* No player's request stops for ever in the middle.  Board reads keep     *)
(* coming: those in Served, which are not refused their locks, or broken   *)
(* off, every time; the others, which contend with them, come to an end.   *)
ReadFairness ==
  /\ \A t \in Players : WF_boardVars(Running(t) /\ (PlayerNext(t) \/ Crash(t)) /\ UNCHANGED board)
  /\ \A s \in Settlers \ Served : <>[](AtPc(s, "idle") /\ board[s].pc = "none")
  /\ \A s \in Served :
       /\ WF_boardVars(BoardNext(s) \/ BoardCrash(s))
       /\ \A p \in Puzzles :
            /\ SF_boardVars(p \in Swept /\ BoardNext(s) /\ sweep'[s].queue # {} /\ AtPc(s, "idle"))
            /\ SF_boardVars(FinalizeBegin(s, p) /\ Reconcile(s))
       /\ SF_boardVars(FinalizeLock(s) /\ Reconcile(s))
       /\ SF_boardVars(FinalizeForfeit(s) /\ Reconcile(s))
       /\ SF_boardVars(FinalizeAverage(s) /\ Reconcile(s))
       /\ SF_boardVars(FinalizeWrite(s) /\ Reconcile(s))

FairReadSpec == ReadSpec /\ ReadFairness

PeriodAt(t) == ManilaDate(t) \div PeriodDays

(* Whoever completed enough days of a period is on its board in the end,   *)
(* or the period is over, however many settlements were missed, failed or  *)
(* cut short.                                                              *)
CompletedDaysQualify ==
  \A u \in Users : \A n \in {PeriodAt(t) : t \in Time} :
    PeriodAt(now) = n /\ Cardinality(Boards!DaysOver(u)) >= Threshold
      ~> PeriodAt(now) # n \/ u \in Boards!Qualified(Boards!today)
=============================================================================
