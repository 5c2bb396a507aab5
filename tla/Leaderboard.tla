----------------------------- MODULE Leaderboard -----------------------------
(***************************************************************************)
(* The boards (server/leaderboard/service.ts): each is one SELECT, hence a *)
(* function of the committed tables and the clock.  The single-day boards  *)
(* rank the COMPLETED games of one date; the week and month boards score   *)
(* the finalized days of the period so far, with a penalty for each day    *)
(* not completed, and today's completed game.  The tables move as          *)
(* DailyContest says, which the server implements.                         *)
(***************************************************************************)
EXTENDS DailyContest, FiniteSetsExt

CONSTANTS
  PeriodDays,   \* days of a week or month
  Threshold,    \* qualificationThreshold(period)
  Limit         \* the dense-rank cutoff, ?limit=

ASSUME BoardAssumption ==
  /\ PeriodDays \in Nat \ {0} /\ Threshold \in Nat \ {0} /\ Limit \in Nat \ {0}

(* Rows of a table are finitely many. *)
ASSUME FiniteAssumption == IsFiniteSet(Users) /\ IsFiniteSet(Puzzles)

today == ManilaDate(now)

PuzzlesOn(d) == {p \in Puzzles : IsRow(dailyPuzzles[p]) /\ dailyPuzzles[p].date = d}

NotNull(S) == S \ {None}

(* A wrong variant: RANK() instead of DENSE_RANK(). *)
RankWithGaps(u, order) == 1 + Cardinality({v \in Users : <<v, u>> \in order})

(* DENSE_RANK in an order, given as the pairs of users the first of which  *)
(* is ahead: one more than the number of distinct results ahead of u.      *)
DenseRank(u, order) ==
  LET ahead == {v \in Users : <<v, u>> \in order}
      ties(v) == {w \in ahead : <<v, w>> \notin order /\ <<w, v>> \notin order}
  IN  1 + Cardinality({ties(v) : v \in ahead})

-----------------------------------------------------------------------------
(* singleDayBoard *)

(* A wrong variant: the status of the game is not asked for. *)
PlayedOn(d) == {u \in Users : \E p \in PuzzlesOn(d) : games[p][u].status # "NONE"}

SolvedOn(d) == {u \in Users : \E p \in PuzzlesOn(d) : games[p][u].status = "COMPLETED"}

GameOn(d, u) == games[CHOOSE p \in PuzzlesOn(d) : games[p][u].status # "NONE"][u]

(* ASC, NULLS LAST *)
Before(a, b) == a # None /\ (b # None => a < b)

(* ORDER BY completion_time_ms, guess_count, completed_at *)
DayAhead(d, u, v) ==
  LET g == GameOn(d, u)  h == GameOn(d, v) IN
  \/ Before(g.completionTime, h.completionTime)
  \/ /\ g.completionTime = h.completionTime
     /\ \/ g.guessCount < h.guessCount
        \/ g.guessCount = h.guessCount /\ Before(g.completedAt, h.completedAt)

DayOrder(d) == {pair \in SolvedOn(d) \X SolvedOn(d) : DayAhead(d, pair[1], pair[2])}

DayRank(d, u) == DenseRank(u, DayOrder(d))

singleDayEntries(d) == {u \in SolvedOn(d) : DayRank(d, u) <= Limit}

-----------------------------------------------------------------------------
(* frameCtes: the days of the period so far that count *)

FrameStart(d) == (d \div PeriodDays) * PeriodDays

IsFinalized(p) == dailyPuzzles[p].status = "FINALIZED"

Frame(d) ==
  {p \in Puzzles :
     /\ IsRow(dailyPuzzles[p]) /\ FrameStart(d) <= dailyPuzzles[p].date /\ dailyPuzzles[p].date <= d
     /\ \/ IsFinalized(p) /\ frozen[p].average # None
        \/ dailyPuzzles[p].date = d}

(* A wrong variant: the raw guess_count of a game that was not completed. *)
DayGuessesRaw(p, u) == games[p][u].guessCount

(* What a day of the frame adds to a user's time, None when it is not one  *)
(* of their days; and to their guesses.                                    *)
DayTime(p, u) ==
  IF Counted(games[p][u]) THEN games[p][u].completionTime
  ELSE IF IsFinalized(p) THEN frozen[p].penalty ELSE None

DayGuesses(p, u) == IF Counted(games[p][u]) THEN games[p][u].guessCount ELSE MaxGuesses

CompletedDays(d, u) == {p \in Frame(d) : IsFinalized(p) /\ Counted(games[p][u])}

scored(d, u) ==
  LET days == {p \in Frame(d) : DayTime(p, u) # None}
      completedAt == NotNull({games[p][u].completedAt : p \in Frame(d)})
  IN
  [days |-> Cardinality(days),
   time |-> IF days = {} THEN None ELSE SumFunction([p \in days |-> DayTime(p, u)]),
   guesses |-> SumFunction([p \in days |-> DayGuesses(p, u)]),
   completed |-> Cardinality(CompletedDays(d, u)),
   earliest |-> IF completedAt = {} THEN None ELSE Min(completedAt)]

Qualifies(s) == s.days > 0 /\ s.completed >= Threshold

Qualified(d) == {u \in Users : Qualifies(scored(d, u))}

scores(d) == [u \in Users |-> scored(d, u)]

(* ORDER BY time / days, guesses / days, earliest NULLS LAST *)
PeriodAhead(s, r) ==
  \/ s.time * r.days < r.time * s.days
  \/ /\ s.time * r.days = r.time * s.days
     /\ \/ s.guesses * r.days < r.guesses * s.days
        \/ s.guesses * r.days = r.guesses * s.days /\ Before(s.earliest, r.earliest)

PeriodOrder(d) ==
  LET score == scores(d) IN
  {pair \in Qualified(d) \X Qualified(d) : PeriodAhead(score[pair[1]], score[pair[2]])}

PeriodRank(d, u) == DenseRank(u, PeriodOrder(d))

multiDayEntries(d) == {u \in Qualified(d) : PeriodRank(d, u) <= Limit}

-----------------------------------------------------------------------------
(* Properties *)

(* The days of the running period that are over and that u completed. *)
DaysOver(u) ==
  {p \in Puzzles :
     /\ IsRow(dailyPuzzles[p]) /\ dailyPuzzles[p].expiresAt <= now
     /\ FrameStart(dailyPuzzles[p].date) = FrameStart(today)
     /\ games[p][u].status = "COMPLETED"}

(* dailyScore of the architecture, from the games alone: a finalized day   *)
(* somebody completed counts for everybody, with the time of the game or   *)
(* the average of that day's completions plus the penalty; a day nobody    *)
(* completed does not count; today counts for those who completed it.      *)
(* What finalization froze and what the board adds up together give that.  *)
(* The final tiebreaker is a completion on a finalized day although the    *)
(* statement takes the earliest of the whole frame, today's included.      *)
ScoresByDefinition ==
  LET Solvers(p) == {v \in Users : games[p][v].status = "COMPLETED"}
      InPeriod(date) == date <= today /\ \A d \in (date + 1)..today : d % PeriodDays # 0
      eligible == {p \in Puzzles :
        IsFinalized(p) /\ InPeriod(dailyPuzzles[p].date) /\ Solvers(p) # {}}
      dailyScore(p, u) ==
        IF u \in Solvers(p) THEN games[p][u].completionTime
        ELSE FrozenOf(CompletionTimes(games[p])).penalty
      mine(u) == eligible \cup {p \in PuzzlesOn(today) : u \in Solvers(p)}
      score == scores(today)
  IN
  \A u \in Users :
    /\ score[u].days = Cardinality(mine(u))
    /\ mine(u) # {} => score[u].time = SumFunction([p \in mine(u) |-> dailyScore(p, u)])
    /\ score[u].guesses = SumFunction(
         [p \in mine(u) |-> IF u \in Solvers(p) THEN games[p][u].guessCount ELSE MaxGuesses])
    /\ u \in Qualified(today) =>
         \E p \in eligible : u \in Solvers(p) /\ games[p][u].completedAt = score[u].earliest

(* Ranks are 1..n without gaps, equal exactly for ties; so the cutoff      *)
(* keeps every tie and shows Limit distinct results when there are that    *)
(* many, on the day's board as on the period's.                            *)
RanksAreDense ==
  LET Dense(Q, rank, order) ==
        /\ {rank[u] : u \in Q} = 1..Cardinality({rank[u] : u \in Q})
        /\ \A u, v \in Q : rank[u] < rank[v] <=> <<u, v>> \in order
  IN
  /\ \A d \in {today, today - 1} :
       Dense(SolvedOn(d), [u \in SolvedOn(d) |-> DayRank(d, u)], DayOrder(d))
  /\ Dense(Qualified(today), [u \in Qualified(today) |-> PeriodRank(today, u)],
           PeriodOrder(today))

(* Whoever is on a day's board stays on it, and their rank only gets       *)
(* worse, as others complete, while late guesses commit and the day is     *)
(* settled: nothing takes a result away or changes it.                     *)
DayRankOnlyWorsens ==
  [][\A d \in Dates : \A u \in SolvedOn(d) :
       u \in SolvedOn(d)' /\ DayRank(d, u) <= DayRank(d, u)']_vars

(* Who qualifies for a week or month stays qualified until it is over,     *)
(* whatever is settled, moved, deleted or played meanwhile.                *)
QualificationKept ==
  [][FrameStart(today)' = FrameStart(today) =>
       Qualified(today) \subseteq Qualified(today)']_vars
=============================================================================
