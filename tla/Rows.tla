-------------------------------- MODULE Rows --------------------------------
(***************************************************************************)
(* The rows of the tables daily_puzzles, games and guesses                 *)
(* (server/db/schema.ts), the Manila calendar (server/puzzle/manila.ts)    *)
(* and what each operation computes from a row.                            *)
(***************************************************************************)
EXTENDS Integers, FiniteSets, Functions

CONSTANTS
  Users,        \* signed-in players
  Puzzles,      \* ids of daily_puzzles rows; an id is never used twice
  Answers,      \* the approved answer dictionary
  Words,        \* VALID_GUESS_SET, the words accepted as a guess
  Letters,      \* letters a hint can be
  LettersOf,    \* the letters of each answer
  MaxGuesses,   \* MAX_GUESSES (6 in the code)
  Penalty,      \* NON_COMPLETION_PENALTY_MS
  DayTicks,     \* clock ticks in one Asia/Manila day
  MaxTime,      \* bound: the clock stops here
  MaxDate,      \* bound: the last date an admin schedules
  Seed,         \* the puzzles scheduled before the first state
  None          \* SQL NULL / undefined

Time  == 0..MaxTime
Dates == 0..MaxDate

ASSUME BoundsAssumption ==
  /\ MaxGuesses \in Nat \ {0} /\ DayTicks \in Nat \ {0}
  /\ MaxTime \in Nat /\ MaxDate \in Nat /\ Penalty \in Nat

ASSUME NamesAssumption ==
  /\ None \notin Users \cup Puzzles \cup Words \cup Letters \cup Int
  /\ Answers \subseteq Words
  /\ LettersOf \in [Answers -> SUBSET Letters]

(* The seeded rows satisfy what schedulePuzzle establishes for a new row.  *)
ASSUME SeedAssumption ==
  /\ Seed \in [Puzzles -> [date: Dates, answer: Answers, hint: Letters] \cup {None}]
  /\ \A p \in Puzzles : Seed[p] # None => Seed[p].hint \in LettersOf[Seed[p].answer]
  /\ \A p, q \in Puzzles :
       p # q /\ Seed[p] # None /\ Seed[q] # None =>
         Seed[p].date # Seed[q].date /\ Seed[p].answer # Seed[q].answer

-----------------------------------------------------------------------------
(* daily_puzzles.  The frozen columns average_completion_time_ms and       *)
(* non_completion_penalty_ms are the separate table `frozen'.              *)

PuzzleRow ==
  [status: {"ABSENT", "SCHEDULED", "ACTIVE", "FINALIZED", "DELETED"},
   date: Dates, answer: Answers \cup {None}, hint: Letters \cup {None},
   expiresAt: Nat, lockedAt: Time \cup {None}, finalizedAt: Time \cup {None}]

EmptyRow(status) ==
  [status |-> status, date |-> 0, answer |-> None, hint |-> None,
   expiresAt |-> 0, lockedAt |-> None, finalizedAt |-> None]

NoRow   == EmptyRow("ABSENT")
Deleted == EmptyRow("DELETED")

IsRow(row) == row.status \notin {"ABSENT", "DELETED"}

(* The Asia/Manila calendar date of an instant, and the instant a date     *)
(* ends: the start of the next Manila day.                                 *)
ManilaDate(t) == t \div DayTicks
ExpiresAt(d)  == (d + 1) * DayTicks

Scheduled(d, a, h) ==
  [status |-> "SCHEDULED", date |-> d, answer |-> a, hint |-> h,
   expiresAt |-> ExpiresAt(d), lockedAt |-> None, finalizedAt |-> None]

(* startGame: ACTIVE, and locked_at is set once. *)
Opened(row, ts) ==
  [row EXCEPT !.status = "ACTIVE",
              !.lockedAt = IF row.lockedAt = None THEN ts ELSE row.lockedAt]

Finalized(row, ts) == [row EXCEPT !.status = "FINALIZED", !.finalizedAt = ts]

(* validateHintLetter *)
HintValid(h, w) == h \in LettersOf[w]

-----------------------------------------------------------------------------
(* games and guesses *)

(* completion_time_ms is NULL until the game is completed. *)
GameRow ==
  {game \in [status: {"NONE", "ACTIVE", "COMPLETED", "FAILED", "FORFEITED"},
             startedAt: Time, guessCount: 0..MaxGuesses,
             completedAt: Time \cup {None}, completionTime: Int \cup {None}] :
     game.status = "COMPLETED" => game.completionTime # None}

GuessRow == [number: 1..MaxGuesses, word: Words, at: Time]

NoGame == [status |-> "NONE", startedAt |-> 0, guessCount |-> 0,
           completedAt |-> None, completionTime |-> None]

NewGame(ts) == [status |-> "ACTIVE", startedAt |-> ts, guessCount |-> 0,
                completedAt |-> None, completionTime |-> None]

(* A wrong variant: an upsert that resets the existing game. *)
StartedGameReset(game, ts) == IF game = None THEN NoGame ELSE NewGame(ts)

(* Insert-ignore on UNIQUE(user_id, puzzle_id): an existing game is        *)
(* resumed as it is.                                                       *)
StartedGame(game, ts) ==
  IF game.status = "NONE" THEN NewGame(ts) ELSE game

(* The n-th guess of a game, right or wrong, in a transaction begun at ts. *)
GuessedGame(game, n, solved, ts) ==
  IF solved
    THEN [game EXCEPT !.guessCount = n, !.status = "COMPLETED", !.completedAt = ts,
                      !.completionTime = ts - game.startedAt]
    ELSE [game EXCEPT !.guessCount = n,
                      !.status = IF n >= MaxGuesses THEN "FAILED" ELSE "ACTIVE"]

Forfeited(game) == [game EXCEPT !.status = "FORFEITED"]

-----------------------------------------------------------------------------
(* round(avg(completion_time_ms)) over the COMPLETED games, and the        *)
(* penalty added to it; both NULL when nobody completed.                   *)
RoundedAverage(times) ==
  LET n == Cardinality(DOMAIN times)
  IN  (2 * SumFunction(times) + n) \div (2 * n)

FrozenOf(times) ==
  IF DOMAIN times = {} THEN [average |-> None, penalty |-> None]
  ELSE [average |-> RoundedAverage(times), penalty |-> RoundedAverage(times) + Penalty]

Counted(game) == game.status = "COMPLETED"

CompletionTimes(row) ==
  [u \in {v \in Users : Counted(row[v])} |-> row[u].completionTime]

-----------------------------------------------------------------------------
InitialRow(s) == IF s = None THEN NoRow ELSE Scheduled(s.date, s.answer, s.hint)

InitialPuzzles == [p \in Puzzles |-> InitialRow(Seed[p])]
InitialGames   == [p \in Puzzles |-> [u \in Users |-> NoGame]]
InitialGuesses == [p \in Puzzles |-> [u \in Users |-> {}]]
=============================================================================
