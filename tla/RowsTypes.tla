----------------------------- MODULE RowsTypes ------------------------------
(***************************************************************************)
(* The types of what the operators of Rows return.                         *)
(***************************************************************************)
EXTENDS Rows, TLAPS

(* The end of a Manila day is an instant. *)
LEMMA ExpiryNat == ASSUME NEW d \in Dates PROVE ExpiresAt(d) \in Nat
  <1>1. d \in Nat /\ DayTicks \in Nat
    BY BoundsAssumption DEF Dates
  <1>2. \A m, n \in Nat : (m + 1) * n \in Nat
    OBVIOUS
  <1> QED
    BY <1>1, <1>2 DEF ExpiresAt

(* A row scheduled from well-typed values is a row. *)
LEMMA ScheduledType ==
  ASSUME NEW d \in Dates, NEW w \in Answers, NEW h \in Letters
  PROVE  Scheduled(d, w, h) \in PuzzleRow
  BY ExpiryNat DEF Scheduled, PuzzleRow

(* A deleted or absent row is a row. *)
LEMMA EmptyRowType ==
  ASSUME NEW status \in {"ABSENT", "DELETED"}
  PROVE  EmptyRow(status) \in PuzzleRow
  BY BoundsAssumption DEF EmptyRow, PuzzleRow, Dates

(* Two rows with the same contents: all that an admin puts into a row.     *)
SameContents(r, s) ==
  r.date = s.date /\ r.answer = s.answer /\ r.hint = s.hint /\ r.expiresAt = s.expiresAt

(* The row a player writes keeps its type and contents, and is locked.     *)
LEMMA OpenedType ==
  ASSUME NEW row \in PuzzleRow, NEW ts \in Time
  PROVE  /\ Opened(row, ts) \in PuzzleRow
         /\ SameContents(Opened(row, ts), row)
         /\ Opened(row, ts).status = "ACTIVE"
         /\ Opened(row, ts).lockedAt # None
         /\ row.lockedAt # None => Opened(row, ts).lockedAt = row.lockedAt
  <1>1. ts # None
    BY NamesAssumption, BoundsAssumption DEF Time
  <1> QED
    BY <1>1 DEF Opened, PuzzleRow, SameContents

(* A finalized row is a row with the same contents and lock.               *)
LEMMA FinalizedType ==
  ASSUME NEW row \in PuzzleRow, NEW ts \in Time
  PROVE  /\ Finalized(row, ts) \in PuzzleRow
         /\ SameContents(Finalized(row, ts), row)
         /\ Finalized(row, ts).status = "FINALIZED" /\ Finalized(row, ts).finalizedAt = ts
         /\ Finalized(row, ts).lockedAt = row.lockedAt
  BY DEF Finalized, PuzzleRow, SameContents

(* So is one the cron has activated.                                       *)
LEMMA ActivatedType ==
  ASSUME NEW row \in PuzzleRow
  PROVE  LET active == [row EXCEPT !.status = "ACTIVE"] IN
         /\ active \in PuzzleRow /\ SameContents(active, row)
         /\ active.status = "ACTIVE" /\ active.lockedAt = row.lockedAt
  BY DEF PuzzleRow, SameContents

(* A completed game has a completion time.                                 *)
LEMMA TimeType ==
  ASSUME NEW game \in GameRow, Counted(game)
  PROVE  game.completionTime \in Int /\ game.completionTime # None
  BY DEF GameRow, Counted

(* A started game is a game row.                                           *)
LEMMA StartedType ==
  ASSUME NEW game \in GameRow, NEW ts \in Time
  PROVE  StartedGame(game, ts) \in GameRow
  BY BoundsAssumption DEF StartedGame, NewGame, GameRow

(* A guess keeps the game row in its type, guess_count included.           *)
LEMMA GuessedType ==
  ASSUME NEW game \in GameRow, NEW n \in 1..MaxGuesses, NEW solved \in BOOLEAN, NEW ts \in Time
  PROVE  /\ GuessedGame(game, n, solved, ts) \in GameRow
         /\ GuessedGame(game, n, solved, ts).startedAt = game.startedAt
         /\ GuessedGame(game, n, solved, ts).guessCount = n
         /\ GuessedGame(game, n, solved, ts).status # "NONE"
  <1>1. CASE solved
    <2>1. GuessedGame(game, n, solved, ts)
            = [status |-> "COMPLETED", startedAt |-> game.startedAt, guessCount |-> n,
               completedAt |-> ts, completionTime |-> ts - game.startedAt]
      BY <1>1 DEF GuessedGame, GameRow
    <2>2. ts - game.startedAt \in Int /\ ts - game.startedAt # None
      BY BoundsAssumption, NamesAssumption DEF GameRow, Time
    <2> QED
      BY <2>1, <2>2, BoundsAssumption DEF GameRow
  <1>2. CASE ~solved
    <2> DEFINE status == IF n >= MaxGuesses THEN "FAILED" ELSE "ACTIVE"
    <2>1. GuessedGame(game, n, solved, ts)
            = [status |-> status, startedAt |-> game.startedAt, guessCount |-> n,
               completedAt |-> game.completedAt, completionTime |-> game.completionTime]
      BY <1>2 DEF GuessedGame, GameRow
    <2>2. status \in {"ACTIVE", "FAILED"}
      OBVIOUS
    <2> HIDE DEF status
    <2> QED
      BY <2>1, <2>2, BoundsAssumption DEF GameRow
  <1> QED
    BY <1>1, <1>2

(* A forfeited game is a game row.                                         *)
LEMMA ForfeitedType ==
  ASSUME NEW game \in GameRow
  PROVE  /\ Forfeited(game) \in GameRow
         /\ Forfeited(game).status = "FORFEITED" /\ Forfeited(game).startedAt = game.startedAt
         /\ Forfeited(game).guessCount = game.guessCount
  BY DEF Forfeited, GameRow

(* The tables before the first request are well typed. *)
LEMMA InitialTypes ==
  /\ InitialPuzzles \in [Puzzles -> PuzzleRow]
  /\ InitialGames \in [Puzzles -> [Users -> GameRow]]
  /\ InitialGuesses \in [Puzzles -> [Users -> SUBSET GuessRow]]
  <1>1. ASSUME NEW p \in Puzzles PROVE InitialRow(Seed[p]) \in PuzzleRow
    <2>1. CASE Seed[p] = None
      BY <2>1, EmptyRowType DEF InitialRow, NoRow
    <2>2. CASE Seed[p] # None
      <3>1. Seed[p] \in [date: Dates, answer: Answers, hint: Letters]
        BY <2>2, SeedAssumption
      <3> QED
        BY <2>2, <3>1, ScheduledType DEF InitialRow
    <2> QED
      BY <2>1, <2>2
  <1>2. NoGame \in GameRow
    BY BoundsAssumption DEF NoGame, GameRow, Time
  <1> QED
    BY <1>1, <1>2 DEF InitialPuzzles, InitialGames, InitialGuesses
=============================================================================
