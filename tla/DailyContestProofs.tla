------------------------- MODULE DailyContestProofs -------------------------
(***************************************************************************)
(* The safety properties of the tables hold in every behaviour of          *)
(* DailyContest, for every value of its constants.                         *)
(***************************************************************************)
EXTENDS DailyContest, RowsTypes, TLAPS

TablesType ==
  /\ now \in Time
  /\ dailyPuzzles \in [Puzzles -> PuzzleRow]
  /\ frozen = [p \in Puzzles |-> frozen[p]]
  /\ games \in [Puzzles -> [Users -> GameRow]]
  /\ guesses \in [Puzzles -> [Users -> SUBSET GuessRow]]

(* What the properties need beside one another: a lock is set only by a    *)
(* start, a game that has not begun has no guesses, and a FINALIZED row    *)
(* says when it was finalized.                                             *)
LockedIsOpened ==
  \A p \in Puzzles : dailyPuzzles[p].lockedAt # None =>
    dailyPuzzles[p].status \in {"ACTIVE", "FINALIZED"}

NotBegun ==
  \A p \in Puzzles, u \in Users : games[p][u].status = "NONE" =>
    games[p][u].guessCount = 0 /\ guesses[p][u] = {}

ScheduleInv == SoundSchedule /\ NotBeforeItsDay /\ LockedIsOpened /\ PlayedPuzzleKept
GameInv     == NotBegun /\ GuessesExplainStatus /\ PlayedWithinTheDay

FinalizedDated ==
  \A p \in Puzzles : dailyPuzzles[p].status = "FINALIZED" => dailyPuzzles[p].finalizedAt \in Time

FinalInv == FinalizedDated /\ FinalizedIsOver /\ FrozenMatchesGames

TableInv == TablesType /\ ScheduleInv /\ GameInv /\ FinalInv

(* The steps of an admin, and those of players and settlements. *)
AdminStep(p, ts) ==
  \/ \E row \in ScheduledRows : Schedule(p, row, ts) \/ Update(p, row, ts) \/ ReplaceToday(p, row, ts)
  \/ Delete(p, ts)

-----------------------------------------------------------------------------
(* Types *)

(* A scheduled row is a row, fresh, and expires at the end of its date. *)
LEMMA ScheduledRowType ==
  ASSUME NEW row \in ScheduledRows
  PROVE  /\ row \in PuzzleRow
         /\ row.status = "SCHEDULED" /\ row.lockedAt = None /\ row.finalizedAt = None
         /\ row.expiresAt = ExpiresAt(row.date)
  BY ScheduledType DEF ScheduledRows, Scheduled

(* Whatever an admin does, one row that nobody has opened is replaced by   *)
(* one that is fresh, or deleted, and nothing else changes.                *)
LEMMA AdminWrites ==
  ASSUME TablesType, LockedIsOpened, NEW p \in Puzzles, NEW ts \in Time, AdminStep(p, ts)
  PROVE  /\ UNCHANGED <<now, frozen, games, guesses>>
         /\ dailyPuzzles[p].status \in {"ABSENT", "SCHEDULED"} /\ dailyPuzzles[p].lockedAt = None
         /\ \E row \in PuzzleRow :
              /\ dailyPuzzles' = [dailyPuzzles EXCEPT ![p] = row]
              /\ row.status \in {"SCHEDULED", "DELETED"} /\ row.lockedAt = None
              /\ row.status = "SCHEDULED" =>
                   WellScheduled(p, row) /\ row.expiresAt = ExpiresAt(row.date)
  <1>1. ASSUME NEW row \in ScheduledRows,
               Schedule(p, row, ts) \/ Update(p, row, ts) \/ ReplaceToday(p, row, ts)
        PROVE  /\ Put(p, row)
               /\ dailyPuzzles[p].status \in {"ABSENT", "SCHEDULED"}
               /\ dailyPuzzles[p].lockedAt = None
    BY <1>1 DEF Schedule, Update, ReplaceToday, Editable, LockedIsOpened
  <1>2. CASE Delete(p, ts)
    BY <1>2, EmptyRowType DEF Delete, Editable, Deleted, EmptyRow
  <1>3. CASE \E row \in ScheduledRows :
               Schedule(p, row, ts) \/ Update(p, row, ts) \/ ReplaceToday(p, row, ts)
    BY <1>1, <1>3, ScheduledRowType DEF Put
  <1> QED
    BY <1>2, <1>3 DEF AdminStep

(* The first state is well typed. *)
LEMMA TablesInit == Init => TablesType
  BY InitialTypes, BoundsAssumption DEF Init, TablesType, Time

(* What each step of a player or a settlement writes, row by row. *)
LEMMA StartWrites ==
  ASSUME TablesType, NEW u \in Users, NEW p \in Puzzles, NEW ts \in Time, Start(u, p, ts)
  PROVE  /\ dailyPuzzles'[p] = Opened(dailyPuzzles[p], ts)
         /\ \A q \in Puzzles \ {p} : dailyPuzzles'[q] = dailyPuzzles[q] /\ games'[q] = games[q]
         /\ games'[p][u] = StartedGame(games[p][u], ts)
         /\ \A v \in Users \ {u} : games'[p][v] = games[p][v]
         /\ TablesType'
  <1>1. Opened(dailyPuzzles[p], ts) \in PuzzleRow /\ StartedGame(games[p][u], ts) \in GameRow
    BY OpenedType, StartedType DEF TablesType
  <1> QED
    BY <1>1 DEF Start, TablesType

(* A guess adds one row to one game, numbered next. *)
LEMMA GuessWrites ==
  ASSUME TablesType, NEW u \in Users, NEW p \in Puzzles, NEW word \in Words, NEW ts \in Time,
         Guess(u, p, word, ts)
  PROVE  LET n == games[p][u].guessCount + 1 IN
         /\ n \in 1..MaxGuesses
         /\ games'[p][u] = GuessedGame(games[p][u], n, word = dailyPuzzles[p].answer, ts)
         /\ guesses'[p][u] = guesses[p][u] \cup {[number |-> n, word |-> word, at |-> ts]}
         /\ \A q \in Puzzles \ {p} : games'[q] = games[q] /\ guesses'[q] = guesses[q]
         /\ \A v \in Users \ {u} : games'[p][v] = games[p][v] /\ guesses'[p][v] = guesses[p][v]
         /\ TablesType'
  <1> DEFINE n == games[p][u].guessCount + 1
             g == [number |-> n, word |-> word, at |-> ts]
  <1>1. games[p][u] \in GameRow
    BY DEF TablesType
  <1>2. n \in 1..MaxGuesses
    BY <1>1, BoundsAssumption DEF Guess, GameRow
  <1>3. GuessedGame(games[p][u], n, word = dailyPuzzles[p].answer, ts) \in GameRow
    BY <1>1, <1>2, GuessedType
  <1>4. g \in GuessRow
    BY <1>2 DEF GuessRow
  <1> QED
    BY <1>2, <1>3, <1>4 DEF Guess, TablesType

(* A settlement writes one puzzle, its frozen values and its running games. *)
LEMMA SettleWrites ==
  ASSUME TablesType, NEW p \in Puzzles, NEW ts \in Time, Settle(p, ts)
  PROVE  /\ dailyPuzzles'[p] = Finalized(dailyPuzzles[p], ts)
         /\ frozen'[p] = FrozenOf(CompletionTimes(games[p]))
         /\ \A q \in Puzzles \ {p} :
              dailyPuzzles'[q] = dailyPuzzles[q] /\ games'[q] = games[q] /\ frozen'[q] = frozen[q]
         /\ \A u \in Users : games'[p][u] = IF games[p][u].status = "ACTIVE"
                                              THEN Forfeited(games[p][u]) ELSE games[p][u]
         /\ TablesType'
  <1>1. Finalized(dailyPuzzles[p], ts) \in PuzzleRow
    BY FinalizedType DEF TablesType
  <1>2. [u \in Users |-> IF games[p][u].status = "ACTIVE" THEN Forfeited(games[p][u])
                         ELSE games[p][u]] \in [Users -> GameRow]
    BY ForfeitedType DEF TablesType
  <1> QED
    BY <1>1, <1>2 DEF Settle, TablesType

(* An activation writes one status. *)
LEMMA ActivateWrites ==
  ASSUME TablesType, NEW p \in Puzzles, NEW ts \in Time, Activate(p, ts)
  PROVE  /\ dailyPuzzles'[p] = [dailyPuzzles[p] EXCEPT !.status = "ACTIVE"]
         /\ \A q \in Puzzles \ {p} : dailyPuzzles'[q] = dailyPuzzles[q]
         /\ TablesType'
  <1>1. [dailyPuzzles[p] EXCEPT !.status = "ACTIVE"] \in PuzzleRow
    BY ActivatedType DEF TablesType
  <1> QED
    BY <1>1 DEF Activate, TablesType

(* Every step keeps the types. *)
LEMMA TablesStep ==
  ASSUME TablesType, LockedIsOpened, [Next]_vars
  PROVE  TablesType'
  <1>1. CASE Tick
    BY <1>1, BoundsAssumption DEF Tick, TablesType, Time
  <1>2. ASSUME NEW p \in Puzzles, NEW ts \in Time, Step(p, ts)
        PROVE  TablesType'
    <2>1. CASE \E u \in Users : Start(u, p, ts)
      BY <2>1, StartWrites
    <2>2. CASE \E u \in Users, word \in Words : Guess(u, p, word, ts)
      BY <2>2, GuessWrites
    <2>3. CASE Settle(p, ts)
      BY <2>3, SettleWrites
    <2>4. CASE Activate(p, ts)
      BY <2>4, ActivateWrites
    <2>5. CASE AdminStep(p, ts)
      BY <2>5, AdminWrites DEF TablesType
    <2> QED
      BY <1>2, <2>1, <2>2, <2>3, <2>4, <2>5 DEF Step, AdminStep
  <1>3. CASE UNCHANGED vars
    BY <1>3 DEF vars, TablesType
  <1> QED
    BY <1>1, <1>2, <1>3 DEF Next

-----------------------------------------------------------------------------
(* The schedule *)

PlayStep(p, ts) ==
  \/ \E u \in Users : Start(u, p, ts)
  \/ \E u \in Users, word \in Words : Guess(u, p, word, ts)
  \/ Settle(p, ts) \/ Activate(p, ts)

(* The date of a later instant is not earlier. *)
LEMMA DatesGrow ==
  ASSUME NEW t \in Time, NEW n \in Time, t <= n
  PROVE  ManilaDate(t) <= ManilaDate(n)
  <1>1. \A d \in Nat \ {0}, a \in Nat, b \in Nat : a <= b => a \div d <= b \div d
    OBVIOUS
  <1> QED
    BY <1>1, BoundsAssumption DEF ManilaDate, Time

(* Playing and settling keep what an admin put into a row, and its lock.   *)
LEMMA PlayKeepsRows ==
  ASSUME TablesType, NEW p \in Puzzles, NEW ts \in Time, PlayStep(p, ts), NEW q \in Puzzles
  PROVE  /\ SameContents(dailyPuzzles'[q], dailyPuzzles[q])
         /\ IsRow(dailyPuzzles'[q]) <=> IsRow(dailyPuzzles[q])
         /\ dailyPuzzles[q].lockedAt # None => dailyPuzzles'[q].lockedAt = dailyPuzzles[q].lockedAt
         /\ dailyPuzzles[q].status \in {"ACTIVE", "FINALIZED"} =>
              dailyPuzzles'[q].status \in {"ACTIVE", "FINALIZED"}
         /\ now' = now
  <1>0. dailyPuzzles[p] \in PuzzleRow /\ SameContents(dailyPuzzles[q], dailyPuzzles[q])
    BY DEF TablesType, SameContents
  <1>1. CASE \E u \in Users : Start(u, p, ts)
    BY <1>0, <1>1, StartWrites, OpenedType DEF Start, IsRow
  <1>2. CASE \E u \in Users, word \in Words : Guess(u, p, word, ts)
    BY <1>0, <1>2 DEF Guess
  <1>3. CASE Settle(p, ts)
    BY <1>0, <1>3, SettleWrites, FinalizedType DEF Settle, IsRow
  <1>4. CASE Activate(p, ts)
    BY <1>0, <1>4, ActivateWrites, ActivatedType DEF Activate, IsRow
  <1> QED
    BY <1>1, <1>2, <1>3, <1>4 DEF PlayStep

(* The rows of the first state are sound. *)
LEMMA ScheduleInit == Init => ScheduleInv
  <1> SUFFICES ASSUME Init PROVE ScheduleInv
    OBVIOUS
  <1>1. ASSUME NEW p \in Puzzles
        PROVE  \/ Seed[p] = None /\ dailyPuzzles[p] = NoRow
               \/ /\ Seed[p] # None
                  /\ Seed[p] \in [date: Dates, answer: Answers, hint: Letters]
                  /\ dailyPuzzles[p] = Scheduled(Seed[p].date, Seed[p].answer, Seed[p].hint)
    BY SeedAssumption DEF Init, InitialPuzzles, InitialRow
  <1>2. ASSUME NEW p \in Puzzles
        PROVE  /\ dailyPuzzles[p].status \in {"ABSENT", "SCHEDULED"} /\ dailyPuzzles[p].lockedAt = None
               /\ IsRow(dailyPuzzles[p]) =>
                    /\ Seed[p] # None /\ dailyPuzzles[p].date = Seed[p].date
                    /\ dailyPuzzles[p].answer = Seed[p].answer /\ dailyPuzzles[p].hint = Seed[p].hint
                    /\ dailyPuzzles[p].expiresAt = ExpiresAt(Seed[p].date)
    <2>1. CASE dailyPuzzles[p] = NoRow
      BY <2>1 DEF NoRow, EmptyRow, IsRow
    <2>2. CASE /\ Seed[p] # None
               /\ dailyPuzzles[p] = Scheduled(Seed[p].date, Seed[p].answer, Seed[p].hint)
      BY <2>2 DEF Scheduled, IsRow
    <2> QED
      BY <1>1, <2>1, <2>2
  <1>3. SoundSchedule
    BY <1>2, SeedAssumption DEF SoundSchedule, HintValid
  <1>4. NotBeforeItsDay /\ LockedIsOpened
    BY <1>2 DEF NotBeforeItsDay, LockedIsOpened
  <1>5. PlayedPuzzleKept
    BY DEF Init, InitialGames, NoGame, PlayedPuzzleKept
  <1> QED
    BY <1>3, <1>4, <1>5 DEF ScheduleInv

(* Playing and settling keep the schedule sound. *)
LEMMA SchedulePlayed ==
  ASSUME TablesType, ScheduleInv, NEW p \in Puzzles, NEW ts \in Time, ts <= now, PlayStep(p, ts)
  PROVE  ScheduleInv'
  <1> USE DEF ScheduleInv
  <1>1. SoundSchedule'
    BY PlayKeepsRows DEF SoundSchedule, SameContents
  <1>2. NotBeforeItsDay'
    <2> SUFFICES ASSUME NEW q \in Puzzles, dailyPuzzles'[q].status \in {"ACTIVE", "FINALIZED"}
                 PROVE  dailyPuzzles'[q].date <= ManilaDate(now')
      BY DEF NotBeforeItsDay
    <2>1. \/ dailyPuzzles[q].status \in {"ACTIVE", "FINALIZED"}
          \/ dailyPuzzles[q].date = ManilaDate(ts)
      <3>1. CASE \E u \in Users : Start(u, p, ts)
        BY <3>1, StartWrites DEF Start
      <3>2. CASE \E u \in Users, word \in Words : Guess(u, p, word, ts)
        BY <3>2 DEF Guess
      <3>3. CASE Settle(p, ts)
        BY <3>3, SettleWrites DEF Settle
      <3>4. CASE Activate(p, ts)
        BY <3>4, ActivateWrites DEF Activate
      <3> QED
        BY <3>1, <3>2, <3>3, <3>4 DEF PlayStep
    <2>2. ManilaDate(ts) <= ManilaDate(now)
      BY DatesGrow DEF TablesType
    <2> QED
      BY <2>1, <2>2, PlayKeepsRows DEF NotBeforeItsDay, SameContents
  <1>3. LockedIsOpened' /\ PlayedPuzzleKept'
    <2>0. dailyPuzzles[p] \in PuzzleRow
      BY DEF TablesType
    <2>1. CASE \E u \in Users : Start(u, p, ts)
      <3>1. dailyPuzzles'[p].status = "ACTIVE" /\ dailyPuzzles'[p].lockedAt # None
        BY <2>0, <2>1, StartWrites, OpenedType
      <3>2. \A q \in Puzzles \ {p} : dailyPuzzles'[q] = dailyPuzzles[q] /\ games'[q] = games[q]
        BY <2>1, StartWrites
      <3> QED
        BY <3>1, <3>2 DEF LockedIsOpened, PlayedPuzzleKept
    <2>2. CASE \E u \in Users, word \in Words : Guess(u, p, word, ts)
      <3>1. PICK u \in Users, word \in Words : Guess(u, p, word, ts)
        BY <2>2
      <3>2. games[p][u].status # "NONE"
        BY <3>1 DEF Guess
      <3> QED
        BY <3>1, <3>2, GuessWrites DEF Guess, LockedIsOpened, PlayedPuzzleKept
    <2>3. CASE Settle(p, ts)
      <3>1. /\ dailyPuzzles'[p].lockedAt = dailyPuzzles[p].lockedAt
            /\ dailyPuzzles'[p].status = "FINALIZED"
        BY <2>0, <2>3, SettleWrites, FinalizedType
      <3>2. \A u \in Users : games'[p][u].status # "NONE" => games[p][u].status # "NONE"
        BY <2>3, SettleWrites
      <3>3. \A q \in Puzzles \ {p} : dailyPuzzles'[q] = dailyPuzzles[q] /\ games'[q] = games[q]
        BY <2>3, SettleWrites
      <3> QED
        BY <3>1, <3>2, <3>3 DEF LockedIsOpened, PlayedPuzzleKept
    <2>4. CASE Activate(p, ts)
      <3>1. /\ dailyPuzzles'[p].lockedAt = dailyPuzzles[p].lockedAt
            /\ dailyPuzzles'[p].status = "ACTIVE"
        BY <2>0, <2>4, ActivateWrites, ActivatedType
      <3>2. \A q \in Puzzles \ {p} : dailyPuzzles'[q] = dailyPuzzles[q]
        BY <2>4, ActivateWrites
      <3> QED
        BY <2>4, <3>1, <3>2 DEF Activate, LockedIsOpened, PlayedPuzzleKept
    <2> QED
      BY <2>1, <2>2, <2>3, <2>4 DEF PlayStep
  <1> QED
    BY <1>1, <1>2, <1>3

(* A row an admin replaces has no game; the new one has been checked.      *)
LEMMA ScheduleEdited ==
  ASSUME TablesType, ScheduleInv, NEW p \in Puzzles, NEW ts \in Time, AdminStep(p, ts)
  PROVE  ScheduleInv' /\ \A u \in Users : games[p][u].status = "NONE"
  <1> USE DEF ScheduleInv
  <1>1. PICK row \in PuzzleRow :
          /\ dailyPuzzles' = [dailyPuzzles EXCEPT ![p] = row]
          /\ row.status \in {"SCHEDULED", "DELETED"} /\ row.lockedAt = None
          /\ row.status = "SCHEDULED" =>
               WellScheduled(p, row) /\ row.expiresAt = ExpiresAt(row.date)
    BY AdminWrites
  <1>2. /\ UNCHANGED <<now, frozen, games, guesses>>
        /\ dailyPuzzles[p].status \in {"ABSENT", "SCHEDULED"}
    BY AdminWrites
  <1>3. dailyPuzzles'[p] = row /\ \A q \in Puzzles \ {p} : dailyPuzzles'[q] = dailyPuzzles[q]
    BY <1>1 DEF TablesType
  <1>4. SoundSchedule'
    BY <1>1, <1>3 DEF SoundSchedule, WellScheduled, IsRow
  <1>5. NotBeforeItsDay' /\ LockedIsOpened'
    BY <1>1, <1>2, <1>3 DEF NotBeforeItsDay, LockedIsOpened
  <1>6. \A u \in Users : games[p][u].status = "NONE"
    BY <1>2 DEF PlayedPuzzleKept
  <1>7. PlayedPuzzleKept'
    BY <1>2, <1>3, <1>6 DEF PlayedPuzzleKept
  <1> QED
    BY <1>4, <1>5, <1>6, <1>7

-----------------------------------------------------------------------------
(* Games *)

(* What the game of one player says, given the row of its puzzle.          *)
GameSound(p, u) ==
  LET game == games[p][u]  rows == guesses[p][u]  row == dailyPuzzles[p] IN
  /\ game.status = "NONE" => game.guessCount = 0 /\ rows = {}
  /\ \A g \in rows : g.number <= game.guessCount
  /\ \A n \in 1..game.guessCount : \E g \in rows : g.number = n
  /\ \A g, h \in rows : g.number = h.number => g = h
  /\ game.status = "COMPLETED" <=> \E g \in rows : g.word = row.answer
  /\ \A g \in rows : g.word = row.answer => g.number = game.guessCount
  /\ game.status = "FAILED" <=>
       game.guessCount = MaxGuesses /\ \A g \in rows : g.word # row.answer
  /\ game.status # "NONE" =>
       /\ ManilaDate(game.startedAt) = row.date
       /\ \A g \in rows : game.startedAt <= g.at /\ g.at < row.expiresAt
       /\ game.status = "COMPLETED" =>
            /\ \E g \in rows : g.word = row.answer /\ g.at = game.completedAt
            /\ game.completionTime = game.completedAt - game.startedAt

(* The three properties of games, one game at a time. *)
LEMMA GameByGame == GameInv <=> \A p \in Puzzles, u \in Users : GameSound(p, u)
  BY DEF GameInv, NotBegun, GuessesExplainStatus, PlayedWithinTheDay, GameSound

(* The same in the next state. *)
LEMMA GameByGameNext == GameInv' <=> \A p \in Puzzles, u \in Users : GameSound(p, u)'
  BY DEF GameInv, NotBegun, GuessesExplainStatus, PlayedWithinTheDay, GameSound

(* A game nobody touches stays sound while its puzzle keeps its contents.  *)
LEMMA GameUntouched ==
  ASSUME NEW p \in Puzzles, NEW u \in Users, GameSound(p, u),
         games'[p][u] = games[p][u], guesses'[p][u] = guesses[p][u],
         SameContents(dailyPuzzles'[p], dailyPuzzles[p])
  PROVE  GameSound(p, u)'
  BY DEF GameSound, SameContents

(* A game that is started, or resumed, is sound. *)
LEMMA GameStarted ==
  ASSUME TablesType, NEW p \in Puzzles, NEW u \in Users, NEW ts \in Time, Start(u, p, ts),
         GameSound(p, u)
  PROVE  GameSound(p, u)'
  <1>1. SameContents(dailyPuzzles'[p], dailyPuzzles[p])
    BY StartWrites, OpenedType DEF TablesType
  <1>2. guesses'[p][u] = guesses[p][u] /\ games'[p][u] = StartedGame(games[p][u], ts)
    BY StartWrites DEF Start
  <1>3. CASE games[p][u].status = "NONE"
    <2>1. games'[p][u] = NewGame(ts) /\ guesses'[p][u] = {}
      BY <1>2, <1>3 DEF StartedGame, GameSound
    <2>2. ManilaDate(ts) = dailyPuzzles'[p].date
      BY <1>1 DEF Start, SameContents
    <2> QED
      BY <2>1, <2>2, BoundsAssumption DEF GameSound, NewGame
  <1>4. CASE games[p][u].status # "NONE"
    BY <1>1, <1>2, <1>4, GameUntouched DEF StartedGame
  <1> QED
    BY <1>3, <1>4

(* A forfeited game is sound: it was running, so nobody had solved it.     *)
LEMMA GameForfeited ==
  ASSUME TablesType, NEW p \in Puzzles, NEW u \in Users, NEW ts \in Time, Settle(p, ts),
         GameSound(p, u)
  PROVE  GameSound(p, u)'
  <1>1. SameContents(dailyPuzzles'[p], dailyPuzzles[p]) /\ guesses'[p][u] = guesses[p][u]
    BY SettleWrites, FinalizedType DEF TablesType, Settle
  <1>2. CASE games[p][u].status = "ACTIVE"
    <2>1. games[p][u] \in GameRow /\ games'[p][u] = Forfeited(games[p][u])
      BY <1>2, SettleWrites DEF TablesType
    <2> QED
      BY <1>1, <1>2, <2>1, ForfeitedType DEF GameSound, SameContents
  <1>3. CASE games[p][u].status # "ACTIVE"
    BY <1>1, <1>3, SettleWrites, GameUntouched
  <1> QED
    BY <1>2, <1>3

(* The game that takes a guess is sound: the new row is the last, and its  *)
(* word alone can have solved it.                                          *)
LEMMA GameGuessed ==
  ASSUME TablesType, NEW p \in Puzzles, NEW u \in Users, NEW word \in Words, NEW ts \in Time,
         Guess(u, p, word, ts), GameSound(p, u)
  PROVE  GameSound(p, u)'
  <1> DEFINE game == games[p][u]
             rows == guesses[p][u]
             row == dailyPuzzles[p]
             n == game.guessCount + 1
             new == [number |-> n, word |-> word, at |-> ts]
             solved == word = row.answer
             rows2 == guesses'[p][u]
             game2 == games'[p][u]
  <1>1. /\ game \in GameRow /\ rows \in SUBSET GuessRow /\ n \in 1..MaxGuesses
        /\ game2 = GuessedGame(game, n, solved, ts) /\ rows2 = rows \cup {new}
        /\ dailyPuzzles' = dailyPuzzles
    <2>1. game \in GameRow /\ rows \in SUBSET GuessRow
      BY DEF TablesType
    <2>2. /\ n \in 1..MaxGuesses /\ rows2 = rows \cup {new}
          /\ game2 = GuessedGame(game, n, solved, ts)
      BY GuessWrites
    <2> QED
      BY <2>1, <2>2 DEF Guess
  <1>2. /\ game.status = "ACTIVE" /\ game.startedAt <= ts /\ ts < row.expiresAt
    BY DEF Guess
  <1>3. /\ game2.guessCount = n /\ game2.startedAt = game.startedAt
        /\ solved => /\ game2.status = "COMPLETED" /\ game2.completedAt = ts
                     /\ game2.completionTime = ts - game.startedAt
        /\ ~solved => game2.status = IF n >= MaxGuesses THEN "FAILED" ELSE "ACTIVE"
    BY <1>1 DEF GuessedGame, GameRow
  <1>4. game.guessCount \in Nat /\ MaxGuesses \in Nat /\ \A g \in rows : g.number \in Nat
    BY <1>1, BoundsAssumption DEF GameRow, GuessRow
  <1>5. /\ \A g \in rows : g.number <= game.guessCount /\ g.word # row.answer
        /\ \A k \in 1..game.guessCount : \E g \in rows : g.number = k
        /\ \A g, h \in rows : g.number = h.number => g = h
        /\ ManilaDate(game.startedAt) = row.date
        /\ \A g \in rows : game.startedAt <= g.at /\ g.at < row.expiresAt
    BY <1>2 DEF GameSound
  <1>6. new.number = n /\ new.word = word /\ new.at = ts /\ new \in rows2
    BY <1>1
  <1> HIDE DEF game, rows, row, n, new, solved, rows2, game2
  <1>7. game2.status # "NONE"
    BY <1>3
  <1>8. \A g \in rows2 : g.number <= n
    BY <1>1, <1>4, <1>5, <1>6 DEF n
  <1>9. \A k \in 1..n : \E g \in rows2 : g.number = k
    BY <1>1, <1>4, <1>5, <1>6 DEF n
  <1>10. \A g, h \in rows2 : g.number = h.number => g = h
    BY <1>1, <1>4, <1>5, <1>6 DEF n
  <1>11. \A g \in rows2 : g.word = row.answer => solved /\ g = new
    BY <1>1, <1>5, <1>6 DEF solved
  <1>12. solved => new.word = row.answer
    BY <1>6 DEF solved
  <1>13. \A g \in rows2 : game.startedAt <= g.at /\ g.at < row.expiresAt
    BY <1>1, <1>2, <1>5, <1>6
  <1>14. game2.status = "COMPLETED" <=> solved
    BY <1>3
  <1>15. game2.status = "FAILED" <=> n = MaxGuesses /\ ~solved
    BY <1>1, <1>3, <1>4
  <1> QED
    <2>1. game2.status = "FAILED" <=> n = MaxGuesses /\ \A g \in rows2 : g.word # row.answer
      BY <1>6, <1>11, <1>12, <1>15
    <2>2. game2.status = "COMPLETED" <=> \E g \in rows2 : g.word = row.answer
      BY <1>6, <1>11, <1>12, <1>14
    <2>3. game2.status = "COMPLETED" =>
            /\ \E g \in rows2 : g.word = row.answer /\ g.at = game2.completedAt
            /\ game2.completionTime = game2.completedAt - game2.startedAt
      BY <1>3, <1>6, <1>12, <1>14
    <2>4. \A g \in rows2 : g.word = row.answer => g.number = n
      BY <1>6, <1>11
    <2> QED
      BY <1>1, <1>3, <1>5, <1>7, <1>8, <1>9, <1>10, <1>13, <2>1, <2>2, <2>3, <2>4
      DEF GameSound, game, rows2, game2, row

(* Games stay sound in every step. *)
LEMMA GamesStep ==
  ASSUME TablesType, ScheduleInv, GameInv, NEW p \in Puzzles, NEW ts \in Time, Step(p, ts)
  PROVE  GameInv'
  <1> SUFFICES ASSUME NEW q \in Puzzles, NEW v \in Users PROVE GameSound(q, v)'
    BY GameByGameNext
  <1>1. GameSound(q, v)
    BY GameByGame
  <1>2. CASE PlayStep(p, ts)
    <2>1. SameContents(dailyPuzzles'[q], dailyPuzzles[q])
      BY <1>2, PlayKeepsRows
    <2>2. CASE \E u \in Users : Start(u, p, ts)
      <3>1. PICK u \in Users : Start(u, p, ts)
        BY <2>2
      <3>2. CASE q = p /\ v = u
        BY <1>1, <3>1, <3>2, GameStarted
      <3>3. CASE ~(q = p /\ v = u)
        <4>1. games'[q][v] = games[q][v] /\ guesses'[q][v] = guesses[q][v]
          BY <3>1, <3>3, StartWrites DEF Start
        <4> QED
          BY <1>1, <2>1, <4>1, GameUntouched
      <3> QED
        BY <3>2, <3>3
    <2>3. CASE \E u \in Users, word \in Words : Guess(u, p, word, ts)
      <3>1. PICK u \in Users, word \in Words : Guess(u, p, word, ts)
        BY <2>3
      <3>2. CASE q = p /\ v = u
        BY <1>1, <3>1, <3>2, GameGuessed
      <3>3. CASE ~(q = p /\ v = u)
        <4>1. games'[q][v] = games[q][v] /\ guesses'[q][v] = guesses[q][v]
          BY <3>1, <3>3, GuessWrites
        <4> QED
          BY <1>1, <2>1, <4>1, GameUntouched
      <3> QED
        BY <3>2, <3>3
    <2>4. CASE Settle(p, ts)
      <3>1. CASE q = p
        BY <1>1, <2>4, <3>1, GameForfeited
      <3>2. CASE q # p
        BY <1>1, <2>1, <2>4, <3>2, SettleWrites, GameUntouched DEF Settle
      <3> QED
        BY <3>1, <3>2
    <2>5. CASE Activate(p, ts)
      BY <1>1, <2>1, <2>5, GameUntouched DEF Activate
    <2> QED
      BY <1>2, <2>2, <2>3, <2>4, <2>5 DEF PlayStep
  <1>3. CASE AdminStep(p, ts)
    <2>1. games' = games /\ guesses' = guesses
      BY <1>3, AdminWrites DEF ScheduleInv
    <2>2. CASE q = p
      <3>1. games[p][v].status = "NONE"
        BY <1>3, ScheduleEdited
      <3> QED
        BY <1>1, <2>1, <2>2, <3>1, BoundsAssumption DEF GameSound
    <2>3. CASE q # p
      <3>1. dailyPuzzles'[q] = dailyPuzzles[q]
        BY <1>3, <2>3, AdminWrites DEF ScheduleInv, TablesType
      <3> QED
        BY <1>1, <2>1, <3>1, GameUntouched DEF SameContents
    <2> QED
      BY <2>2, <2>3
  <1> QED
    BY <1>2, <1>3 DEF Step, PlayStep, AdminStep

-----------------------------------------------------------------------------
(* Finalization *)

(* Forfeiting a running game changes nothing of what is averaged.          *)
LEMMA ForfeitsNotAveraged ==
  ASSUME TablesType, NEW p \in Puzzles, NEW ts \in Time, Settle(p, ts)
  PROVE  CompletionTimes(games'[p]) = CompletionTimes(games[p])
  <1>1. ASSUME NEW u \in Users
        PROVE  /\ Counted(games'[p][u]) <=> Counted(games[p][u])
               /\ Counted(games[p][u]) => games'[p][u] = games[p][u]
               /\ games'[p][u].status # "ACTIVE"
    <2>1. games[p][u] \in GameRow
      BY DEF TablesType
    <2> QED
      BY <2>1, SettleWrites, ForfeitedType DEF Counted
  <1>2. {u \in Users : Counted(games'[p][u])} = {u \in Users : Counted(games[p][u])}
    BY <1>1
  <1> QED
    BY <1>1, <1>2 DEF CompletionTimes

(* A FINALIZED puzzle is out of every step's reach.                        *)
LEMMA FinalizedUntouched ==
  ASSUME TablesType, LockedIsOpened, NEW p \in Puzzles, NEW ts \in Time, Step(p, ts),
         NEW q \in Puzzles, dailyPuzzles[q].status = "FINALIZED"
  PROVE  /\ dailyPuzzles'[q] = dailyPuzzles[q] /\ frozen'[q] = frozen[q]
         /\ games'[q] = games[q] /\ guesses'[q] = guesses[q]
  <1>1. CASE \E u \in Users : Start(u, p, ts)
    BY <1>1, StartWrites DEF Start
  <1>2. CASE \E u \in Users, word \in Words : Guess(u, p, word, ts)
    BY <1>2, GuessWrites DEF Guess
  <1>3. CASE Settle(p, ts)
    BY <1>3, SettleWrites DEF Settle
  <1>4. CASE Activate(p, ts)
    BY <1>4, ActivateWrites DEF Activate
  <1>5. CASE AdminStep(p, ts)
    BY <1>5, AdminWrites DEF TablesType
  <1> QED
    BY <1>1, <1>2, <1>3, <1>4, <1>5 DEF Step, AdminStep

(* What finalization left behind stays true. *)
LEMMA FinalStep ==
  ASSUME TablesType, ScheduleInv, FinalInv, NEW p \in Puzzles, NEW ts \in Time, ts <= now, Step(p, ts)
  PROVE  FinalInv'
  <1> USE DEF ScheduleInv
  <1> SUFFICES ASSUME NEW q \in Puzzles, dailyPuzzles'[q].status = "FINALIZED"
               PROVE  /\ dailyPuzzles'[q].finalizedAt \in Time
                      /\ dailyPuzzles'[q].expiresAt <= dailyPuzzles'[q].finalizedAt
                      /\ dailyPuzzles'[q].finalizedAt <= now'
                      /\ \A u \in Users : games'[q][u].status # "ACTIVE"
                      /\ frozen'[q] = FrozenOf(CompletionTimes(games'[q]))
    BY DEF FinalInv, FinalizedDated, FinalizedIsOver, FrozenMatchesGames
  <1>0. now' = now
    BY DEF Step, Start, Guess, Settle, Activate, Schedule, Update, ReplaceToday, Put, Delete
  <1>1. CASE dailyPuzzles[q].status = "FINALIZED"
    BY <1>0, <1>1, FinalizedUntouched DEF FinalInv, FinalizedDated, FinalizedIsOver, FrozenMatchesGames
  <1>2. CASE dailyPuzzles[q].status # "FINALIZED"
    <2>1. q = p /\ Settle(p, ts)
      <3>0. dailyPuzzles[p] \in PuzzleRow
        BY DEF TablesType
      <3>1. CASE \E u \in Users : Start(u, p, ts)
        BY <1>2, <3>0, <3>1, StartWrites, OpenedType
      <3>2. CASE \E u \in Users, word \in Words : Guess(u, p, word, ts)
        BY <1>2, <3>2 DEF Guess
      <3>3. CASE Settle(p, ts)
        BY <1>2, <3>3, SettleWrites
      <3>4. CASE Activate(p, ts)
        BY <1>2, <3>0, <3>4, ActivateWrites, ActivatedType
      <3>5. CASE AdminStep(p, ts)
        BY <1>2, <3>5, AdminWrites DEF TablesType
      <3> QED
        BY <3>1, <3>2, <3>3, <3>4, <3>5 DEF Step, AdminStep
    <2>2. /\ dailyPuzzles'[p].finalizedAt = ts
          /\ dailyPuzzles'[p].expiresAt = dailyPuzzles[p].expiresAt
      BY <2>1, SettleWrites, FinalizedType DEF TablesType, SameContents
    <2>3. \A u \in Users : games'[p][u].status # "ACTIVE"
      <3>1. \A u \in Users : games[p][u] \in GameRow
        BY DEF TablesType
      <3>2. \A u \in Users : games'[p][u] = IF games[p][u].status = "ACTIVE"
                                              THEN Forfeited(games[p][u]) ELSE games[p][u]
        BY <2>1, SettleWrites
      <3> QED
        BY <3>1, <3>2, ForfeitedType
    <2>4. frozen'[p] = FrozenOf(CompletionTimes(games'[p]))
      BY <2>1, SettleWrites, ForfeitsNotAveraged
    <2> QED
      BY <1>0, <2>1, <2>2, <2>3, <2>4 DEF Settle
  <1> QED
    BY <1>1, <1>2

-----------------------------------------------------------------------------
(* Theorems *)

(* The first state satisfies the invariant. *)
LEMMA TableInit == Init => TableInv
  <1> SUFFICES ASSUME Init PROVE TableInv
    OBVIOUS
  <1>1. GameInv
    BY BoundsAssumption
    DEF Init, InitialGames, InitialGuesses, NoGame, GameInv, NotBegun, GuessesExplainStatus,
        PlayedWithinTheDay
  <1>2. FinalInv
    <2>1. \A p \in Puzzles : dailyPuzzles[p].status # "FINALIZED"
      BY DEF Init, InitialPuzzles, InitialRow, NoRow, EmptyRow, Scheduled
    <2> QED
      BY <2>1 DEF FinalInv, FinalizedDated, FinalizedIsOver, FrozenMatchesGames
  <1> QED
    BY <1>1, <1>2, TablesInit, ScheduleInit DEF TableInv

(* Every step keeps it. *)
LEMMA TableStep == TableInv /\ [Next]_vars => TableInv'
  <1> SUFFICES ASSUME TableInv, [Next]_vars PROVE TableInv'
    OBVIOUS
  <1> USE DEF TableInv
  <1>1. TablesType'
    BY TablesStep DEF ScheduleInv
  <1>2. CASE Tick
    <2>1. ManilaDate(now) <= ManilaDate(now') /\ now \in Int /\ now' = now + 1
      BY <1>1, <1>2, DatesGrow, BoundsAssumption DEF Tick, TablesType, Time
    <2>2. ScheduleInv'
      <3>1. \A p \in Puzzles : dailyPuzzles[p].date \in Int
        BY DEF TablesType, PuzzleRow, Dates
      <3>2. ManilaDate(now) \in Int /\ ManilaDate(now') \in Int
        BY <1>1, BoundsAssumption DEF ManilaDate, TablesType, Time
      <3> QED
        BY <1>2, <2>1, <3>1, <3>2
        DEF Tick, ScheduleInv, SoundSchedule, NotBeforeItsDay, LockedIsOpened, PlayedPuzzleKept
    <2>3. GameInv'
      BY <1>2 DEF Tick, GameInv, NotBegun, GuessesExplainStatus, PlayedWithinTheDay
    <2>4. FinalInv'
      BY <1>2, <2>1 DEF Tick, FinalInv, FinalizedDated, FinalizedIsOver, FrozenMatchesGames, Time
    <2> QED
      BY <1>1, <2>2, <2>3, <2>4
  <1>3. ASSUME NEW p \in Puzzles, NEW ts \in Time, ts <= now, Step(p, ts)
        PROVE  ScheduleInv' /\ GameInv' /\ FinalInv'
    BY <1>3, SchedulePlayed, ScheduleEdited, GamesStep, FinalStep DEF Step, PlayStep, AdminStep
  <1>4. CASE UNCHANGED vars
    BY <1>4 DEF vars, TablesType, ScheduleInv, SoundSchedule, NotBeforeItsDay, LockedIsOpened,
      PlayedPuzzleKept, GameInv, NotBegun, GuessesExplainStatus, PlayedWithinTheDay, FinalInv,
      FinalizedDated, FinalizedIsOver, FrozenMatchesGames
  <1> QED
    BY <1>1, <1>2, <1>3, <1>4 DEF Next

(* The invariant holds in every state. *)
THEOREM TablesCorrect == Spec => []TableInv
  <1> QED
    BY TableInit, TableStep, PTL DEF Spec

(* One puzzle per date, no answer twice, every hint out of its answer,     *)
(* every expiry the end of its date: admin/service.ts keeps that.          *)
THEOREM ScheduleStaysSound == Spec => []SoundSchedule
  <1>1. TableInv => SoundSchedule
    BY DEF TableInv, ScheduleInv
  <1> QED
    BY <1>1, TablesCorrect, PTL

(* No puzzle is ACTIVE or FINALIZED before its day. *)
THEOREM NeverBeforeItsDay == Spec => []NotBeforeItsDay
  <1>1. TableInv => NotBeforeItsDay
    BY DEF TableInv, ScheduleInv
  <1> QED
    BY <1>1, TablesCorrect, PTL

(* A puzzle somebody started stays, locked against edits. *)
THEOREM PlayedKept == Spec => []PlayedPuzzleKept
  <1>1. TableInv => PlayedPuzzleKept
    BY DEF TableInv, ScheduleInv
  <1> QED
    BY <1>1, TablesCorrect, PTL

(* The status of every game is what its guesses make it. *)
THEOREM StatusExplained == Spec => []GuessesExplainStatus
  <1>1. TableInv => GuessesExplainStatus
    BY DEF TableInv, GameInv
  <1> QED
    BY <1>1, TablesCorrect, PTL

(* Starts, guesses and completion times lie within the day of the puzzle.  *)
THEOREM WithinTheDay == Spec => []PlayedWithinTheDay
  <1>1. TableInv => PlayedWithinTheDay
    BY DEF TableInv, GameInv
  <1> QED
    BY <1>1, TablesCorrect, PTL

(* Nothing runs on a FINALIZED puzzle, which was over when finalized.      *)
THEOREM FinalizedOver == Spec => []FinalizedIsOver
  <1>1. TableInv => FinalizedIsOver
    BY DEF TableInv, FinalInv
  <1> QED
    BY <1>1, TablesCorrect, PTL

(* The frozen average is that of the games the puzzle has. *)
THEOREM FrozenCorrect == Spec => []FrozenMatchesGames
  <1>1. TableInv => FrozenMatchesGames
    BY DEF TableInv, FinalInv
  <1> QED
    BY <1>1, TablesCorrect, PTL

(* A row that was started on keeps what an admin put into it, and its lock. *)
LEMMA LockedRowFixed ==
  ASSUME TableInv, [Next]_vars, NEW p \in Puzzles, dailyPuzzles[p].lockedAt # None
  PROVE  /\ dailyPuzzles'[p].lockedAt = dailyPuzzles[p].lockedAt
         /\ dailyPuzzles'[p].answer = dailyPuzzles[p].answer
         /\ dailyPuzzles'[p].hint = dailyPuzzles[p].hint
         /\ dailyPuzzles'[p].date = dailyPuzzles[p].date
         /\ dailyPuzzles'[p].expiresAt = dailyPuzzles[p].expiresAt
  <1> DEFINE Fixed ==
        /\ dailyPuzzles'[p].lockedAt = dailyPuzzles[p].lockedAt
        /\ SameContents(dailyPuzzles'[p], dailyPuzzles[p])
  <1> USE DEF TableInv, ScheduleInv
  <1>1. CASE Tick \/ UNCHANGED vars
    BY <1>1 DEF Tick, vars
  <1>2. ASSUME NEW q \in Puzzles, NEW ts \in Time, PlayStep(q, ts) PROVE Fixed
    BY <1>2, PlayKeepsRows
  <1>3. ASSUME NEW q \in Puzzles, NEW ts \in Time, AdminStep(q, ts)
        PROVE  dailyPuzzles'[p] = dailyPuzzles[p]
    BY <1>3, AdminWrites DEF TablesType
  <1> QED
    BY <1>1, <1>2, <1>3 DEF Next, Step, PlayStep, AdminStep, SameContents

(* What was locked never changes. *)
THEOREM LockedFixed == Spec => LockedPuzzleFixed
  <1> DEFINE Fixed ==
        \A p \in Puzzles : dailyPuzzles[p].lockedAt # None =>
          /\ dailyPuzzles'[p].lockedAt = dailyPuzzles[p].lockedAt
          /\ dailyPuzzles'[p].answer = dailyPuzzles[p].answer
          /\ dailyPuzzles'[p].hint = dailyPuzzles[p].hint
          /\ dailyPuzzles'[p].date = dailyPuzzles[p].date
          /\ dailyPuzzles'[p].expiresAt = dailyPuzzles[p].expiresAt
  <1>1. TableInv /\ [Next]_vars => [Fixed]_vars
    BY LockedRowFixed
  <1> QED
    BY <1>1, TablesCorrect, PTL DEF Spec, LockedPuzzleFixed

(* FINALIZED is forever, for the row, its games and its frozen values.     *)
THEOREM FinalForever == Spec => FinalizedForever
  <1> DEFINE Kept ==
        \A p \in Puzzles : dailyPuzzles[p].status = "FINALIZED" =>
          /\ dailyPuzzles'[p] = dailyPuzzles[p] /\ frozen'[p] = frozen[p]
          /\ games'[p] = games[p] /\ guesses'[p] = guesses[p]
  <1>1. TableInv /\ [Next]_vars => [Kept]_vars
    BY FinalizedUntouched DEF TableInv, ScheduleInv, Next, Tick
  <1> QED
    BY <1>1, TablesCorrect, PTL DEF Spec, FinalizedForever

(* What a step does to a game: nothing, begin it, or, while it is ACTIVE,  *)
(* end it or add the guess with the next number.                           *)
Evolves(p, u) ==
  LET game == games[p][u] IN
  \/ games'[p][u] = game /\ guesses'[p][u] = guesses[p][u]
  \/ game.status = "NONE" /\ guesses'[p][u] = guesses[p][u] /\ games'[p][u].guessCount = 0
  \/ /\ game.status = "ACTIVE" /\ games'[p][u].status # "NONE"
     /\ games'[p][u].startedAt = game.startedAt
     /\ \/ guesses'[p][u] = guesses[p][u] /\ games'[p][u].guessCount = game.guessCount
        \/ /\ games'[p][u].guessCount = game.guessCount + 1
           /\ \E g \in GuessRow : /\ g.number = game.guessCount + 1
                                  /\ guesses'[p][u] = guesses[p][u] \cup {g}

(* Every step of the contest does one of these to every game. *)
LEMMA GameEvolves ==
  ASSUME TablesType, LockedIsOpened, NEW p \in Puzzles, NEW ts \in Time, Step(p, ts),
         NEW q \in Puzzles, NEW v \in Users
  PROVE  Evolves(q, v)
  <1> USE DEF Evolves
  <1>0. games[q][v] \in GameRow
    BY DEF TablesType
  <1>1. ASSUME NEW u \in Users, Start(u, p, ts)
        PROVE  Evolves(q, v)
    <2>1. guesses' = guesses
      BY <1>1 DEF Start
    <2>2. CASE q = p /\ v = u
      <3>1. games'[q][v] = StartedGame(games[q][v], ts)
        BY <1>1, <2>2, StartWrites
      <3> QED
        BY <2>1, <3>1 DEF StartedGame, NewGame
    <2>3. CASE ~(q = p /\ v = u)
      BY <1>1, <2>1, <2>3, StartWrites
    <2> QED
      BY <2>2, <2>3
  <1>2. ASSUME NEW u \in Users, NEW word \in Words, Guess(u, p, word, ts)
        PROVE  Evolves(q, v)
    <2>1. CASE q = p /\ v = u
      <3> DEFINE n == games[p][u].guessCount + 1
                 solved == word = dailyPuzzles[p].answer
                 g == [number |-> n, word |-> word, at |-> ts]
      <3>1. /\ n \in 1..MaxGuesses /\ games'[p][u] = GuessedGame(games[p][u], n, solved, ts)
            /\ guesses'[p][u] = guesses[p][u] \cup {g}
        BY <1>2, GuessWrites
      <3>2. g \in GuessRow /\ g.number = n
        BY <3>1 DEF GuessRow
      <3>3. solved \in BOOLEAN
        OBVIOUS
      <3>4. games[p][u].status = "ACTIVE" /\ games[p][u] \in GameRow
        BY <1>0, <1>2, <2>1 DEF Guess
      <3> HIDE DEF n, solved, g
      <3>5. /\ games'[p][u].startedAt = games[p][u].startedAt /\ games'[p][u].status # "NONE"
            /\ games'[p][u].guessCount = n
        BY <3>1, <3>3, <3>4, GuessedType
      <3> QED
        BY <2>1, <3>1, <3>2, <3>4, <3>5 DEF n
    <2>2. CASE ~(q = p /\ v = u)
      BY <1>2, <2>2, GuessWrites
    <2> QED
      BY <2>1, <2>2
  <1>3. CASE Settle(p, ts)
    BY <1>0, <1>3, SettleWrites, ForfeitedType DEF Settle
  <1>4. CASE Activate(p, ts)
    BY <1>4 DEF Activate
  <1>5. CASE AdminStep(p, ts)
    BY <1>5, AdminWrites
  <1> QED
    BY <1>1, <1>2, <1>3, <1>4, <1>5 DEF Step, AdminStep

(* The rows of a game that was begun only grow, past the last number. *)
LEMMA GameGrows ==
  ASSUME TableInv, [Next]_vars, NEW p \in Puzzles, NEW u \in Users, games[p][u].status # "NONE"
  PROVE  /\ games'[p][u].status # "NONE" /\ games'[p][u].startedAt = games[p][u].startedAt
         /\ games[p][u].status # "ACTIVE" => games'[p][u] = games[p][u]
         /\ games[p][u].guessCount <= games'[p][u].guessCount
         /\ guesses[p][u] \subseteq guesses'[p][u]
         /\ \A k \in 0..games[p][u].guessCount :
              {g \in guesses'[p][u] : g.number <= k} = {g \in guesses[p][u] : g.number <= k}
  <1>0. games[p][u] \in GameRow
    BY DEF TableInv, TablesType
  <1>1. Evolves(p, u)
    BY GameEvolves DEF TableInv, ScheduleInv, Next, Tick, vars, Evolves
  <1>2. \A k \in 0..games[p][u].guessCount : ~(games[p][u].guessCount + 1 <= k)
    BY <1>0 DEF GameRow
  <1> QED
    BY <1>0, <1>1, <1>2 DEF Evolves, GameRow

(* A game is never restarted, reopened or stripped of a guess. *)
THEOREM NeverGoBack == Spec => GamesNeverGoBack
  <1>1. TableInv /\ [Next]_vars =>
          [\A p \in Puzzles, u \in Users : games[p][u].status # "NONE" =>
             /\ games'[p][u].startedAt = games[p][u].startedAt
             /\ games'[p][u].status # "NONE"
             /\ games[p][u].status # "ACTIVE" => games'[p][u] = games[p][u]
             /\ guesses[p][u] \subseteq guesses'[p][u]]_vars
    BY GameGrows
  <1> QED
    BY <1>1, TablesCorrect, PTL DEF Spec, GamesNeverGoBack
=============================================================================
