---------------------------- MODULE DailyContest ----------------------------
(***************************************************************************)
(* What the server promises about the puzzle of the day: every operation   *)
(* is one step on the tables, with its guard true of the committed rows in *)
(* that very step.  The only thing an operation may carry over from an     *)
(* earlier moment is `ts', the instant its transaction began.              *)
(***************************************************************************)
EXTENDS Rows

VARIABLES now, dailyPuzzles, frozen, games, guesses

vars == <<now, dailyPuzzles, frozen, games, guesses>>

Init ==
  /\ now = 0
  /\ dailyPuzzles = InitialPuzzles
  /\ frozen = [p \in Puzzles |-> None]
  /\ games = InitialGames
  /\ guesses = InitialGuesses

Tick == now < MaxTime /\ now' = now + 1 /\ UNCHANGED <<dailyPuzzles, frozen, games, guesses>>

(* A player starts (or resumes) the puzzle of the day of ts. *)
Start(u, p, ts) ==
  /\ dailyPuzzles[p].status \in {"SCHEDULED", "ACTIVE"}
  /\ dailyPuzzles[p].date = ManilaDate(ts) /\ ts < dailyPuzzles[p].expiresAt
  /\ dailyPuzzles' = [dailyPuzzles EXCEPT ![p] = Opened(@, ts)]
  /\ games' = [games EXCEPT ![p][u] = StartedGame(@, ts)]
  /\ UNCHANGED <<now, frozen, guesses>>

(* A player submits the next guess of an ACTIVE game, before expiry. *)
Guess(u, p, word, ts) ==
  LET game == games[p][u]  n == game.guessCount + 1 IN
  /\ dailyPuzzles[p].status = "ACTIVE" /\ ts < dailyPuzzles[p].expiresAt
  /\ game.status = "ACTIVE" /\ game.startedAt <= ts
  /\ n <= MaxGuesses
  /\ guesses' = [guesses EXCEPT ![p][u] = @ \cup {[number |-> n, word |-> word, at |-> ts]}]
  /\ games' = [games EXCEPT ![p][u] =
                 GuessedGame(game, n, word = dailyPuzzles[p].answer, ts)]
  /\ UNCHANGED <<now, dailyPuzzles, frozen>>

(* An expired puzzle is settled: running games are forfeited, and the      *)
(* average of the completed ones is frozen, in one step.                   *)
Settle(p, ts) ==
  /\ dailyPuzzles[p].status = "ACTIVE" /\ dailyPuzzles[p].expiresAt <= ts
  /\ dailyPuzzles' = [dailyPuzzles EXCEPT ![p] = Finalized(@, ts)]
  /\ games' = [games EXCEPT ![p] = [u \in Users |->
                 IF games[p][u].status = "ACTIVE" THEN Forfeited(games[p][u]) ELSE games[p][u]]]
  /\ frozen' = [frozen EXCEPT ![p] = FrozenOf(CompletionTimes(games[p]))]
  /\ UNCHANGED <<now, guesses>>

Activate(p, ts) ==
  /\ dailyPuzzles[p].status = "SCHEDULED" /\ dailyPuzzles[p].date = ManilaDate(ts)
  /\ dailyPuzzles' = [dailyPuzzles EXCEPT ![p].status = "ACTIVE"]
  /\ UNCHANGED <<now, frozen, games, guesses>>

(* The schedule: a row put in place is a fresh SCHEDULED one that expires  *)
(* at the end of its date, with a date and an answer of its own and a hint *)
(* out of its answer; it may only replace a row nobody has started.        *)
ScheduledRows == {Scheduled(d, a, h) : d \in Dates, a \in Answers, h \in Letters}

WellScheduled(p, row) ==
  /\ HintValid(row.hint, row.answer)
  /\ \A q \in Puzzles \ {p} :
       IsRow(dailyPuzzles[q]) =>
         dailyPuzzles[q].date # row.date /\ dailyPuzzles[q].answer # row.answer

Put(p, row) ==
  /\ WellScheduled(p, row)
  /\ dailyPuzzles' = [dailyPuzzles EXCEPT ![p] = row]
  /\ UNCHANGED <<now, frozen, games, guesses>>

Schedule(p, row, ts) ==
  /\ dailyPuzzles[p].status = "ABSENT"
  /\ row.date > ManilaDate(ts)
  /\ Put(p, row)

(* A wrong variant: any row may be edited, started or not. *)
EditableRow(p) == IsRow(dailyPuzzles[p])

Editable(p) == dailyPuzzles[p].status = "SCHEDULED" /\ dailyPuzzles[p].lockedAt = None

Update(p, row, ts) ==
  /\ Editable(p)
  /\ dailyPuzzles[p].date > ManilaDate(ts) /\ row.date > ManilaDate(ts)
  /\ Put(p, row)

ReplaceToday(p, row, ts) ==
  /\ Editable(p)
  /\ dailyPuzzles[p].date = ManilaDate(ts) /\ row.date = dailyPuzzles[p].date
  /\ Put(p, row)

Delete(p, ts) ==
  /\ Editable(p)
  /\ dailyPuzzles[p].date > ManilaDate(ts)
  /\ dailyPuzzles' = [dailyPuzzles EXCEPT ![p] = Deleted]
  /\ UNCHANGED <<now, frozen, games, guesses>>

Step(p, ts) ==
  \/ \E u \in Users : Start(u, p, ts)
  \/ \E u \in Users, word \in Words : Guess(u, p, word, ts)
  \/ Settle(p, ts) \/ Activate(p, ts)
  \/ \E row \in ScheduledRows : Schedule(p, row, ts) \/ Update(p, row, ts) \/ ReplaceToday(p, row, ts)
  \/ Delete(p, ts)

Next ==
  \/ Tick
  \/ \E p \in Puzzles, ts \in Time : ts <= now /\ Step(p, ts)

Spec == Init /\ [][Next]_vars

-----------------------------------------------------------------------------
(* Properties *)

(* A FINALIZED puzzle was finalized after its expiry, and every game on it *)
(* is over: whatever raced with finalizePuzzle at midnight, no game was    *)
(* started, or left running, behind its back.                              *)
FinalizedIsOver ==
  \A p \in Puzzles : dailyPuzzles[p].status = "FINALIZED" =>
    /\ dailyPuzzles[p].expiresAt <= dailyPuzzles[p].finalizedAt
    /\ dailyPuzzles[p].finalizedAt <= now
    /\ \A u \in Users : games[p][u].status # "ACTIVE"

(* The frozen average and penalty of a FINALIZED puzzle are those of the   *)
(* COMPLETED games it has now: no completion slipped in after the average  *)
(* was taken, however finalizations and guesses interleaved.               *)
FrozenMatchesGames ==
  \A p \in Puzzles : dailyPuzzles[p].status = "FINALIZED" =>
    frozen[p] = FrozenOf(CompletionTimes(games[p]))

(* The status of a game is the one its guess rows give against the answer  *)
(* the puzzle has now: guesses are numbered 1..guess_count, COMPLETED      *)
(* means the last of them (and only that one) is the answer, FAILED that   *)
(* all attempts missed it.  Concurrent guesses neither lose nor repeat a   *)
(* number, and no admin edit changes the answer under a running game.      *)
GuessesExplainStatus ==
  \A p \in Puzzles, u \in Users :
    LET game == games[p][u]
        rows == guesses[p][u]
        answer == dailyPuzzles[p].answer
    IN
    /\ \A g \in rows : g.number <= game.guessCount
    /\ \A n \in 1..game.guessCount : \E g \in rows : g.number = n
    /\ \A g, h \in rows : g.number = h.number => g = h
    /\ game.status = "COMPLETED" <=> \E g \in rows : g.word = answer
    /\ \A g \in rows : g.word = answer => g.number = game.guessCount
    /\ game.status = "FAILED" <=>
         game.guessCount = MaxGuesses /\ \A g \in rows : g.word # answer

(* Everything that counts for a day happened, by transaction start, within *)
(* that Manila day: the game began on it, every guess was submitted before *)
(* its end, and the completion time is the one from start to last guess.   *)
PlayedWithinTheDay ==
  \A p \in Puzzles, u \in Users :
    LET game == games[p][u]  row == dailyPuzzles[p] IN
    game.status # "NONE" =>
      /\ ManilaDate(game.startedAt) = row.date
      /\ \A g \in guesses[p][u] : game.startedAt <= g.at /\ g.at < row.expiresAt
      /\ game.status = "COMPLETED" =>
           /\ \E g \in guesses[p][u] : g.word = row.answer /\ g.at = game.completedAt
           /\ game.completionTime = game.completedAt - game.startedAt

(* A puzzle somebody started is never unscheduled or deleted again, and is *)
(* locked against edits.                                                   *)
PlayedPuzzleKept ==
  \A p \in Puzzles, u \in Users : games[p][u].status # "NONE" =>
    dailyPuzzles[p].status \in {"ACTIVE", "FINALIZED"} /\ dailyPuzzles[p].lockedAt # None

(* The schedule stays sound under concurrent admin edits: one puzzle per   *)
(* date, no answer used twice, every hint a letter of the answer it ends   *)
(* up with, every expiry the end of the date it ends up on.                *)
SoundSchedule ==
  \A p \in Puzzles : IsRow(dailyPuzzles[p]) =>
    /\ HintValid(dailyPuzzles[p].hint, dailyPuzzles[p].answer)
    /\ dailyPuzzles[p].expiresAt = ExpiresAt(dailyPuzzles[p].date)
    /\ \A q \in Puzzles \ {p} : IsRow(dailyPuzzles[q]) =>
         /\ dailyPuzzles[q].date # dailyPuzzles[p].date
         /\ dailyPuzzles[q].answer # dailyPuzzles[p].answer

(* No puzzle is opened before its day: a row moved to a later date while a *)
(* start or an activation waits for its lock is not the one they open.     *)
NotBeforeItsDay ==
  \A p \in Puzzles : dailyPuzzles[p].status \in {"ACTIVE", "FINALIZED"} =>
    dailyPuzzles[p].date <= ManilaDate(now)

(* Once locked_at is set, the answer, hint, date and expiry of the puzzle, *)
(* and locked_at itself, never change.                                     *)
LockedPuzzleFixed ==
  [][\A p \in Puzzles : dailyPuzzles[p].lockedAt # None =>
       /\ dailyPuzzles'[p].lockedAt = dailyPuzzles[p].lockedAt
       /\ dailyPuzzles'[p].answer = dailyPuzzles[p].answer
       /\ dailyPuzzles'[p].hint = dailyPuzzles[p].hint
       /\ dailyPuzzles'[p].date = dailyPuzzles[p].date
       /\ dailyPuzzles'[p].expiresAt = dailyPuzzles[p].expiresAt]_vars

(* FINALIZED is forever: the row, its frozen values, its games and their   *)
(* guesses never change again, so at most one finalization ever writes.    *)
FinalizedForever ==
  [][\A p \in Puzzles : dailyPuzzles[p].status = "FINALIZED" =>
       /\ dailyPuzzles'[p] = dailyPuzzles[p] /\ frozen'[p] = frozen[p]
       /\ games'[p] = games[p] /\ guesses'[p] = guesses[p]]_vars

(* A game never goes back: it is never restarted or taken away, a game     *)
(* that is over stays as it is, and guesses once made are kept.            *)
GamesNeverGoBack ==
  [][\A p \in Puzzles, u \in Users : games[p][u].status # "NONE" =>
       /\ games'[p][u].startedAt = games[p][u].startedAt
       /\ games'[p][u].status # "NONE"
       /\ games[p][u].status # "ACTIVE" => games'[p][u] = games[p][u]
       /\ guesses[p][u] \subseteq guesses'[p][u]]_vars
=============================================================================
