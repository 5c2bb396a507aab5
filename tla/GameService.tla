---------------------------- MODULE GameService ----------------------------
(***************************************************************************)
(* The play path of the server: startGame, submitGuess and getCurrentGame  *)
(* (server/game/service.ts).  Each transaction locks the puzzle row first, *)
(* then re-reads and decides; startGame also activates today's puzzle      *)
(* lazily.                                                                 *)
(***************************************************************************)
EXTENDS Database

PlayerUnchanged == UNCHANGED <<now, sweep, view>>

(* The request ends without writing: an AppError, hence a rollback. *)
Refuse(t) ==
  /\ End(t, "idle")
  /\ req' = [req EXCEPT ![t] = None]
  /\ UNCHANGED tables
  /\ PlayerUnchanged

-----------------------------------------------------------------------------
(* startGame *)

StartBegin(t, u) ==
  /\ AtPc(t, "idle")
  /\ Begin(t, "start.find", None)
  /\ req' = [req EXCEPT ![t] = [op |-> "startGame", user |-> u]]
  /\ UNCHANGED <<tables, locks>>
  /\ PlayerUnchanged

Today(t) == ManilaDate(tx[t].ts)

(* The locking SELECT finds its row in the statement's snapshot ...        *)
StartFind(t) ==
  /\ AtPc(t, "start.find")
  /\ \E p \in OnDate(Today(t)) :
       tx' = [tx EXCEPT ![t].pc = "start.lock", ![t].pid = p]
  /\ UNCHANGED <<tables, locks, req>>
  /\ PlayerUnchanged

StartMissing(t) ==
  /\ AtPc(t, "start.find")
  /\ OnDate(Today(t)) = {}
  /\ Refuse(t)

(* A wrong variant: the row found before the wait is taken as still today's. *)
PlayableAsFound(t) == dailyPuzzles[Pid(t)].status \in {"ACTIVE", "SCHEDULED"}

(* A wrong variant: any status but SCHEDULED is taken for ACTIVE. *)
PlayableUnlessExpired(t) ==
  /\ Pid(t) \in OnDate(Today(t))
  /\ tx[t].ts < dailyPuzzles[Pid(t)].expiresAt

(* ... and once it has the lock evaluates the WHERE clause again on the    *)
(* row as committed by then.  A puzzle can be started while it has not     *)
(* expired at the start of the transaction and is ACTIVE, or SCHEDULED     *)
(* with no other ACTIVE puzzle on its date.                                *)
Playable(t) ==
  LET row == dailyPuzzles[Pid(t)] IN
  /\ Pid(t) \in OnDate(Today(t))
  /\ tx[t].ts < row.expiresAt
  /\ \/ row.status = "ACTIVE"
     \/ row.status = "SCHEDULED" /\ ~OtherActive(Pid(t))

(* A wrong variant: a SELECT without FOR UPDATE. *)
StartRead(t) ==
  /\ AtPc(t, "start.lock") /\ PuzzleFree(t)
  /\ Playable(t)
  /\ tx' = [tx EXCEPT ![t].pc = "start.write", ![t].row = dailyPuzzles[Pid(t)]]
  /\ UNCHANGED <<tables, locks, req>>
  /\ PlayerUnchanged

StartLock(t) ==
  /\ AtPc(t, "start.lock") /\ PuzzleFree(t)
  /\ Playable(t)
  /\ LockPuzzle(t, "start.write")
  /\ UNCHANGED <<tables, req>>
  /\ PlayerUnchanged

StartRefused(t) ==
  /\ AtPc(t, "start.lock") /\ PuzzleFree(t)
  /\ ~Playable(t)
  /\ Refuse(t)

(* Activation, locked_at and the game, under the lock. *)
StartWrite(t) ==
  LET p == Pid(t)  u == req[t].user IN
  /\ AtPc(t, "start.write")
  /\ dailyPuzzles' = [dailyPuzzles EXCEPT ![p] = Opened(@, tx[t].ts)]
  /\ games' = [games EXCEPT ![p][u] = StartedGame(@, tx[t].ts)]
  /\ End(t, "idle")
  /\ req' = [req EXCEPT ![t] = None]
  /\ UNCHANGED <<frozen, guesses>>
  /\ PlayerUnchanged

-----------------------------------------------------------------------------
(* submitGuess.  A game id is known to clients only once its row is        *)
(* committed; an unknown id is answered GAME_NOT_FOUND and changes         *)
(* nothing.  The word is one of Words, or None for any other string.       *)

(* A wrong variant: the game row is locked before the puzzle row. *)
GuessBeginGameFirst(t, u, owner, p, word) ==
  /\ AtPc(t, "idle")
  /\ games[p][owner].status # "NONE" /\ gameLock[p][owner] = None
  /\ Begin(t, "guess.puzzle", p)
  /\ gameLock' = [gameLock EXCEPT ![p][owner] = t]
  /\ req' = [req EXCEPT ![t] = [op |-> "submitGuess", user |-> u, owner |-> owner, word |-> word]]
  /\ UNCHANGED <<tables, puzzleLock>>
  /\ PlayerUnchanged

GuessBegin(t, u, owner, p, word) ==
  /\ AtPc(t, "idle")
  /\ games[p][owner].status # "NONE"
  /\ Begin(t, "guess.puzzle", p)
  /\ req' = [req EXCEPT ![t] = [op |-> "submitGuess", user |-> u, owner |-> owner, word |-> word]]
  /\ UNCHANGED <<tables, locks>>
  /\ PlayerUnchanged

(* A wrong variant: the status alone, which midnight does not change. *)
GuessOpenByStatus(t) == dailyPuzzles[Pid(t)].status = "ACTIVE"

(* Re-checked on the row read under the lock: a finalization that won the  *)
(* race for the lock is seen here.                                         *)
GuessOpen(t) ==
  /\ dailyPuzzles[Pid(t)].status = "ACTIVE"
  /\ tx[t].ts < dailyPuzzles[Pid(t)].expiresAt

GuessLockPuzzle(t) ==
  /\ AtPc(t, "guess.puzzle") /\ PuzzleFree(t)
  /\ GuessOpen(t)
  /\ LockPuzzle(t, "guess.game")
  /\ UNCHANGED <<tables, req>>
  /\ PlayerUnchanged

GuessExpired(t) ==
  /\ AtPc(t, "guess.puzzle") /\ PuzzleFree(t)
  /\ ~GuessOpen(t)
  /\ Refuse(t)

GuessGame(t) == games[Pid(t)][req[t].owner]

GameFree(t) == gameLock[Pid(t)][req[t].owner] = None

(* A wrong variant: the status of the game is not checked again. *)
GuessAllowedAnyStatus(t) ==
  /\ req[t].owner = req[t].user
  /\ GuessGame(t).guessCount + 1 <= MaxGuesses
  /\ req[t].word \in Words

(* Ownership, status, attempt limit and dictionary, in this order. *)
GuessAllowed(t) ==
  /\ req[t].owner = req[t].user
  /\ GuessGame(t).status = "ACTIVE"
  /\ GuessGame(t).guessCount + 1 <= MaxGuesses
  /\ req[t].word \in Words

GuessLockGame(t) ==
  /\ AtPc(t, "guess.game") /\ GameFree(t)
  /\ GuessAllowed(t)
  /\ gameLock' = [gameLock EXCEPT ![Pid(t)][req[t].owner] = t]
  /\ tx' = [tx EXCEPT ![t].pc = "guess.write", ![t].seen = GuessGame(t)]
  /\ UNCHANGED <<tables, puzzleLock, req>>
  /\ PlayerUnchanged

GuessRejected(t) ==
  /\ AtPc(t, "guess.game") /\ GameFree(t)
  /\ ~GuessAllowed(t)
  /\ Refuse(t)

(* A wrong variant: the number of the guess before. *)
GuessNumberStale(t) == tx[t].seen.guessCount

GuessNumber(t) == tx[t].seen.guessCount + 1

Solved(t) == req[t].word = tx[t].row.answer

(* UNIQUE(game_id, guess_number), the last guard of a concurrent guess.    *)
(* Under the locks the number is always free (DailyPuzzle!NumberFree), so  *)
(* the refusal the code has for a conflict is no action here.              *)
NumberTaken(t) ==
  \E g \in guesses[Pid(t)][req[t].owner] : g.number = GuessNumber(t)

GuessWrite(t) ==
  LET p == Pid(t)  u == req[t].owner
      guess == [number |-> GuessNumber(t), word |-> req[t].word, at |-> tx[t].ts]
  IN
  /\ AtPc(t, "guess.write")
  /\ ~NumberTaken(t)
  /\ guesses' = [guesses EXCEPT ![p][u] = @ \cup {guess}]
  /\ games' = [games EXCEPT ![p][u] =
                 GuessedGame(@, GuessNumber(t), Solved(t), tx[t].ts)]
  /\ End(t, "idle")
  /\ req' = [req EXCEPT ![t] = None]
  /\ UNCHANGED <<dailyPuzzles, frozen>>
  /\ PlayerUnchanged

-----------------------------------------------------------------------------
(* getCurrentGame: three separate autocommitted reads, no lock. *)

ReaderUnchanged == UNCHANGED <<now, tables, locks, tx, req, sweep>>

ReadPuzzle(r, u) ==
  /\ view[r].pc = "idle"
  /\ \E p \in OnDate(ManilaDate(now)) :
       view' = [view EXCEPT ![r] = NewView("game", u, p)]
  /\ ReaderUnchanged

ReadGame(r) ==
  LET game == games[view[r].pid][view[r].user] IN
  /\ view[r].pc = "game"
  /\ view' = [view EXCEPT ![r] =
                IF game.status = "NONE" THEN IdleView
                ELSE [@ EXCEPT !.pc = "guesses", !.game = game]]
  /\ ReaderUnchanged

(* A wrong variant: the last guess is cut off. *)
GuessesBefore(r) ==
  {g \in guesses[view[r].pid][view[r].user] : g.number < view[r].game.guessCount}

GuessesOf(r) == guesses[view[r].pid][view[r].user]

ReadGuesses(r) ==
  /\ view[r].pc = "guesses"
  /\ view' = [view EXCEPT ![r].pc = "returned",
                          ![r].guesses = GuessesOf(r)]
  /\ ReaderUnchanged

(* The answer leaves the server; the request is over. *)
ReadReturn(r) ==
  /\ view[r].pc = "returned"
  /\ view' = [view EXCEPT ![r] = IdleView]
  /\ ReaderUnchanged

-----------------------------------------------------------------------------
PlayerNext(t) ==
  \/ \E u \in Users : StartBegin(t, u)
  \/ StartFind(t) \/ StartMissing(t)
  \/ StartLock(t) \/ StartRefused(t)
  \/ StartWrite(t)
  \/ \E u, owner \in Users, p \in Puzzles, word \in Words \cup {None} :
       GuessBegin(t, u, owner, p, word)
  \/ GuessLockPuzzle(t) \/ GuessExpired(t)
  \/ GuessLockGame(t) \/ GuessRejected(t)
  \/ GuessWrite(t)

ReaderNext(r) ==
  \/ \E u \in Users : ReadPuzzle(r, u)
  \/ ReadGame(r) \/ ReadGuesses(r) \/ ReadReturn(r)
=============================================================================
