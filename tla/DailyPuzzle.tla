---------------------------- MODULE DailyPuzzle ----------------------------
(***************************************************************************)
(* The whole server around one database: players, readers, settlements and *)
(* admins interleaving on the puzzle of the day.                           *)
(***************************************************************************)
EXTENDS GameService, Settlement, AdminService

(* A worker is killed or its connection drops: the open transaction rolls  *)
(* back and the rest of a sweep is lost.                                   *)
Crash(t) ==
  /\ ~AtPc(t, "idle")
  /\ End(t, "idle")
  /\ req' = [x \in DOMAIN req |-> IF x = t THEN None ELSE req[x]]
  /\ sweep' = [x \in DOMAIN sweep |-> IF x = t THEN IdleSweep ELSE sweep[x]]
  /\ UNCHANGED <<now, tables, view>>

Steady ==
  \/ Tick
  \/ \E t \in Players : PlayerNext(t)
  \/ \E r \in Readers : ReaderNext(r)
  \/ \E s \in Settlers : SettlerNext(s)
  \/ \E a \in Admins : AdminNext(a)

Next == Steady \/ \E t \in Procs : Crash(t)

Spec == Init /\ [][Next]_vars

-----------------------------------------------------------------------------
(* Types *)

StartReq == [op: {"startGame"}, user: Users]
GuessReq == [op: {"submitGuess"}, user: Users, owner: Users, word: Words \cup {None}]
AdminReq ==
  [op: {"schedulePuzzle", "updatePuzzle", "deletePuzzle", "replaceTodayPuzzle"},
   date: Dates \cup {None}, word: Answers \cup {None}, hint: Letters \cup {None}]

StartPcs    == {"start.find", "start.lock", "start.write"}
GuessPcs    == {"guess.puzzle", "guess.game", "guess.write"}
SettlerPcs  == {"sweep", "finalize.lock", "finalize.forfeit", "finalize.average",
                "finalize.write", "activate.find", "activate.lock", "activate.write"}
SchedulePcs == {"schedule.check", "schedule.write"}
EditPcs     == {"edit.lock", "edit.write"}

Pcs == {"idle"} \cup StartPcs \cup GuessPcs \cup SettlerPcs \cup SchedulePcs \cup EditPcs

TxRecord ==
  [pc: Pcs, ts: Time, pid: Puzzles \cup {None},
   row: PuzzleRow \cup {None}, seen: GameRow \cup {None}]
SweepRecord ==
  [queue: SUBSET Puzzles, cron: BOOLEAN, frozen: {sweep[s].frozen : s \in Settlers}]
ViewRecord ==
  [pc: {"idle", "game", "guesses", "returned"}, user: Users \cup {None},
   pid: Puzzles \cup {None}, game: GameRow \cup {None}, guesses: SUBSET GuessRow]

(* Every variable keeps its type.  The frozen values are numbers computed  *)
(* by a fold; their range is left open here.                               *)
TypeOK ==
  /\ now \in Time
  /\ dailyPuzzles \in [Puzzles -> PuzzleRow]
  /\ frozen = [p \in Puzzles |-> frozen[p]]
  /\ games \in [Puzzles -> [Users -> GameRow]]
  /\ guesses \in [Puzzles -> [Users -> SUBSET GuessRow]]
  /\ puzzleLock \in [Puzzles -> Procs \cup {None}]
  /\ gameLock \in [Puzzles -> [Users -> Procs \cup {None}]]
  /\ tx \in [Procs -> TxRecord]
  /\ req \in [Players \cup Admins -> StartReq \cup GuessReq \cup AdminReq \cup {None}]
  /\ sweep \in [Settlers -> SweepRecord]
  /\ view \in [Readers -> ViewRecord]

-----------------------------------------------------------------------------
(* The server implements the one-step contest: each transaction takes      *)
(* effect in the step that commits it, as if it ran alone.                 *)
Contest == INSTANCE DailyContest WITH
  now <- now, dailyPuzzles <- dailyPuzzles, frozen <- frozen, games <- games, guesses <- guesses

(* Every behaviour of the server is one of DailyContest: the locks, held   *)
(* from the re-read to the commit, make the multi-step transactions of     *)
(* game/service.ts, finalize.ts, settlement.ts and admin/service.ts atomic.*)
ImplementsContest == Contest!Spec

(* The properties DailyContest states, of the server's tables. *)

(* Nothing runs, starts or is left ACTIVE on a FINALIZED puzzle. *)
FinalizedIsOver == Contest!FinalizedIsOver

(* The frozen average and penalty are those of the COMPLETED games. *)
FrozenMatchesGames == Contest!FrozenMatchesGames

(* A game's status follows from its guess rows and the puzzle's answer. *)
GuessesExplainStatus == Contest!GuessesExplainStatus

(* Starts, guesses and completion times lie within the puzzle's day. *)
PlayedWithinTheDay == Contest!PlayedWithinTheDay

(* A started puzzle is kept, and locked against edits. *)
PlayedPuzzleKept == Contest!PlayedPuzzleKept

(* Dates, answers, hints and expiries stay consistent under edits. *)
SoundSchedule == Contest!SoundSchedule

(* No puzzle is opened before its day. *)
NotBeforeItsDay == Contest!NotBeforeItsDay

(* A locked puzzle keeps its answer, hint, date and expiry. *)
LockedPuzzleFixed == Contest!LockedPuzzleFixed

(* A FINALIZED puzzle, its games and its frozen values never change. *)
FinalizedForever == Contest!FinalizedForever

(* A game is never restarted, reopened or stripped of a guess. *)
GamesNeverGoBack == Contest!GamesNeverGoBack

-----------------------------------------------------------------------------
(* Properties of the transactions *)

HoldingPcs ==
  {"start.write", "guess.game", "guess.write", "finalize.forfeit", "finalize.average",
   "finalize.write", "activate.write", "edit.write"}

(* What a handler read under the row lock is still what is committed when  *)
(* it writes: it holds the lock and its copy of the puzzle row, and of the *)
(* game row, is current at every step until it commits.                    *)
ReadsStayCurrent ==
  \A t \in Procs :
    /\ tx[t].pc \in HoldingPcs =>
         puzzleLock[Pid(t)] = t /\ tx[t].row = dailyPuzzles[Pid(t)]
    /\ AtPc(t, "guess.write") => tx[t].seen = GuessGame(t)

(* Concurrent guesses never meet at UNIQUE(game_id, guess_number): the     *)
(* locks have already put them in a row when a guess is inserted, and the  *)
(* conflict submitGuess provides for does not occur.                       *)
NumberFree == \A t \in Players : AtPc(t, "guess.write") => ~NumberTaken(t)

(* t cannot go on before h ends its transaction. *)
WaitsFor(t, h) ==
  \/ /\ tx[t].pc \in {"start.lock", "guess.puzzle", "finalize.lock", "activate.lock", "edit.lock"}
     /\ puzzleLock[Pid(t)] = h
  \/ AtPc(t, "guess.game") /\ gameLock[Pid(t)][req[t].owner] = h
  \/ AtPc(t, "finalize.forfeit") /\ \E u \in ActiveGames(Pid(t)) : gameLock[Pid(t)][u] = h

(* Puzzle row first, then game rows: transactions never wait for each      *)
(* other in a circle.                                                      *)
NoLockCycle ==
  \A S \in (SUBSET Procs) \ {{}} : \E t \in S : \A h \in S : ~WaitsFor(t, h)

(* getCurrentGame takes no lock, so its reads may be of different moments; *)
(* the guesses it returns are never behind the game row it returns, and    *)
(* a COMPLETED game comes with its winning guess.                          *)
CurrentGameNotBehind ==
  \A r \in Readers : view[r].pc = "returned" =>
    /\ \A n \in 1..view[r].game.guessCount : \E g \in view[r].guesses : g.number = n
    /\ view[r].game.status = "COMPLETED" =>
         \E g \in view[r].guesses : g.word = dailyPuzzles[view[r].pid].answer

-----------------------------------------------------------------------------
(* Fairness.  A handler whose statement can run goes on, or its            *)
(* transaction is rolled back; sweeps keep being started by the daily cron *)
(* or by board reads; and a finalization that is attempted again and again *)
(* is not refused its lock (PostgreSQL queues waiters in order) or broken  *)
(* off every single time, nor is every single sweep.                       *)
Running(t) == ~AtPc(t, "idle")

Fairness ==
  /\ \A t \in Players : WF_vars(Running(t) /\ (PlayerNext(t) \/ Crash(t)))
  /\ \A a \in Admins : WF_vars(Running(a) /\ (AdminNext(a) \/ Crash(a)))
  /\ \A s \in Settlers :
       /\ WF_vars(SettlerNext(s) \/ Crash(s))
       /\ \A p \in Puzzles :
            /\ SF_vars(p \in Swept /\ \E cron \in BOOLEAN : SweepSelect(s, cron))
            /\ SF_vars(FinalizeBegin(s, p))
       /\ SF_vars(FinalizeLock(s)) /\ SF_vars(FinalizeForfeit(s))
       /\ SF_vars(FinalizeAverage(s)) /\ SF_vars(FinalizeWrite(s))

FairSpec == Spec /\ Fairness

(* Moreover nothing crashes. *)
SteadySpec == Init /\ [][Steady]_vars /\ Fairness

(* Every ACTIVE puzzle that has expired is eventually FINALIZED, whatever  *)
(* sweeps skipped it, failed on it or were cut short.                      *)
ExpiredActiveSettles ==
  \A p \in Puzzles :
    dailyPuzzles[p].status = "ACTIVE" /\ dailyPuzzles[p].expiresAt <= now
      ~> dailyPuzzles[p].status = "FINALIZED"

(* "Find any expired non-finalized puzzles -> finalize them": every row of *)
(* a past day is eventually FINALIZED (or was deleted).                    *)
ExpiredPuzzleSettles ==
  \A p \in Puzzles :
    Exists(p) /\ dailyPuzzles[p].expiresAt <= now
      ~> dailyPuzzles[p].status \in {"FINALIZED", "DELETED"}

(* "A current-date puzzle can never be plain-deleted": a deletion only     *)
(* ever takes away a puzzle of a day still to come.                        *)
TodayNeverDeleted ==
  [][\A p \in Puzzles :
       dailyPuzzles[p].status = "SCHEDULED" /\ dailyPuzzles'[p].status = "DELETED" =>
         dailyPuzzles[p].date > ManilaDate(now)]_vars
=============================================================================
