------------------------------ MODULE Database ------------------------------
(***************************************************************************)
(* The PostgreSQL state every service of the server works on, and the      *)
(* transactions they run on it: the tables daily_puzzles, games and        *)
(* guesses (server/db/schema.ts), the database clock, the row locks taken  *)
(* by SELECT ... FOR UPDATE, and one record per running transaction.       *)
(*                                                                         *)
(* Isolation is READ COMMITTED.  A transaction keeps what it read in its   *)
(* record tx[t]; its writes become visible in the step that commits it, so *)
(* every step in between can be interleaved with any other transaction.    *)
(* transaction_timestamp() is tx[t].ts, the clock when the transaction     *)
(* began, however long it then waits for a lock.                           *)
(***************************************************************************)
EXTENDS Rows

CONSTANTS
  Players,      \* requests running startGame or submitGuess
  Readers,      \* requests running getCurrentGame
  Settlers,     \* cron invocations and week/month board reads
  Admins        \* requests running an admin mutation

(* Processes that open database transactions; readers use single           *)
(* autocommitted statements.                                               *)
Procs == Players \cup Settlers \cup Admins

ASSUME ProcsAssumption ==
  /\ Players \cap Settlers = {} /\ Players \cap Admins = {} /\ Players \cap Readers = {}
  /\ Settlers \cap Admins = {} /\ Settlers \cap Readers = {} /\ Admins \cap Readers = {}
  /\ None \notin Procs \cup Readers

VARIABLES
  now,           \* the database clock
  dailyPuzzles,  \* one row per puzzle id
  frozen,        \* average_completion_time_ms, non_completion_penalty_ms
  games,         \* games[p][u]: the row with (user_id, puzzle_id) = (u, p)
  guesses,       \* guesses[p][u]: the guess rows of that game
  puzzleLock,    \* the transaction holding the row lock, or None
  gameLock,
  tx,            \* the transaction each process runs
  req,           \* the request each player or admin serves
  sweep,         \* the loop state of each settlement
  view           \* what each getCurrentGame has read

tables == <<dailyPuzzles, frozen, games, guesses>>
locks  == <<puzzleLock, gameLock>>
vars   == <<now, tables, locks, tx, req, sweep, view>>

-----------------------------------------------------------------------------
Exists(p) == IsRow(dailyPuzzles[p])

OnDate(d) == {p \in Puzzles : Exists(p) /\ dailyPuzzles[p].date = d}

(* Another ACTIVE puzzle on p's date: the consistency check both lazy      *)
(* activation and the cron activation make.                                *)
OtherActive(p) ==
  \E q \in OnDate(dailyPuzzles[p].date) \ {p} : dailyPuzzles[q].status = "ACTIVE"

-----------------------------------------------------------------------------
(* Transactions *)

NewTx(pc, ts, p) == [pc |-> pc, ts |-> ts, pid |-> p, row |-> None, seen |-> None]
IdleTx == NewTx("idle", 0, None)

AtPc(t, pc) == tx[t].pc = pc
Pid(t)      == tx[t].pid

(* BEGIN: transaction_timestamp() is fixed here. *)
Begin(t, pc, p) ==
  tx' = [tx EXCEPT ![t] = NewTx(pc, now, p)]

(* A wrong variant: reading without FOR UPDATE, hence without waiting. *)
PuzzleReadAnyway(t) == Pid(t) \in Puzzles

(* SELECT ... FOR UPDATE waits for the row's lock and then reads the       *)
(* committed row.                                                          *)
PuzzleFree(t) == puzzleLock[Pid(t)] = None

LockPuzzle(t, pc) ==
  /\ puzzleLock' = [puzzleLock EXCEPT ![Pid(t)] = t]
  /\ tx' = [tx EXCEPT ![t].pc = pc, ![t].row = dailyPuzzles[Pid(t)]]
  /\ UNCHANGED gameLock

(* COMMIT and ROLLBACK both release every row lock of the transaction.     *)
End(t, pc) ==
  /\ tx' = [tx EXCEPT ![t] = NewTx(pc, 0, None)]
  /\ puzzleLock' = [p \in Puzzles |-> IF puzzleLock[p] = t THEN None ELSE puzzleLock[p]]
  /\ gameLock' = [p \in Puzzles |-> [u \in Users |->
                    IF gameLock[p][u] = t THEN None ELSE gameLock[p][u]]]

-----------------------------------------------------------------------------
IdleSweep == [queue |-> {}, cron |-> FALSE, frozen |-> None]
NewView(pc, u, p) == [pc |-> pc, user |-> u, pid |-> p, game |-> None, guesses |-> {}]
IdleView  == NewView("idle", None, None)

Init ==
  /\ now = 0
  /\ dailyPuzzles = InitialPuzzles
  /\ frozen = [p \in Puzzles |-> None]
  /\ games = InitialGames
  /\ guesses = InitialGuesses
  /\ puzzleLock = [p \in Puzzles |-> None]
  /\ gameLock = [p \in Puzzles |-> [u \in Users |-> None]]
  /\ tx = [t \in Procs |-> IdleTx]
  /\ req = [t \in Players \cup Admins |-> None]
  /\ sweep = [s \in Settlers |-> IdleSweep]
  /\ view = [r \in Readers |-> IdleView]

(* The database clock advances at any moment. *)
Tick ==
  /\ now < MaxTime
  /\ now' = now + 1
  /\ UNCHANGED <<tables, locks, tx, req, sweep, view>>
=============================================================================
