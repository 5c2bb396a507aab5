------------------------- MODULE DailyPuzzleProofs --------------------------
(***************************************************************************)
(* DailyPuzzle, for every value of its constants: its types; its row       *)
(* locks, under which what a handler read is still true when it writes,    *)
(* and no two transactions deadlock; and every transaction taking effect   *)
(* as one step of DailyContest, since in the step that commits it all that *)
(* it checked earlier is still true of the rows it holds.  So what         *)
(* DailyContestProofs proves of the one-step contest holds of the server.  *)
(***************************************************************************)
EXTENDS BoardRead, RowsTypes, TLAPS

-----------------------------------------------------------------------------
(* Phases *)

(* What a transaction carries in each phase: the request it serves, the    *)
(* puzzle it is about, the rows it has read.                               *)
PlayerPhase(t) ==
  /\ tx[t].pc \in {"idle"} \cup StartPcs \cup GuessPcs
  /\ tx[t].pc \in StartPcs => req[t] \in StartReq
  /\ tx[t].pc \in GuessPcs => req[t] \in GuessReq
  /\ AtPc(t, "guess.write") =>
       /\ tx[t].seen \in GameRow /\ tx[t].seen.guessCount < MaxGuesses
       /\ req[t].word \in Words

AdminPhase(a) ==
  /\ tx[a].pc \in {"idle"} \cup SchedulePcs \cup EditPcs
  /\ tx[a].pc # "idle" => req[a] \in AdminReq
  /\ tx[a].pc \in SchedulePcs =>
       req[a].date \in Dates /\ req[a].word \in Answers /\ req[a].hint \in Letters

NoPidPcs == {"idle", "sweep", "start.find", "activate.find", "schedule.check", "schedule.write"}

TxPhase(t) ==
  /\ tx[t].pc \notin NoPidPcs => tx[t].pid \in Puzzles
  /\ tx[t].pc \in HoldingPcs => tx[t].row \in PuzzleRow

PhasesOK ==
  /\ \A t \in Players : PlayerPhase(t)
  /\ \A s \in Settlers : tx[s].pc \in {"idle"} \cup SettlerPcs
  /\ \A a \in Admins : AdminPhase(a)
  /\ \A t \in Procs : TxPhase(t)
  /\ \A r \in Readers :
       view[r].pc # "idle" => view[r].pid \in Puzzles /\ view[r].user \in Users

TypeInv == TypeOK /\ PhasesOK

-----------------------------------------------------------------------------
(* Types *)

(* The first state is well typed. *)
LEMMA InitType == Init => TypeInv
  <1> SUFFICES ASSUME Init PROVE TypeInv
    OBVIOUS
  <1> USE DEF Init
  <1>1. now \in Time
    BY BoundsAssumption DEF Time
  <1>2. /\ dailyPuzzles \in [Puzzles -> PuzzleRow]
        /\ games \in [Puzzles -> [Users -> GameRow]]
        /\ guesses \in [Puzzles -> [Users -> SUBSET GuessRow]]
    BY InitialTypes
  <1>3. IdleTx \in TxRecord
    BY BoundsAssumption DEF IdleTx, NewTx, TxRecord, Pcs, Time
  <1>4. view \in [Readers -> ViewRecord]
    BY DEF IdleView, NewView, ViewRecord
  <1>5. TypeOK
    BY <1>1, <1>2, <1>3, <1>4 DEF TypeOK, SweepRecord, IdleSweep
  <1>6. PhasesOK
    BY DEF PhasesOK, PlayerPhase, AdminPhase, TxPhase, NoPidPcs, HoldingPcs, IdleTx, NewTx,
           IdleView, NewView, AtPc, Procs, StartPcs, GuessPcs, SchedulePcs, EditPcs
  <1> QED
    BY <1>5, <1>6 DEF TypeInv

(* What BEGIN, a row lock and the end of a transaction do to the types.    *)
LEMMA BeginType ==
  ASSUME TypeOK, NEW t \in Procs, NEW p \in Puzzles \cup {None}, NEW pc \in Pcs, Begin(t, pc, p)
  PROVE  /\ tx' \in [Procs -> TxRecord]
         /\ tx'[t] = NewTx(pc, now, p)
         /\ \A x \in Procs \ {t} : tx'[x] = tx[x]
  BY DEF TypeOK, Begin, TxRecord, NewTx

(* COMMIT or ROLLBACK: types, and nobody else's transaction changes.       *)
LEMMA EndType ==
  ASSUME TypeOK, NEW t \in Procs, NEW pc \in Pcs, End(t, pc)
  PROVE  /\ tx' \in [Procs -> TxRecord]
         /\ tx'[t] = NewTx(pc, 0, None)
         /\ \A x \in Procs \ {t} : tx'[x] = tx[x]
         /\ puzzleLock' \in [Puzzles -> Procs \cup {None}]
         /\ gameLock' \in [Puzzles -> [Users -> Procs \cup {None}]]
  <1>1. NewTx(pc, 0, None) \in TxRecord
    BY BoundsAssumption DEF NewTx, TxRecord, Time
  <1> QED
    BY <1>1 DEF TypeOK, End

(* SELECT ... FOR UPDATE: the transaction now carries the row.             *)
LEMMA LockType ==
  ASSUME TypeOK, NEW t \in Procs, Pid(t) \in Puzzles, NEW pc \in Pcs, LockPuzzle(t, pc)
  PROVE  /\ tx' \in [Procs -> TxRecord]
         /\ tx'[t].pc = pc /\ tx'[t].ts = tx[t].ts /\ tx'[t].pid = Pid(t)
         /\ tx'[t].row = dailyPuzzles[Pid(t)] /\ tx'[t].seen = tx[t].seen
         /\ \A x \in Procs \ {t} : tx'[x] = tx[x]
         /\ puzzleLock' \in [Puzzles -> Procs \cup {None}]
  <1>1. tx \in [Procs -> TxRecord] /\ tx[t] \in TxRecord
    BY DEF TypeOK
  <1>2. dailyPuzzles[Pid(t)] \in PuzzleRow /\ puzzleLock \in [Puzzles -> Procs \cup {None}]
    BY DEF TypeOK
  <1> QED
    BY <1>1, <1>2 DEF LockPuzzle, Pid, TxRecord

(* A step within a transaction that only changes its phase.                *)
LEMMA GotoType ==
  ASSUME TypeOK, NEW t \in Procs, NEW pc \in Pcs, tx' = [tx EXCEPT ![t].pc = pc]
  PROVE  /\ tx' \in [Procs -> TxRecord]
         /\ tx'[t].pc = pc /\ tx'[t].ts = tx[t].ts /\ tx'[t].pid = Pid(t)
         /\ tx'[t].row = tx[t].row /\ tx'[t].seen = tx[t].seen
         /\ \A x \in Procs \ {t} : tx'[x] = tx[x]
  <1>1. tx \in [Procs -> TxRecord] /\ tx[t] \in TxRecord
    BY DEF TypeOK
  <1> QED
    BY <1>1 DEF TxRecord, Pid

-----------------------------------------------------------------------------
(* A step of one process leaves the phases of all others alone.            *)
LEMMA PlayerFrame ==
  ASSUME PhasesOK, NEW t \in Players,
         \A x \in Procs \ {t} : tx'[x] = tx[x],
         \A x \in (Players \cup Admins) \ {t} : req'[x] = req[x],
         view' = view, PlayerPhase(t)', TxPhase(t)'
  PROVE  PhasesOK'
  BY ProcsAssumption DEF PhasesOK, PlayerPhase, AdminPhase, TxPhase, AtPc, Procs

(* The phases of the others when a settlement moves.                       *)
LEMMA SettlerFrame ==
  ASSUME PhasesOK, NEW s \in Settlers,
         \A x \in Procs \ {s} : tx'[x] = tx[x], req' = req, view' = view,
         tx'[s].pc \in {"idle"} \cup SettlerPcs, TxPhase(s)'
  PROVE  PhasesOK'
  BY ProcsAssumption DEF PhasesOK, PlayerPhase, AdminPhase, TxPhase, AtPc, Procs

(* The phases of the others when an admin request moves.                   *)
LEMMA AdminFrame ==
  ASSUME PhasesOK, NEW a \in Admins,
         \A x \in Procs \ {a} : tx'[x] = tx[x],
         \A x \in (Players \cup Admins) \ {a} : req'[x] = req[x],
         view' = view, AdminPhase(a)', TxPhase(a)'
  PROVE  PhasesOK'
  BY ProcsAssumption DEF PhasesOK, PlayerPhase, AdminPhase, TxPhase, AtPc, Procs

(* The facts of TypeInv about one process. *)
LEMMA PlayerFacts ==
  ASSUME TypeInv, NEW t \in Players
  PROVE  /\ t \in Procs /\ tx[t] \in TxRecord /\ tx[t].ts \in Time
         /\ PlayerPhase(t) /\ TxPhase(t)
         /\ req \in [Players \cup Admins -> StartReq \cup GuessReq \cup AdminReq \cup {None}]
  <1>1. t \in Procs
    BY DEF Procs
  <1> QED
    BY <1>1 DEF TypeInv, TypeOK, PhasesOK, TxRecord

(* A request that is refused changes no table. *)
LEMMA RefuseType ==
  ASSUME TypeInv, NEW t \in Players, Refuse(t)
  PROVE  TypeInv'
  <1> USE PlayerFacts DEF Refuse, PlayerUnchanged, tables
  <1>1. TypeOK /\ PhasesOK /\ "idle" \in Pcs
    BY DEF TypeInv, Pcs
  <1>2. /\ tx' \in [Procs -> TxRecord] /\ tx'[t] = NewTx("idle", 0, None)
        /\ \A x \in Procs \ {t} : tx'[x] = tx[x]
        /\ puzzleLock' \in [Puzzles -> Procs \cup {None}]
        /\ gameLock' \in [Puzzles -> [Users -> Procs \cup {None}]]
    BY <1>1, EndType
  <1>3. TypeOK'
    BY <1>1, <1>2 DEF TypeOK, SweepRecord
  <1>4. PlayerPhase(t)' /\ TxPhase(t)'
    BY <1>2 DEF PlayerPhase, TxPhase, NewTx, AtPc, StartPcs, GuessPcs, HoldingPcs, NoPidPcs
  <1> QED
    BY <1>1, <1>2, <1>3, <1>4, PlayerFrame DEF TypeInv
(* startGame and submitGuess keep the types. *)
LEMMA PlayerType ==
  ASSUME TypeInv, NEW t \in Players, PlayerNext(t)
  PROVE  TypeInv'
  <1> USE DEF PlayerUnchanged, tables, locks
  <1>0. /\ TypeOK /\ PhasesOK /\ t \in Procs /\ tx[t] \in TxRecord /\ tx[t].ts \in Time
        /\ PlayerPhase(t) /\ TxPhase(t) /\ tx \in [Procs -> TxRecord]
        /\ req \in [Players \cup Admins -> StartReq \cup GuessReq \cup AdminReq \cup {None}]
    BY PlayerFacts DEF TypeInv, TypeOK
  <1>a. /\ {"start.find", "start.lock", "start.write"} \subseteq Pcs
        /\ {"guess.puzzle", "guess.game", "guess.write", "idle"} \subseteq Pcs
    BY DEF Pcs, StartPcs, GuessPcs
  <1>1. ASSUME NEW u \in Users, StartBegin(t, u) PROVE TypeInv'
    <2> USE <1>1 DEF StartBegin
    <2>1. /\ tx' \in [Procs -> TxRecord] /\ tx'[t] = NewTx("start.find", now, None)
          /\ \A x \in Procs \ {t} : tx'[x] = tx[x]
      BY <1>0, <1>a, BeginType
    <2>2. TypeOK'
      BY <1>0, <2>1 DEF TypeOK, SweepRecord, StartReq
    <2>3. PlayerPhase(t)' /\ TxPhase(t)'
      BY <1>0, <2>1
         DEF PlayerPhase, TxPhase, NewTx, AtPc, StartPcs, GuessPcs, HoldingPcs, NoPidPcs, StartReq
    <2> QED
      BY <1>0, <2>1, <2>2, <2>3, PlayerFrame DEF TypeInv
  <1>2. ASSUME StartFind(t) PROVE TypeInv'
    <2>0. PICK p \in Puzzles : tx' = [tx EXCEPT ![t].pc = "start.lock", ![t].pid = p]
      BY <1>2 DEF StartFind, OnDate
    <2>1. /\ tx' \in [Procs -> TxRecord] /\ tx'[t].pc = "start.lock" /\ tx'[t].pid = p
          /\ \A x \in Procs \ {t} : tx'[x] = tx[x]
      BY <1>0, <1>a, <2>0 DEF TxRecord
    <2>2. TypeOK'
      BY <1>0, <1>2, <2>1 DEF TypeOK, SweepRecord, StartFind
    <2>3. PlayerPhase(t)' /\ TxPhase(t)'
      BY <1>0, <1>2, <2>1
         DEF StartFind, PlayerPhase, TxPhase, AtPc, StartPcs, GuessPcs, HoldingPcs, NoPidPcs
    <2> QED
      BY <1>0, <1>2, <2>1, <2>2, <2>3, PlayerFrame DEF TypeInv, StartFind
  <1>3. ASSUME StartLock(t) PROVE TypeInv'
    <2> USE <1>3 DEF StartLock
    <2>0. Pid(t) \in Puzzles /\ dailyPuzzles[Pid(t)] \in PuzzleRow
      BY <1>0 DEF TxPhase, NoPidPcs, AtPc, Pid, TypeOK
    <2>1. /\ tx' \in [Procs -> TxRecord] /\ tx'[t].pc = "start.write" /\ tx'[t].pid = Pid(t)
          /\ tx'[t].row = dailyPuzzles[Pid(t)]
          /\ \A x \in Procs \ {t} : tx'[x] = tx[x]
          /\ puzzleLock' \in [Puzzles -> Procs \cup {None}]
      BY <1>0, <1>a, <2>0, LockType
    <2>2. TypeOK'
      BY <1>0, <2>1 DEF TypeOK, SweepRecord, LockPuzzle
    <2>3. PlayerPhase(t)' /\ TxPhase(t)'
      BY <1>0, <2>0, <2>1
         DEF PlayerPhase, TxPhase, AtPc, StartPcs, GuessPcs, HoldingPcs, NoPidPcs
    <2> QED
      BY <1>0, <2>1, <2>2, <2>3, PlayerFrame DEF TypeInv
  <1>4. ASSUME StartWrite(t) PROVE TypeInv'
    <2> USE <1>4 DEF StartWrite
    <2>0. Pid(t) \in Puzzles /\ req[t].user \in Users
      BY <1>0 DEF TxPhase, PlayerPhase, NoPidPcs, AtPc, Pid, StartPcs, StartReq
    <2>1. /\ tx' \in [Procs -> TxRecord] /\ tx'[t] = NewTx("idle", 0, None)
          /\ \A x \in Procs \ {t} : tx'[x] = tx[x]
          /\ puzzleLock' \in [Puzzles -> Procs \cup {None}]
          /\ gameLock' \in [Puzzles -> [Users -> Procs \cup {None}]]
      BY <1>0, <1>a, EndType
    <2>2. dailyPuzzles' \in [Puzzles -> PuzzleRow]
      BY <1>0, <2>0, OpenedType DEF TypeOK
    <2>3. games' \in [Puzzles -> [Users -> GameRow]]
      BY <1>0, <2>0, StartedType DEF TypeOK
    <2>4. TypeOK'
      BY <1>0, <2>1, <2>2, <2>3 DEF TypeOK, SweepRecord
    <2>5. PlayerPhase(t)' /\ TxPhase(t)'
      BY <2>1 DEF PlayerPhase, TxPhase, NewTx, AtPc, StartPcs, GuessPcs, HoldingPcs, NoPidPcs
    <2> QED
      BY <1>0, <2>1, <2>4, <2>5, PlayerFrame DEF TypeInv
  <1>5. ASSUME NEW u \in Users, NEW owner \in Users, NEW p \in Puzzles,
               NEW word \in Words \cup {None}, GuessBegin(t, u, owner, p, word)
        PROVE  TypeInv'
    <2> USE <1>5 DEF GuessBegin
    <2>1. /\ tx' \in [Procs -> TxRecord] /\ tx'[t] = NewTx("guess.puzzle", now, p)
          /\ \A x \in Procs \ {t} : tx'[x] = tx[x]
      BY <1>0, <1>a, BeginType
    <2>2. TypeOK'
      BY <1>0, <2>1 DEF TypeOK, SweepRecord, GuessReq
    <2>3. PlayerPhase(t)' /\ TxPhase(t)'
      BY <1>0, <2>1
         DEF PlayerPhase, TxPhase, NewTx, AtPc, StartPcs, GuessPcs, HoldingPcs, NoPidPcs, GuessReq
    <2> QED
      BY <1>0, <2>1, <2>2, <2>3, PlayerFrame DEF TypeInv
  <1>6. ASSUME GuessLockPuzzle(t) PROVE TypeInv'
    <2> USE <1>6 DEF GuessLockPuzzle
    <2>0. Pid(t) \in Puzzles /\ dailyPuzzles[Pid(t)] \in PuzzleRow
      BY <1>0 DEF TxPhase, NoPidPcs, AtPc, Pid, TypeOK
    <2>1. /\ tx' \in [Procs -> TxRecord] /\ tx'[t].pc = "guess.game" /\ tx'[t].pid = Pid(t)
          /\ tx'[t].row = dailyPuzzles[Pid(t)]
          /\ \A x \in Procs \ {t} : tx'[x] = tx[x]
          /\ puzzleLock' \in [Puzzles -> Procs \cup {None}]
      BY <1>0, <1>a, <2>0, LockType
    <2>2. TypeOK'
      BY <1>0, <2>1 DEF TypeOK, SweepRecord, LockPuzzle
    <2>3. PlayerPhase(t)' /\ TxPhase(t)'
      BY <1>0, <2>0, <2>1
         DEF PlayerPhase, TxPhase, AtPc, StartPcs, GuessPcs, HoldingPcs, NoPidPcs
    <2> QED
      BY <1>0, <2>1, <2>2, <2>3, PlayerFrame DEF TypeInv
  <1>7. ASSUME GuessLockGame(t) PROVE TypeInv'
    <2> USE <1>7 DEF GuessLockGame
    <2>0. /\ Pid(t) \in Puzzles /\ tx[t].row \in PuzzleRow
          /\ req[t] \in GuessReq /\ req[t].owner \in Users
      BY <1>0 DEF TxPhase, PlayerPhase, NoPidPcs, HoldingPcs, GuessPcs, GuessReq, AtPc, Pid
    <2>1. GuessGame(t) \in GameRow /\ GuessGame(t).guessCount < MaxGuesses
      <3>1. GuessGame(t) \in GameRow
        BY <1>0, <2>0 DEF GuessGame, TypeOK
      <3> QED
        BY <3>1, BoundsAssumption DEF GuessAllowed, GameRow
    <2>2. /\ tx' \in [Procs -> TxRecord] /\ tx'[t].pc = "guess.write" /\ tx'[t].pid = Pid(t)
          /\ tx'[t].row = tx[t].row /\ tx'[t].seen = GuessGame(t)
          /\ \A x \in Procs \ {t} : tx'[x] = tx[x]
      BY <1>0, <1>a, <2>1 DEF TxRecord, Pid
    <2>3. gameLock' \in [Puzzles -> [Users -> Procs \cup {None}]]
      BY <1>0, <2>0 DEF TypeOK
    <2>4. TypeOK'
      BY <1>0, <2>2, <2>3 DEF TypeOK, SweepRecord
    <2>5. PlayerPhase(t)' /\ TxPhase(t)'
      BY <1>0, <2>0, <2>1, <2>2
         DEF PlayerPhase, TxPhase, GuessAllowed, AtPc, StartPcs, GuessPcs, HoldingPcs, NoPidPcs
    <2> QED
      BY <1>0, <2>2, <2>4, <2>5, PlayerFrame DEF TypeInv
  <1>8. ASSUME GuessWrite(t) PROVE TypeInv'
    <2> USE <1>8 DEF GuessWrite
    <2>0. /\ Pid(t) \in Puzzles /\ req[t] \in GuessReq /\ req[t].owner \in Users
          /\ req[t].word \in Words
          /\ tx[t].seen \in GameRow /\ tx[t].seen.guessCount < MaxGuesses
      BY <1>0 DEF TxPhase, PlayerPhase, NoPidPcs, GuessPcs, GuessReq, AtPc, Pid
    <2>1. GuessNumber(t) \in 1..MaxGuesses
      BY <2>0, BoundsAssumption DEF GuessNumber, GameRow
    <2>2. /\ tx' \in [Procs -> TxRecord] /\ tx'[t] = NewTx("idle", 0, None)
          /\ \A x \in Procs \ {t} : tx'[x] = tx[x]
          /\ puzzleLock' \in [Puzzles -> Procs \cup {None}]
          /\ gameLock' \in [Puzzles -> [Users -> Procs \cup {None}]]
      BY <1>0, <1>a, EndType
    <2>3. games' \in [Puzzles -> [Users -> GameRow]]
      <3>1. games[Pid(t)][req[t].owner] \in GameRow /\ Solved(t) \in BOOLEAN
        BY <1>0, <2>0 DEF TypeOK, Solved
      <3>2. GuessedGame(games[Pid(t)][req[t].owner], GuessNumber(t), Solved(t), tx[t].ts)
              \in GameRow
        BY <1>0, <2>1, <3>1, GuessedType
      <3> QED
        BY <1>0, <2>0, <3>2 DEF TypeOK
    <2>4. guesses' \in [Puzzles -> [Users -> SUBSET GuessRow]]
      <3>1. [number |-> GuessNumber(t), word |-> req[t].word, at |-> tx[t].ts] \in GuessRow
        BY <1>0, <2>0, <2>1 DEF GuessRow
      <3> QED
        BY <1>0, <2>0, <3>1 DEF TypeOK
    <2>5. TypeOK'
      BY <1>0, <2>2, <2>3, <2>4 DEF TypeOK, SweepRecord
    <2>6. PlayerPhase(t)' /\ TxPhase(t)'
      BY <2>2 DEF PlayerPhase, TxPhase, NewTx, AtPc, StartPcs, GuessPcs, HoldingPcs, NoPidPcs
    <2> QED
      BY <1>0, <2>2, <2>5, <2>6, PlayerFrame DEF TypeInv
  <1>9. ASSUME Refuse(t) PROVE TypeInv'
    BY <1>9, RefuseType
  <1> QED
    BY <1>1, <1>2, <1>3, <1>4, <1>5, <1>6, <1>7, <1>8, <1>9
       DEF PlayerNext, StartMissing, StartRefused, GuessExpired, GuessRejected
(* getCurrentGame keeps the types. *)
LEMMA ReaderType ==
  ASSUME TypeInv, NEW r \in Readers, ReaderNext(r)
  PROVE  TypeInv'
  <1> USE DEF ReaderUnchanged, tables, locks
  <1>0. /\ TypeOK /\ PhasesOK /\ view \in [Readers -> ViewRecord]
        /\ view[r].pc # "idle" => view[r].pid \in Puzzles /\ view[r].user \in Users
    BY DEF TypeInv, TypeOK, PhasesOK
  <1>1. SUFFICES /\ UNCHANGED <<now, tables, locks, tx, req, sweep>>
                 /\ view' \in [Readers -> ViewRecord]
                 /\ \A x \in Readers :
                      view'[x].pc # "idle" => view'[x].pid \in Puzzles /\ view'[x].user \in Users
    BY <1>0, <1>1
       DEF TypeInv, TypeOK, SweepRecord, PhasesOK, PlayerPhase, AdminPhase, TxPhase, AtPc
  <1>2. ASSUME NEW u \in Users, ReadPuzzle(r, u)
        PROVE  /\ UNCHANGED <<now, tables, locks, tx, req, sweep>>
               /\ view' \in [Readers -> ViewRecord]
               /\ \A x \in Readers :
                    view'[x].pc # "idle" => view'[x].pid \in Puzzles /\ view'[x].user \in Users
    <2>1. PICK p \in Puzzles : view' = [view EXCEPT ![r] = NewView("game", u, p)]
      BY <1>2 DEF ReadPuzzle, OnDate
    <2>2. NewView("game", u, p) \in ViewRecord
      BY DEF NewView, ViewRecord
    <2> QED
      BY <1>0, <1>2, <2>1, <2>2 DEF ReadPuzzle, PhasesOK, NewView
  <1>3. ASSUME ReadGame(r)
        PROVE  /\ UNCHANGED <<now, tables, locks, tx, req, sweep>>
               /\ view' \in [Readers -> ViewRecord]
               /\ \A x \in Readers :
                    view'[x].pc # "idle" => view'[x].pid \in Puzzles /\ view'[x].user \in Users
    <2> DEFINE game == games[view[r].pid][view[r].user]
    <2>1. view[r].pid \in Puzzles /\ view[r].user \in Users
      BY <1>0, <1>3 DEF ReadGame
    <2>2. game \in GameRow
      BY <1>0, <2>1 DEF TypeOK
    <2>3. CASE game.status = "NONE"
      <3>1. view' = [view EXCEPT ![r] = IdleView]
        BY <1>3, <2>3 DEF ReadGame
      <3>2. IdleView \in ViewRecord /\ IdleView.pc = "idle"
        BY DEF IdleView, NewView, ViewRecord
      <3> QED
        BY <1>0, <1>3, <3>1, <3>2 DEF ReadGame, PhasesOK
    <2>4. CASE game.status # "NONE"
      <3>1. view' = [view EXCEPT ![r] = [@ EXCEPT !.pc = "guesses", !.game = game]]
        BY <1>3, <2>4 DEF ReadGame
      <3> HIDE DEF game
      <3>2. /\ view' \in [Readers -> ViewRecord]
            /\ view'[r].pid = view[r].pid /\ view'[r].user = view[r].user
            /\ \A x \in Readers \ {r} : view'[x] = view[x]
        <4>0. view \in [Readers -> ViewRecord]
          BY <1>0 DEF TypeOK
        <4> DEFINE new == [view[r] EXCEPT !.pc = "guesses", !.game = game]
        <4>1. new \in ViewRecord /\ new.pid = view[r].pid /\ new.user = view[r].user
          BY <4>0, <2>2 DEF ViewRecord
        <4>2. view' = [view EXCEPT ![r] = new]
          BY <3>1
        <4> HIDE DEF new
        <4> QED
          BY <4>0, <4>1, <4>2
      <3> QED
        BY <1>0, <1>3, <2>1, <3>2 DEF ReadGame, PhasesOK
    <2> QED
      BY <2>3, <2>4
  <1>4. ASSUME ReadGuesses(r)
        PROVE  /\ UNCHANGED <<now, tables, locks, tx, req, sweep>>
               /\ view' \in [Readers -> ViewRecord]
               /\ \A x \in Readers :
                    view'[x].pc # "idle" => view'[x].pid \in Puzzles /\ view'[x].user \in Users
    <2>1. view[r].pid \in Puzzles /\ view[r].user \in Users
      BY <1>0, <1>4 DEF ReadGuesses
    <2>2. GuessesOf(r) \in SUBSET GuessRow
      BY <1>0, <2>1 DEF TypeOK, GuessesOf
    <2>3. view' = [view EXCEPT ![r].pc = "returned", ![r].guesses = GuessesOf(r)]
      BY <1>4 DEF ReadGuesses
    <2>4. /\ view' \in [Readers -> ViewRecord]
          /\ view'[r].pid = view[r].pid /\ view'[r].user = view[r].user
          /\ \A x \in Readers \ {r} : view'[x] = view[x]
      <3>0. view \in [Readers -> ViewRecord]
        BY <1>0 DEF TypeOK
      <3> DEFINE new == [view[r] EXCEPT !.pc = "returned", !.guesses = GuessesOf(r)]
      <3>1. new \in ViewRecord /\ new.pid = view[r].pid /\ new.user = view[r].user
        BY <3>0, <2>2 DEF ViewRecord
      <3>2. view' = [view EXCEPT ![r] = new]
        BY <2>3
      <3> HIDE DEF new
      <3> QED
        BY <3>0, <3>1, <3>2
    <2> QED
      BY <1>0, <1>4, <2>1, <2>4 DEF ReadGuesses, PhasesOK
  <1>5. ASSUME ReadReturn(r)
        PROVE  /\ UNCHANGED <<now, tables, locks, tx, req, sweep>>
               /\ view' \in [Readers -> ViewRecord]
               /\ \A x \in Readers :
                    view'[x].pc # "idle" => view'[x].pid \in Puzzles /\ view'[x].user \in Users
    <2>1. IdleView \in ViewRecord /\ IdleView.pc = "idle"
      BY DEF IdleView, NewView, ViewRecord
    <2> QED
      BY <1>0, <1>5, <2>1 DEF ReadReturn, PhasesOK
  <1> QED
    BY <1>2, <1>3, <1>4, <1>5 DEF ReaderNext

(* A settlement's loop state: what a step may store in it.                 *)
LEMMA SweepType ==
  ASSUME TypeOK, NEW s \in Settlers, NEW queue \in SUBSET Puzzles, NEW cron \in BOOLEAN, NEW f,
         sweep' = [sweep EXCEPT ![s] = [queue |-> queue, cron |-> cron, frozen |-> f]]
  PROVE  sweep' \in [Settlers -> SweepRecord']
  <1>1. sweep \in [Settlers -> SweepRecord]
    BY DEF TypeOK
  <1>2. \A x \in Settlers \ {s} : sweep'[x] = sweep[x]
    BY <1>1
  <1>3. sweep'[s] = [queue |-> queue, cron |-> cron, frozen |-> f]
    BY <1>1
  <1>4. \A x \in Settlers : sweep'[x] \in SweepRecord'
    BY <1>1, <1>2, <1>3 DEF SweepRecord
  <1> QED
    BY <1>1, <1>4

(* A sweep that takes a puzzle off its queue keeps its type.               *)
LEMMA DequeueType ==
  ASSUME TypeOK, NEW s \in Settlers, NEW p, sweep' = [sweep EXCEPT ![s].queue = @ \ {p}]
  PROVE  sweep' \in [Settlers -> SweepRecord']
  <1>1. sweep \in [Settlers -> SweepRecord]
    BY DEF TypeOK
  <1>2. {sweep'[x].frozen : x \in Settlers} = {sweep[x].frozen : x \in Settlers}
    BY <1>1 DEF SweepRecord
  <1> QED
    BY <1>1, <1>2 DEF SweepRecord

(* A sweep that notes or drops frozen values keeps its type.               *)
LEMMA FreezeType ==
  ASSUME TypeOK, NEW s \in Settlers, NEW f, sweep' = [sweep EXCEPT ![s].frozen = f]
  PROVE  sweep' \in [Settlers -> SweepRecord']
  <1>1. sweep \in [Settlers -> SweepRecord]
    BY DEF TypeOK
  <1> DEFINE F == {sweep[x].frozen : x \in Settlers}
  <1>2. F' \subseteq F \cup {f} /\ f \in F'
    BY <1>1 DEF SweepRecord
  <1> QED
    BY <1>1, <1>2 DEF SweepRecord
(* Where a settlement's transaction ends, the locks and the loop state     *)
(* keep their types.                                                       *)
LEMMA SettlerEndType ==
  ASSUME TypeInv, NEW s \in Settlers, NEW pc \in {"idle", "sweep"}, End(s, pc),
         UNCHANGED <<now, guesses, req, view>>, frozen' = [p \in Puzzles |-> frozen'[p]],
         dailyPuzzles' \in [Puzzles -> PuzzleRow], games' \in [Puzzles -> [Users -> GameRow]],
         sweep' \in [Settlers -> SweepRecord']
  PROVE  TypeInv'
  <1>0. TypeOK /\ PhasesOK /\ s \in Procs /\ pc \in Pcs
    BY DEF TypeInv, Procs, Pcs, SettlerPcs
  <1>1. /\ tx' \in [Procs -> TxRecord] /\ tx'[s] = NewTx(pc, 0, None)
        /\ \A x \in Procs \ {s} : tx'[x] = tx[x]
        /\ puzzleLock' \in [Puzzles -> Procs \cup {None}]
        /\ gameLock' \in [Puzzles -> [Users -> Procs \cup {None}]]
    BY <1>0, EndType
  <1>2. TypeOK'
    BY <1>0, <1>1 DEF TypeOK
  <1>3. tx'[s].pc \in {"idle"} \cup SettlerPcs /\ TxPhase(s)'
    BY <1>1 DEF NewTx, SettlerPcs, TxPhase, HoldingPcs, NoPidPcs
  <1> QED
    BY <1>0, <1>1, <1>2, <1>3, SettlerFrame DEF TypeInv

(* The settlement keeps the types. *)
LEMMA SettlerType ==
  ASSUME TypeInv, NEW s \in Settlers, SettlerNext(s)
  PROVE  TypeInv'
  <1> USE DEF SettleUnchanged, tables, locks
  <1>0. /\ TypeOK /\ PhasesOK /\ s \in Procs /\ tx[s] \in TxRecord /\ tx[s].ts \in Time
        /\ TxPhase(s) /\ tx \in [Procs -> TxRecord]
        /\ dailyPuzzles \in [Puzzles -> PuzzleRow] /\ games \in [Puzzles -> [Users -> GameRow]]
    <2>1. s \in Procs
      BY DEF Procs
    <2> QED
      BY <2>1 DEF TypeInv, TypeOK, PhasesOK, TxRecord
  <1>a. /\ {"idle", "sweep", "finalize.lock", "finalize.forfeit", "finalize.average"} \subseteq Pcs
        /\ {"finalize.write", "activate.find", "activate.lock", "activate.write"} \subseteq Pcs
    BY DEF Pcs, SettlerPcs
  <1>1. ASSUME NEW cron \in BOOLEAN, SweepSelect(s, cron) PROVE TypeInv'
    <2> USE <1>1 DEF SweepSelect
    <2>1. /\ tx' \in [Procs -> TxRecord] /\ tx'[s].pc = "sweep"
          /\ \A x \in Procs \ {s} : tx'[x] = tx[x]
      BY <1>0, <1>a, GotoType
    <2>2. sweep' \in [Settlers -> SweepRecord']
      BY <1>0, SweepType DEF Swept
    <2>3. TypeOK'
      BY <1>0, <2>1, <2>2 DEF TypeOK, SweepRecord
    <2>4. tx'[s].pc \in {"idle"} \cup SettlerPcs /\ TxPhase(s)'
      BY <1>0, <2>1 DEF NewTx, SettlerPcs, TxPhase, HoldingPcs, NoPidPcs
    <2> QED
      BY <1>0, <2>1, <2>3, <2>4, SettlerFrame DEF TypeInv
  <1>2. ASSUME NEW p \in Puzzles, FinalizeBegin(s, p) PROVE TypeInv'
    <2> USE <1>2 DEF FinalizeBegin
    <2>1. /\ tx' \in [Procs -> TxRecord] /\ tx'[s] = NewTx("finalize.lock", now, p)
          /\ \A x \in Procs \ {s} : tx'[x] = tx[x]
      BY <1>0, <1>a, BeginType
    <2>2. sweep' \in [Settlers -> SweepRecord']
      BY <1>0, DequeueType
    <2>3. TypeOK'
      BY <1>0, <2>1, <2>2 DEF TypeOK, SweepRecord
    <2>4. tx'[s].pc \in {"idle"} \cup SettlerPcs /\ TxPhase(s)'
      BY <1>0, <2>1 DEF NewTx, SettlerPcs, TxPhase, HoldingPcs, NoPidPcs
    <2> QED
      BY <1>0, <2>1, <2>3, <2>4, SettlerFrame DEF TypeInv
  <1>3. ASSUME FinalizeLock(s) PROVE TypeInv'
    <2> USE <1>3 DEF FinalizeLock
    <2>0. Pid(s) \in Puzzles /\ dailyPuzzles[Pid(s)] \in PuzzleRow
      BY <1>0 DEF TxPhase, NoPidPcs, AtPc, Pid
    <2>1. /\ tx' \in [Procs -> TxRecord] /\ tx'[s].pc = "finalize.forfeit" /\ tx'[s].pid = Pid(s)
          /\ tx'[s].row = dailyPuzzles[Pid(s)]
          /\ \A x \in Procs \ {s} : tx'[x] = tx[x]
          /\ puzzleLock' \in [Puzzles -> Procs \cup {None}]
      BY <1>0, <1>a, <2>0, LockType
    <2>2. TypeOK'
      BY <1>0, <2>1 DEF TypeOK, SweepRecord, LockPuzzle
    <2>3. tx'[s].pc \in {"idle"} \cup SettlerPcs /\ TxPhase(s)'
      BY <2>0, <2>1 DEF SettlerPcs, TxPhase, HoldingPcs, NoPidPcs
    <2> QED
      BY <1>0, <2>1, <2>2, <2>3, SettlerFrame DEF TypeInv
  <1>4. ASSUME FinalizeEnd(s), UNCHANGED tables PROVE TypeInv'
    <2>1. sweep' \in [Settlers -> SweepRecord']
      BY <1>0, <1>4, FreezeType DEF FinalizeEnd
    <2>2. frozen' = [p \in Puzzles |-> frozen'[p]]
      BY <1>0, <1>4 DEF TypeOK
    <2> QED
      BY <1>0, <1>4, <2>1, <2>2, SettlerEndType DEF FinalizeEnd
  <1>5. ASSUME FinalizeForfeit(s) PROVE TypeInv'
    <2> USE <1>5 DEF FinalizeForfeit
    <2>0. Pid(s) \in Puzzles /\ tx[s].row \in PuzzleRow
      BY <1>0 DEF TxPhase, NoPidPcs, HoldingPcs, AtPc, Pid
    <2>1. /\ tx' \in [Procs -> TxRecord] /\ tx'[s].pc = "finalize.average"
          /\ tx'[s].pid = Pid(s) /\ tx'[s].row = tx[s].row
          /\ \A x \in Procs \ {s} : tx'[x] = tx[x]
      BY <1>0, <1>a, GotoType
    <2>2. gameLock' \in [Puzzles -> [Users -> Procs \cup {None}]]
      BY <1>0, <2>0 DEF TypeOK
    <2>3. TypeOK'
      BY <1>0, <2>1, <2>2 DEF TypeOK, SweepRecord
    <2>4. tx'[s].pc \in {"idle"} \cup SettlerPcs /\ TxPhase(s)'
      BY <2>0, <2>1 DEF NewTx, SettlerPcs, TxPhase, HoldingPcs, NoPidPcs
    <2> QED
      BY <1>0, <2>1, <2>3, <2>4, SettlerFrame DEF TypeInv
  <1>6. ASSUME FinalizeAverage(s) PROVE TypeInv'
    <2> USE <1>6 DEF FinalizeAverage
    <2>0. Pid(s) \in Puzzles /\ tx[s].row \in PuzzleRow
      BY <1>0 DEF TxPhase, NoPidPcs, HoldingPcs, AtPc, Pid
    <2>1. /\ tx' \in [Procs -> TxRecord] /\ tx'[s].pc = "finalize.write"
          /\ tx'[s].pid = Pid(s) /\ tx'[s].row = tx[s].row
          /\ \A x \in Procs \ {s} : tx'[x] = tx[x]
      BY <1>0, <1>a, GotoType
    <2>2. sweep' \in [Settlers -> SweepRecord']
      BY <1>0, FreezeType
    <2>3. TypeOK'
      BY <1>0, <2>1, <2>2 DEF TypeOK, SweepRecord
    <2>4. tx'[s].pc \in {"idle"} \cup SettlerPcs /\ TxPhase(s)'
      BY <2>0, <2>1 DEF NewTx, SettlerPcs, TxPhase, HoldingPcs, NoPidPcs
    <2> QED
      BY <1>0, <2>1, <2>3, <2>4, SettlerFrame DEF TypeInv
  <1>7. ASSUME FinalizeWrite(s) PROVE TypeInv'
    <2> USE <1>7 DEF FinalizeWrite
    <2>0. Pid(s) \in Puzzles
      BY <1>0 DEF TxPhase, NoPidPcs, AtPc, Pid
    <2>1. dailyPuzzles' \in [Puzzles -> PuzzleRow]
      <3>1. Finalized(dailyPuzzles[Pid(s)], tx[s].ts) \in PuzzleRow
        <4>1. dailyPuzzles[Pid(s)] \in PuzzleRow /\ tx[s].ts \in Time
          BY <1>0, <2>0 DEF TypeOK, TxRecord
        <4> QED
          BY <4>1, FinalizedType
      <3> QED
        BY <1>0, <2>0, <3>1
    <2>2. games' \in [Puzzles -> [Users -> GameRow]]
      <3>1. \A u \in Users : Forfeited(games[Pid(s)][u]) \in GameRow
        <4>1. \A game \in GameRow : Forfeited(game) \in GameRow
          BY DEF Forfeited, GameRow
        <4> QED
          BY <1>0, <2>0, <4>1
      <3>2. [u \in Users |-> IF gameLock[Pid(s)][u] = s THEN Forfeited(games[Pid(s)][u])
                              ELSE games[Pid(s)][u]] \in [Users -> GameRow]
        BY <1>0, <2>0, <3>1
      <3> QED
        BY <1>0, <2>0, <3>2
    <2>3. sweep' \in [Settlers -> SweepRecord']
      BY <1>0, FreezeType DEF FinalizeEnd
    <2>4. frozen' = [p \in Puzzles |-> frozen'[p]]
      BY <1>0 DEF TypeOK
    <2> QED
      BY <1>0, <2>1, <2>2, <2>3, <2>4, SettlerEndType DEF FinalizeEnd
  <1>8. ASSUME End(s, "idle"), sweep' = [sweep EXCEPT ![s] = IdleSweep],
               UNCHANGED <<now, frozen, games, guesses, req, view>>,
               dailyPuzzles' \in [Puzzles -> PuzzleRow]
        PROVE  TypeInv'
    <2>1. sweep' \in [Settlers -> SweepRecord']
      BY <1>0, <1>8, SweepType DEF IdleSweep
    <2>2. frozen' = [p \in Puzzles |-> frozen'[p]]
      BY <1>0, <1>8 DEF TypeOK
    <2> QED
      BY <1>0, <1>8, <2>1, <2>2, SettlerEndType
  <1>9. ASSUME ActivateBegin(s) PROVE TypeInv'
    <2> USE <1>9 DEF ActivateBegin
    <2>1. /\ tx' \in [Procs -> TxRecord] /\ tx'[s] = NewTx("activate.find", now, None)
          /\ \A x \in Procs \ {s} : tx'[x] = tx[x]
      BY <1>0, <1>a, BeginType
    <2>2. sweep' \in [Settlers -> SweepRecord']
      BY <1>0 DEF TypeOK, SweepRecord
    <2>3. TypeOK'
      BY <1>0, <2>1, <2>2 DEF TypeOK, SweepRecord
    <2>4. tx'[s].pc \in {"idle"} \cup SettlerPcs /\ TxPhase(s)'
      BY <1>0, <2>1 DEF NewTx, SettlerPcs, TxPhase, HoldingPcs, NoPidPcs
    <2> QED
      BY <1>0, <2>1, <2>3, <2>4, SettlerFrame DEF TypeInv
  <1>10. ASSUME ActivateFind(s) PROVE TypeInv'
    <2>0. PICK p \in Puzzles : tx' = [tx EXCEPT ![s].pc = "activate.lock", ![s].pid = p]
      BY <1>10 DEF ActivateFind, OnDate
    <2>1. /\ tx' \in [Procs -> TxRecord] /\ tx'[s].pc = "activate.lock" /\ tx'[s].pid = p
          /\ \A x \in Procs \ {s} : tx'[x] = tx[x]
      BY <1>0, <1>a, <2>0 DEF TxRecord
    <2>2. TypeOK'
      BY <1>0, <1>10, <2>1 DEF TypeOK, SweepRecord, ActivateFind
    <2>3. tx'[s].pc \in {"idle"} \cup SettlerPcs /\ TxPhase(s)'
      BY <2>1 DEF SettlerPcs, TxPhase, HoldingPcs, NoPidPcs
    <2> QED
      BY <1>0, <1>10, <2>1, <2>2, <2>3, SettlerFrame DEF TypeInv, ActivateFind
  <1>11. ASSUME ActivateLock(s) PROVE TypeInv'
    <2> USE <1>11 DEF ActivateLock
    <2>0. Pid(s) \in Puzzles /\ dailyPuzzles[Pid(s)] \in PuzzleRow
      BY <1>0 DEF TxPhase, NoPidPcs, AtPc, Pid
    <2>1. /\ tx' \in [Procs -> TxRecord] /\ tx'[s].pc = "activate.write" /\ tx'[s].pid = Pid(s)
          /\ tx'[s].row = dailyPuzzles[Pid(s)]
          /\ \A x \in Procs \ {s} : tx'[x] = tx[x]
          /\ puzzleLock' \in [Puzzles -> Procs \cup {None}]
      BY <1>0, <1>a, <2>0, LockType
    <2>2. TypeOK'
      BY <1>0, <2>1 DEF TypeOK, SweepRecord, LockPuzzle
    <2>3. tx'[s].pc \in {"idle"} \cup SettlerPcs /\ TxPhase(s)'
      BY <2>0, <2>1 DEF SettlerPcs, TxPhase, HoldingPcs, NoPidPcs
    <2> QED
      BY <1>0, <2>1, <2>2, <2>3, SettlerFrame DEF TypeInv
  <1>12. ASSUME ActivateWrite(s) PROVE TypeInv'
    <2>1. dailyPuzzles' \in [Puzzles -> PuzzleRow]
      <3>0. dailyPuzzles \in [Puzzles -> PuzzleRow]
        BY <1>0 DEF TypeOK
      <3>1. \A row \in PuzzleRow : [row EXCEPT !.status = "ACTIVE"] \in PuzzleRow
        BY DEF PuzzleRow
      <3>2. dailyPuzzles' = [dailyPuzzles EXCEPT ![Pid(s)] = [@ EXCEPT !.status = "ACTIVE"]]
        BY <1>12 DEF ActivateWrite
      <3> QED
        BY <3>0, <3>1, <3>2
    <2> QED
      BY <1>8, <1>12, <2>1 DEF ActivateWrite
  <1>13. ASSUME SettleEnd(s) PROVE TypeInv'
    BY <1>0, <1>8, <1>13 DEF SettleEnd
  <1> QED
    BY <1>1, <1>2, <1>3, <1>4, <1>5, <1>6, <1>7, <1>9, <1>10, <1>11, <1>12, <1>13
       DEF SettlerNext, FinalizeSkip, FinalizeFails, SweepDone, ActivateMissing, ActivateSkip
(* Where an admin's request ends, the rows and the locks keep their types. *)
LEMMA AdminEndType ==
  ASSUME TypeInv, NEW a \in Admins, End(a, "idle"), req' = [req EXCEPT ![a] = None],
         AdminUnchanged, dailyPuzzles' \in [Puzzles -> PuzzleRow]
  PROVE  TypeInv'
  <1> USE DEF AdminUnchanged
  <1>0. TypeOK /\ PhasesOK /\ a \in Procs /\ "idle" \in Pcs
    BY DEF TypeInv, Procs, Pcs
  <1>1. /\ tx' \in [Procs -> TxRecord] /\ tx'[a] = NewTx("idle", 0, None)
        /\ \A x \in Procs \ {a} : tx'[x] = tx[x]
        /\ puzzleLock' \in [Puzzles -> Procs \cup {None}]
        /\ gameLock' \in [Puzzles -> [Users -> Procs \cup {None}]]
    BY <1>0, EndType
  <1>2. TypeOK'
    BY <1>0, <1>1 DEF TypeOK, SweepRecord
  <1>3. AdminPhase(a)' /\ TxPhase(a)'
    BY <1>1 DEF NewTx, AdminPhase, TxPhase, SchedulePcs, HoldingPcs, NoPidPcs
  <1>4. \A x \in (Players \cup Admins) \ {a} : req'[x] = req[x]
    BY <1>0 DEF TypeOK
  <1> QED
    BY <1>0, <1>1, <1>2, <1>3, <1>4, AdminFrame DEF TypeInv

(* The row an edit writes keeps its type. *)
LEMMA EditedType ==
  ASSUME NEW a \in Admins, req[a] \in AdminReq, NEW row \in PuzzleRow
  PROVE  Edited(a, row) \in PuzzleRow
  <1> DEFINE d == Or(req[a].date, row.date)
             w == Or(req[a].word, row.answer)
             h == Or(req[a].hint, row.hint)
             e == EditedExpiry(a, row)
  <1>1. d \in Dates /\ w \in Answers \cup {None} /\ h \in Letters \cup {None}
    BY DEF Or, AdminReq, PuzzleRow
  <1>2. e \in Nat
    BY <1>1, ExpiryNat DEF EditedExpiry, PuzzleRow
  <1>3. Edited(a, row) = [row EXCEPT !.answer = w, !.hint = h, !.date = d, !.expiresAt = e]
    BY DEF Edited
  <1> HIDE DEF d, w, h, e
  <1> QED
    BY <1>1, <1>2, <1>3 DEF PuzzleRow

(* The admin mutations keep the types. *)
LEMMA AdminType ==
  ASSUME TypeInv, NEW a \in Admins, AdminNext(a)
  PROVE  TypeInv'
  <1>0. /\ TypeOK /\ PhasesOK /\ a \in Procs /\ tx[a] \in TxRecord /\ tx[a].ts \in Time
        /\ AdminPhase(a) /\ TxPhase(a) /\ tx \in [Procs -> TxRecord]
        /\ dailyPuzzles \in [Puzzles -> PuzzleRow]
        /\ req \in [Players \cup Admins -> StartReq \cup GuessReq \cup AdminReq \cup {None}]
    <2>1. a \in Procs
      BY DEF Procs
    <2> QED
      BY <2>1 DEF TypeInv, TypeOK, PhasesOK, TxRecord
  <1>a. {"idle", "schedule.check", "schedule.write", "edit.lock", "edit.write"} \subseteq Pcs
    BY DEF Pcs, SchedulePcs, EditPcs
  <1> USE DEF AdminUnchanged, locks
  <1>1. ASSUME NEW d \in Dates, NEW w \in Answers, NEW h \in Letters, ScheduleBegin(a, d, w, h)
        PROVE  TypeInv'
    <2> USE <1>1 DEF ScheduleBegin
    <2>1. /\ tx' \in [Procs -> TxRecord] /\ tx'[a] = NewTx("schedule.check", now, None)
          /\ \A x \in Procs \ {a} : tx'[x] = tx[x]
      BY <1>0, <1>a, BeginType
    <2>2. [op |-> "schedulePuzzle", date |-> d, word |-> w, hint |-> h] \in AdminReq
      BY DEF AdminReq
    <2>3. TypeOK'
      BY <1>0, <2>1, <2>2 DEF TypeOK, SweepRecord
    <2>4. AdminPhase(a)' /\ TxPhase(a)'
      BY <1>0, <2>1, <2>2
         DEF NewTx, AdminPhase, TxPhase, SchedulePcs, EditPcs, HoldingPcs, NoPidPcs
    <2> QED
      BY <1>0, <2>1, <2>3, <2>4, AdminFrame DEF TypeInv
  <1>2. ASSUME ScheduleCheck(a) PROVE TypeInv'
    <2> USE <1>2 DEF ScheduleCheck
    <2>1. /\ tx' \in [Procs -> TxRecord] /\ tx'[a].pc = "schedule.write"
          /\ \A x \in Procs \ {a} : tx'[x] = tx[x]
      BY <1>0, <1>a, GotoType
    <2>2. TypeOK'
      BY <1>0, <2>1 DEF TypeOK, SweepRecord
    <2>3. AdminPhase(a)' /\ TxPhase(a)'
      BY <1>0, <2>1 DEF AtPc, AdminPhase, TxPhase, SchedulePcs, EditPcs, HoldingPcs, NoPidPcs
    <2> QED
      BY <1>0, <2>1, <2>2, <2>3, AdminFrame DEF TypeInv
  <1>3. ASSUME NEW p \in Puzzles, ScheduleWrite(a, p) PROVE TypeInv'
    <2>1. NewRow(a) \in PuzzleRow
      BY <1>0, <1>3, ScheduledType DEF ScheduleWrite, AtPc, AdminPhase, SchedulePcs, NewRow
    <2>2. dailyPuzzles' \in [Puzzles -> PuzzleRow]
      BY <1>0, <1>3, <2>1 DEF ScheduleWrite, Commit
    <2> QED
      BY <1>3, <2>2, AdminEndType DEF ScheduleWrite, Commit
  <1>4. ASSUME NEW p \in Puzzles, NEW d \in Dates \cup {None}, NEW w \in Answers \cup {None},
               NEW h \in Letters \cup {None},
               NEW op \in {"updatePuzzle", "deletePuzzle", "replaceTodayPuzzle"},
               EditBegin(a, p, op, d, w, h)
        PROVE  TypeInv'
    <2> USE <1>4 DEF EditBegin
    <2>1. /\ tx' \in [Procs -> TxRecord] /\ tx'[a] = NewTx("edit.lock", now, p)
          /\ \A x \in Procs \ {a} : tx'[x] = tx[x]
      BY <1>0, <1>a, BeginType
    <2>2. [op |-> op, date |-> d, word |-> w, hint |-> h] \in AdminReq
      BY DEF AdminReq
    <2>3. TypeOK'
      BY <1>0, <2>1, <2>2 DEF TypeOK, SweepRecord
    <2>4. AdminPhase(a)' /\ TxPhase(a)'
      BY <1>0, <2>1, <2>2
         DEF NewTx, AdminPhase, TxPhase, SchedulePcs, EditPcs, HoldingPcs, NoPidPcs
    <2> QED
      BY <1>0, <2>1, <2>3, <2>4, AdminFrame DEF TypeInv
  <1>5. ASSUME EditLock(a) PROVE TypeInv'
    <2> USE <1>5 DEF EditLock
    <2>0. Pid(a) \in Puzzles /\ dailyPuzzles[Pid(a)] \in PuzzleRow
      BY <1>0 DEF TxPhase, NoPidPcs, AtPc, Pid
    <2>1. /\ tx' \in [Procs -> TxRecord] /\ tx'[a].pc = "edit.write" /\ tx'[a].pid = Pid(a)
          /\ tx'[a].row = dailyPuzzles[Pid(a)]
          /\ \A x \in Procs \ {a} : tx'[x] = tx[x]
          /\ puzzleLock' \in [Puzzles -> Procs \cup {None}]
      BY <1>0, <1>a, <2>0, LockType
    <2>2. TypeOK'
      BY <1>0, <2>1 DEF TypeOK, SweepRecord, LockPuzzle
    <2>3. AdminPhase(a)' /\ TxPhase(a)'
      BY <1>0, <2>0, <2>1
         DEF AtPc, AdminPhase, TxPhase, SchedulePcs, EditPcs, HoldingPcs, NoPidPcs
    <2> QED
      BY <1>0, <2>1, <2>2, <2>3, AdminFrame DEF TypeInv
  <1>6. ASSUME EditWrite(a) PROVE TypeInv'
    <2>1. EditedRow(a) \in PuzzleRow
      BY <1>0, <1>6, EditedType
         DEF EditWrite, AtPc, AdminPhase, TxPhase, HoldingPcs, EditedRow
    <2>2. dailyPuzzles' \in [Puzzles -> PuzzleRow]
      BY <1>0, <1>6, <2>1 DEF EditWrite, Commit
    <2> QED
      BY <1>6, <2>2, AdminEndType DEF EditWrite, Commit
  <1>7. ASSUME DeleteWrite(a) PROVE TypeInv'
    <2>1. Deleted \in PuzzleRow
      BY BoundsAssumption DEF Deleted, EmptyRow, PuzzleRow, Dates
    <2>2. dailyPuzzles' \in [Puzzles -> PuzzleRow]
      BY <1>0, <1>7, <2>1 DEF DeleteWrite, Commit
    <2> QED
      BY <1>7, <2>2, AdminEndType DEF DeleteWrite, Commit
  <1>8. ASSUME Reject(a) PROVE TypeInv'
    BY <1>0, <1>8, AdminEndType DEF Reject
  <1> QED
    BY <1>1, <1>2, <1>3, <1>4, <1>5, <1>6, <1>7, <1>8
       DEF AdminNext, ScheduleRefused, ScheduleConflict, EditRefused, EditConflict

(* A crash, and the clock. *)
LEMMA CrashType ==
  ASSUME TypeInv, NEW t \in Procs, Crash(t)
  PROVE  TypeInv'
  <1> USE DEF Crash, tables
  <1>0. TypeOK /\ PhasesOK /\ "idle" \in Pcs
    BY DEF TypeInv, Pcs
  <1>1. /\ tx' \in [Procs -> TxRecord] /\ tx'[t] = NewTx("idle", 0, None)
        /\ \A x \in Procs \ {t} : tx'[x] = tx[x]
        /\ puzzleLock' \in [Puzzles -> Procs \cup {None}]
        /\ gameLock' \in [Puzzles -> [Users -> Procs \cup {None}]]
    BY <1>0, EndType
  <1>2. /\ req' \in [Players \cup Admins -> StartReq \cup GuessReq \cup AdminReq \cup {None}]
        /\ \A x \in (Players \cup Admins) \ {t} : req'[x] = req[x]
    BY <1>0 DEF TypeOK
  <1>3. sweep' \in [Settlers -> SweepRecord']
    <2>1. sweep \in [Settlers -> SweepRecord]
      BY <1>0 DEF TypeOK
    <2>2. sweep' = [x \in Settlers |-> IF x = t THEN IdleSweep ELSE sweep[x]]
      BY <2>1
    <2>3. \A x \in Settlers : sweep'[x] \in SweepRecord'
      BY <2>1, <2>2 DEF SweepRecord, IdleSweep
    <2> QED
      BY <2>2, <2>3
  <1>4. TypeOK'
    BY <1>0, <1>1, <1>2, <1>3 DEF TypeOK
  <1>a. tx'[t].pc = "idle"
    BY <1>1 DEF NewTx
  <1>5. \A x \in Players : PlayerPhase(x)'
    BY <1>0, <1>1, <1>2, <1>a DEF PhasesOK, PlayerPhase, AtPc, Procs, StartPcs, GuessPcs
  <1>6. \A x \in Settlers : tx'[x].pc \in {"idle"} \cup SettlerPcs
    BY <1>0, <1>1, <1>a DEF PhasesOK, Procs
  <1>7. \A x \in Admins : AdminPhase(x)'
    BY <1>0, <1>1, <1>2, <1>a DEF PhasesOK, AdminPhase, Procs, SchedulePcs, EditPcs
  <1>8. \A x \in Procs : TxPhase(x)'
    BY <1>0, <1>1, <1>a DEF PhasesOK, TxPhase, HoldingPcs, NoPidPcs
  <1>9. PhasesOK'
    BY <1>0, <1>5, <1>6, <1>7, <1>8 DEF PhasesOK
  <1> QED
    BY <1>4, <1>9 DEF TypeInv

(* The clock stays within its bound.                                       *)
LEMMA TickType ==
  ASSUME TypeInv, Tick
  PROVE  TypeInv'
  <1>1. now' \in Time
    BY BoundsAssumption DEF TypeInv, TypeOK, Tick, Time
  <1> QED
    BY <1>1 DEF Tick, tables, locks, TypeInv, TypeOK, SweepRecord, PhasesOK, PlayerPhase,
                AdminPhase, TxPhase, AtPc

(* A stuttering step. *)
LEMMA StutterType ==
  ASSUME TypeInv, UNCHANGED vars
  PROVE  TypeInv'
  BY DEF vars, tables, locks, TypeInv, TypeOK, SweepRecord, PhasesOK, PlayerPhase,
         AdminPhase, TxPhase, AtPc

(* Every step keeps types and phases.                                      *)
LEMMA NextType == TypeInv /\ [Next]_vars => TypeInv'
  BY PlayerType, ReaderType, SettlerType, AdminType, CrashType, TickType, StutterType
     DEF Next, Steady

(* Every variable of the server keeps its type, and every transaction      *)
(* carries in each phase the request, the puzzle and the rows that the     *)
(* handlers of game, settlement and admin services rely on in that phase.  *)
THEOREM PhasesCorrect == Spec => []TypeInv
  <1>1. Init => TypeInv
    BY InitType
  <1>2. TypeInv /\ [Next]_vars => TypeInv'
    BY NextType
  <1> QED
    BY <1>1, <1>2, PTL DEF Spec

(* Every variable keeps its type. *)
THEOREM TypeCorrect == Spec => []TypeOK
  <1>1. TypeInv => TypeOK
    BY DEF TypeInv
  <1> QED
    BY <1>1, PhasesCorrect, PTL

-----------------------------------------------------------------------------
(* The locks *)

(* A transaction past its re-read holds the row of a puzzle that exists,   *)
(* and its copy is current.                                                *)
HoldsRow(t) ==
  tx[t].pc \in HoldingPcs =>
    puzzleLock[Pid(t)] = t /\ tx[t].row = dailyPuzzles[Pid(t)] /\ IsRow(tx[t].row)

(* A held puzzle row is held by a transaction in such a phase.             *)
RowHolder(p) ==
  puzzleLock[p] # None => tx[puzzleLock[p]].pc \in HoldingPcs /\ Pid(puzzleLock[p]) = p

(* A guess about to be written holds its game row, and saw it as it is.    *)
HoldsGame(t) ==
  AtPc(t, "guess.write") => gameLock[Pid(t)][req[t].owner] = t /\ tx[t].seen = GuessGame(t)

ForfeitedPcs == {"finalize.average", "finalize.write"}

(* A finalization past its forfeits holds exactly the ACTIVE games.        *)
HoldsActive(s) ==
  tx[s].pc \in ForfeitedPcs =>
    \A u \in Users : gameLock[Pid(s)][u] = s <=> games[Pid(s)][u].status = "ACTIVE"

(* Nobody else holds a game row. *)
GameHolder(p, u) ==
  gameLock[p][u] # None =>
    LET h == gameLock[p][u] IN
    /\ Pid(h) = p
    /\ \/ h \in Players /\ AtPc(h, "guess.write") /\ req[h].owner = u
       \/ h \in Settlers /\ tx[h].pc \in ForfeitedPcs

LocksOK ==
  /\ \A t \in Procs : HoldsRow(t)
  /\ \A p \in Puzzles : RowHolder(p)
  /\ \A t \in Players : HoldsGame(t)
  /\ \A s \in Settlers : HoldsActive(s)
  /\ \A p \in Puzzles, u \in Users : GameHolder(p, u)

LockInv == TypeInv /\ LocksOK

-----------------------------------------------------------------------------
(* Nobody holds a lock at first.                                           *)
LEMMA InitLocks == Init => LocksOK
  BY ProcsAssumption
     DEF Init, LocksOK, HoldsRow, RowHolder, HoldsGame, HoldsActive, GameHolder, HoldingPcs,
         ForfeitedPcs, AtPc, IdleTx, NewTx, Procs

(* A step of a transaction that holds nothing before and after.            *)
LEMMA OutsideLocks ==
  ASSUME LockInv, NEW t \in Procs, tx[t].pc \notin HoldingPcs, tx'[t].pc \notin HoldingPcs,
         \A x \in Procs \ {t} : tx'[x] = tx[x],
         \A x \in (Players \cup Admins) \ {t} : req'[x] = req[x],
         UNCHANGED <<dailyPuzzles, games, puzzleLock, gameLock>>
  PROVE  LocksOK'
  <1>0. /\ LocksOK
        /\ puzzleLock \in [Puzzles -> Procs \cup {None}]
        /\ gameLock \in [Puzzles -> [Users -> Procs \cup {None}]]
    BY DEF LockInv, TypeInv, TypeOK
  <1>1. \A x \in Procs : HoldsRow(x)'
    BY <1>0 DEF LocksOK, HoldsRow, Pid
  <1>2. \A p \in Puzzles : RowHolder(p)'
    BY <1>0 DEF LocksOK, RowHolder, Pid
  <1>3. \A x \in Players : HoldsGame(x)'
    BY <1>0 DEF LocksOK, HoldsGame, Pid, AtPc, GuessGame, Procs, HoldingPcs
  <1>4. \A s \in Settlers : HoldsActive(s)'
    BY <1>0 DEF LocksOK, HoldsActive, ForfeitedPcs, Pid, Procs, HoldingPcs
  <1>5. \A p \in Puzzles, u \in Users : GameHolder(p, u)'
    BY <1>0 DEF LocksOK, GameHolder, ForfeitedPcs, Pid, AtPc, Procs, HoldingPcs
  <1> QED
    BY <1>1, <1>2, <1>3, <1>4, <1>5 DEF LocksOK

(* A transaction takes the lock of a free puzzle row.                      *)
LEMMA TakeLocks ==
  ASSUME LockInv, NEW t \in Procs, tx[t].pc \notin HoldingPcs, Pid(t) \in Puzzles, Exists(Pid(t)),
         PuzzleFree(t),
         NEW pc \in HoldingPcs \ {"guess.write", "finalize.average", "finalize.write"},
         pc \in Pcs, LockPuzzle(t, pc), UNCHANGED <<dailyPuzzles, games, req>>
  PROVE  LocksOK'
  <1>0. LocksOK /\ TypeOK
    BY DEF LockInv, TypeInv
  <1>a. /\ tx'[t].pc = pc /\ tx'[t].pid = Pid(t) /\ tx'[t].row = dailyPuzzles[Pid(t)]
        /\ \A x \in Procs \ {t} : tx'[x] = tx[x]
    BY <1>0, LockType
  <1>b. /\ puzzleLock' = [puzzleLock EXCEPT ![Pid(t)] = t] /\ gameLock' = gameLock
        /\ puzzleLock[Pid(t)] = None
        /\ puzzleLock \in [Puzzles -> Procs \cup {None}]
        /\ gameLock \in [Puzzles -> [Users -> Procs \cup {None}]]
    BY <1>0 DEF LockPuzzle, PuzzleFree, TypeOK
  <1>1. \A x \in Procs : HoldsRow(x)'
    BY <1>0, <1>a, <1>b, ProcsAssumption DEF LocksOK, HoldsRow, Pid, Exists
  <1>2. \A p \in Puzzles : RowHolder(p)'
    BY <1>0, <1>a, <1>b DEF LocksOK, RowHolder, Pid
  <1>3. \A x \in Players : HoldsGame(x)'
    BY <1>0, <1>a, <1>b DEF LocksOK, HoldsGame, Pid, AtPc, GuessGame, Procs
  <1>4. \A s \in Settlers : HoldsActive(s)'
    BY <1>0, <1>a, <1>b DEF LocksOK, HoldsActive, ForfeitedPcs, Pid, Procs
  <1>5. \A p \in Puzzles, u \in Users : GameHolder(p, u)'
    BY <1>0, <1>a, <1>b DEF LocksOK, GameHolder, ForfeitedPcs, Pid, AtPc, HoldingPcs
  <1> QED
    BY <1>1, <1>2, <1>3, <1>4, <1>5 DEF LocksOK

(* A transaction ends: it wrote only rows it held, or a row that did not   *)
(* exist, and it holds nothing any more.                                   *)
LEMMA EndLocks ==
  ASSUME LockInv, NEW t \in Procs, NEW pc \in {"idle", "sweep"}, End(t, pc),
         \A x \in (Players \cup Admins) \ {t} : req'[x] = req[x],
         \A p \in Puzzles : \/ dailyPuzzles'[p] = dailyPuzzles[p]
                            \/ puzzleLock[p] = t \/ ~Exists(p),
         \A p \in Puzzles : games'[p] = games[p] \/ puzzleLock[p] = t
  PROVE  LocksOK'
  <1>0. /\ LocksOK /\ TypeOK /\ pc \in Pcs /\ pc \notin HoldingPcs
        /\ puzzleLock \in [Puzzles -> Procs \cup {None}]
        /\ gameLock \in [Puzzles -> [Users -> Procs \cup {None}]]
        /\ \A x \in Procs : TxPhase(x)
    BY DEF LockInv, TypeInv, TypeOK, PhasesOK, Pcs, SettlerPcs, HoldingPcs
  <1>a. /\ tx'[t].pc = pc
        /\ \A x \in Procs \ {t} : tx'[x] = tx[x]
    <2>1. tx'[t] = NewTx(pc, 0, None) /\ \A x \in Procs \ {t} : tx'[x] = tx[x]
      BY <1>0, EndType
    <2> QED
      BY <2>1 DEF NewTx
  <1>b. /\ \A p \in Puzzles : puzzleLock'[p] = IF puzzleLock[p] = t THEN None ELSE puzzleLock[p]
        /\ \A p \in Puzzles, u \in Users :
             gameLock'[p][u] = IF gameLock[p][u] = t THEN None ELSE gameLock[p][u]
    BY DEF End
  <1>c. \A x \in Procs \ {t} : tx[x].pc \in HoldingPcs =>
          /\ Pid(x) \in Puzzles /\ puzzleLock[Pid(x)] = x
          /\ dailyPuzzles'[Pid(x)] = dailyPuzzles[Pid(x)] /\ games'[Pid(x)] = games[Pid(x)]
    BY <1>0 DEF LocksOK, HoldsRow, Exists, TxPhase, Pid, HoldingPcs, NoPidPcs
  <1>1. \A x \in Procs : HoldsRow(x)'
    BY <1>0, <1>a, <1>b, <1>c DEF LocksOK, HoldsRow, Pid
  <1>2. \A p \in Puzzles : RowHolder(p)'
    BY <1>0, <1>a, <1>b DEF LocksOK, RowHolder, Pid
  <1>3. \A x \in Players : HoldsGame(x)'
    <2> SUFFICES ASSUME NEW x \in Players, AtPc(x, "guess.write")'
                 PROVE  (gameLock[Pid(x)][req[x].owner] = x /\ tx[x].seen = GuessGame(x))'
      BY DEF HoldsGame
    <2>1. x \in Procs \ {t} /\ tx'[x] = tx[x] /\ req'[x] = req[x]
      BY <1>a DEF AtPc, Procs
    <2>2. AtPc(x, "guess.write") /\ tx[x].pc \in HoldingPcs
      BY <2>1 DEF AtPc, HoldingPcs
    <2>3. req[x].owner \in Users
      BY <2>2 DEF LockInv, TypeInv, PhasesOK, PlayerPhase, AtPc, GuessPcs, GuessReq
    <2> QED
      BY <1>0, <1>b, <1>c, <2>1, <2>2, <2>3 DEF LocksOK, HoldsGame, Pid, GuessGame
  <1>4. \A s \in Settlers : HoldsActive(s)'
    <2> SUFFICES ASSUME NEW s \in Settlers, tx'[s].pc \in ForfeitedPcs, NEW u \in Users
                 PROVE  gameLock'[Pid(s)'][u] = s <=> games'[Pid(s)'][u].status = "ACTIVE"
      BY DEF HoldsActive
    <2>1. s \in Procs \ {t} /\ tx'[s] = tx[s]
      BY <1>a DEF ForfeitedPcs, Procs
    <2>2. tx[s].pc \in HoldingPcs /\ Pid(s)' = Pid(s)
      BY <2>1 DEF ForfeitedPcs, HoldingPcs, Pid
    <2>3. gameLock[Pid(s)][u] = s <=> games[Pid(s)][u].status = "ACTIVE"
      BY <1>0, <2>1 DEF LocksOK, HoldsActive
    <2> QED
      BY <1>0, <1>b, <1>c, <2>1, <2>2, <2>3, ProcsAssumption
  <1>5. \A p \in Puzzles, u \in Users : GameHolder(p, u)'
    BY <1>0, <1>a, <1>b
       DEF LocksOK, GameHolder, ForfeitedPcs, Pid, AtPc, HoldingPcs, Procs
  <1> QED
    BY <1>1, <1>2, <1>3, <1>4, <1>5 DEF LocksOK
(* What LockInv says of one process. *)
LEMMA LockFacts ==
  ASSUME LockInv, NEW t \in Procs
  PROVE  /\ TypeOK /\ PhasesOK /\ LocksOK /\ tx \in [Procs -> TxRecord] /\ tx[t] \in TxRecord
         /\ TxPhase(t) /\ HoldsRow(t)
         /\ req \in [Players \cup Admins -> StartReq \cup GuessReq \cup AdminReq \cup {None}]
         /\ games \in [Puzzles -> [Users -> GameRow]] /\ dailyPuzzles \in [Puzzles -> PuzzleRow]
         /\ puzzleLock \in [Puzzles -> Procs \cup {None}]
         /\ gameLock \in [Puzzles -> [Users -> Procs \cup {None}]]
  BY DEF LockInv, TypeInv, TypeOK, PhasesOK, LocksOK

(* startGame and submitGuess keep the locking discipline.                  *)
LEMMA PlayerLocks ==
  ASSUME LockInv, NEW t \in Players, PlayerNext(t)
  PROVE  LocksOK'
  <1> USE DEF PlayerUnchanged, tables, locks
  <1>0. /\ t \in Procs /\ TypeOK /\ PhasesOK /\ LocksOK /\ TxPhase(t) /\ HoldsRow(t)
        /\ tx \in [Procs -> TxRecord] /\ tx[t] \in TxRecord
        /\ req \in [Players \cup Admins -> StartReq \cup GuessReq \cup AdminReq \cup {None}]
        /\ games \in [Puzzles -> [Users -> GameRow]] /\ dailyPuzzles \in [Puzzles -> PuzzleRow]
        /\ puzzleLock \in [Puzzles -> Procs \cup {None}]
        /\ gameLock \in [Puzzles -> [Users -> Procs \cup {None}]]
    <2>1. t \in Procs
      BY DEF Procs
    <2> QED
      BY <2>1, LockFacts
  <1>1. ASSUME NEW u \in Users, StartBegin(t, u) PROVE LocksOK'
    <2>1. /\ tx'[t].pc = "start.find" /\ \A x \in Procs \ {t} : tx'[x] = tx[x]
      BY <1>0, <1>1 DEF StartBegin, Begin, NewTx
    <2> QED
      BY <1>0, <1>1, <2>1, OutsideLocks DEF StartBegin, AtPc, HoldingPcs
  <1>2. ASSUME StartFind(t) PROVE LocksOK'
    <2>0. PICK p \in Puzzles : tx' = [tx EXCEPT ![t].pc = "start.lock", ![t].pid = p]
      BY <1>2 DEF StartFind, OnDate
    <2>1. /\ tx'[t].pc = "start.lock" /\ \A x \in Procs \ {t} : tx'[x] = tx[x]
      BY <1>0, <2>0 DEF TxRecord
    <2> QED
      BY <1>0, <1>2, <2>1, OutsideLocks DEF StartFind, AtPc, HoldingPcs
  <1>3. ASSUME StartLock(t) PROVE LocksOK'
    <2>1. Pid(t) \in Puzzles /\ Exists(Pid(t))
      BY <1>3 DEF StartLock, Playable, OnDate
    <2>2. "start.write" \in Pcs /\ "start.write" \in HoldingPcs
      BY DEF Pcs, StartPcs, HoldingPcs
    <2> QED
      BY <1>0, <1>3, <2>1, <2>2, TakeLocks DEF StartLock, AtPc, HoldingPcs
  <1>4. ASSUME StartWrite(t) PROVE LocksOK'
    <2>1. puzzleLock[Pid(t)] = t
      BY <1>0, <1>4 DEF StartWrite, HoldsRow, AtPc, HoldingPcs
    <2> QED
      BY <1>0, <1>4, <2>1, EndLocks DEF StartWrite
  <1>5. ASSUME NEW u \in Users, NEW owner \in Users, NEW p \in Puzzles,
               NEW word \in Words \cup {None}, GuessBegin(t, u, owner, p, word)
        PROVE  LocksOK'
    <2>1. /\ tx'[t].pc = "guess.puzzle" /\ \A x \in Procs \ {t} : tx'[x] = tx[x]
      BY <1>0, <1>5 DEF GuessBegin, Begin, NewTx
    <2> QED
      BY <1>0, <1>5, <2>1, OutsideLocks DEF GuessBegin, AtPc, HoldingPcs
  <1>6. ASSUME GuessLockPuzzle(t) PROVE LocksOK'
    <2>1. Pid(t) \in Puzzles /\ Exists(Pid(t))
      BY <1>0, <1>6 DEF GuessLockPuzzle, GuessOpen, Exists, IsRow, AtPc, TxPhase, NoPidPcs, Pid
    <2>2. "guess.game" \in Pcs /\ "guess.game" \in HoldingPcs
      BY DEF Pcs, GuessPcs, HoldingPcs
    <2> QED
      BY <1>0, <1>6, <2>1, <2>2, TakeLocks DEF GuessLockPuzzle, AtPc, HoldingPcs
  <1>7. ASSUME GuessLockGame(t) PROVE LocksOK'
    <2>a. /\ Pid(t) \in Puzzles /\ req[t].owner \in Users /\ puzzleLock[Pid(t)] = t
          /\ gameLock[Pid(t)][req[t].owner] = None /\ AtPc(t, "guess.game")
      <3>1. PlayerPhase(t)
        BY <1>0 DEF PhasesOK
      <3> QED
        BY <1>0, <1>7, <3>1
           DEF GuessLockGame, GameFree, TxPhase, PlayerPhase, NoPidPcs, HoldsRow, HoldingPcs,
               GuessPcs, GuessReq, AtPc, Pid
    <2>b. PICK p \in Puzzles, u \in Users : p = Pid(t) /\ u = req[t].owner
      BY <2>a
    <2>0. puzzleLock[p] = t /\ gameLock[p][u] = None /\ AtPc(t, "guess.game")
      BY <2>a, <2>b
    <2>1. /\ tx'[t].pc = "guess.write" /\ tx'[t].pid = p /\ tx'[t].row = tx[t].row
          /\ tx'[t].seen = GuessGame(t) /\ \A x \in Procs \ {t} : tx'[x] = tx[x]
      BY <1>0, <1>7, <2>b DEF GuessLockGame, TxRecord, Pid
    <2>2. /\ gameLock' = [gameLock EXCEPT ![p][u] = t]
          /\ UNCHANGED <<dailyPuzzles, games, puzzleLock, req>>
      BY <1>7, <2>b DEF GuessLockGame
    <2>3. gameLock'[p][u] = t /\ \A q \in Puzzles, v \in Users :
            q # p \/ v # u => gameLock'[q][v] = gameLock[q][v]
      BY <1>0, <2>0, <2>2
    <2>4. \A x \in Procs : HoldsRow(x)'
      BY <1>0, <2>b, <2>0, <2>1, <2>2 DEF LocksOK, HoldsRow, Pid, AtPc, HoldingPcs
    <2>5. \A q \in Puzzles : RowHolder(q)'
      <3> SUFFICES ASSUME NEW q \in Puzzles, puzzleLock[q] # None PROVE RowHolder(q)'
        BY <2>2 DEF RowHolder
      <3>1. RowHolder(q) /\ puzzleLock[q] \in Procs
        BY <1>0 DEF LocksOK
      <3> QED
        BY <2>b, <2>1, <2>2, <3>1 DEF RowHolder, Pid, HoldingPcs
    <2>6. \A x \in Players : HoldsGame(x)'
      <3>1. HoldsGame(t)'
        BY <2>b, <2>1, <2>2, <2>3 DEF HoldsGame, GuessGame, Pid
      <3>2. ASSUME NEW x \in Players \ {t} PROVE HoldsGame(x)'
        <4> SUFFICES ASSUME AtPc(x, "guess.write")
                     PROVE  gameLock'[Pid(x)][req[x].owner] = x /\ tx[x].seen = GuessGame(x)
          BY <2>1, <2>2 DEF HoldsGame, AtPc, Pid, GuessGame, Procs
        <4>1. /\ gameLock[Pid(x)][req[x].owner] = x /\ tx[x].seen = GuessGame(x)
              /\ Pid(x) \in Puzzles /\ req[x].owner \in Users
          BY <1>0 DEF LocksOK, HoldsGame, PhasesOK, PlayerPhase, TxPhase, AtPc, Pid, Procs,
                      NoPidPcs, GuessPcs, GuessReq
        <4> QED
          BY <2>0, <2>3, <4>1, ProcsAssumption DEF Procs
      <3> QED
        BY <3>1, <3>2
    <2>7. \A s \in Settlers : HoldsActive(s)'
      <3> SUFFICES ASSUME NEW s \in Settlers, tx[s].pc \in ForfeitedPcs, NEW v \in Users
                   PROVE  gameLock'[Pid(s)][v] = s <=> games[Pid(s)][v].status = "ACTIVE"
        BY <2>1, <2>2, ProcsAssumption DEF HoldsActive, ForfeitedPcs, Pid, Procs
      <3>1. Pid(s) \in Puzzles /\ puzzleLock[Pid(s)] = s
        BY <1>0 DEF LocksOK, HoldsRow, PhasesOK, TxPhase, ForfeitedPcs, HoldingPcs, NoPidPcs,
                    Pid, Procs
      <3>2. Pid(s) # p
        BY <2>0, <3>1, ProcsAssumption
      <3> QED
        BY <1>0, <2>3, <3>1, <3>2 DEF LocksOK, HoldsActive
    <2>8. \A q \in Puzzles, v \in Users : GameHolder(q, v)'
      <3>1. GameHolder(p, u)'
        BY <2>b, <2>0, <2>1, <2>2, <2>3 DEF GameHolder, AtPc, Pid
      <3>2. ASSUME NEW q \in Puzzles, NEW v \in Users, q # p \/ v # u, gameLock[q][v] # None
            PROVE  gameLock[q][v] \in Procs \ {t} /\ gameLock'[q][v] = gameLock[q][v]
        BY <1>0, <2>0, <2>3, <3>2, ProcsAssumption
           DEF LocksOK, GameHolder, AtPc, ForfeitedPcs
      <3> QED
        BY <1>0, <2>1, <2>2, <2>3, <3>1, <3>2 DEF LocksOK, GameHolder, AtPc, Pid, ForfeitedPcs
    <2> QED
      BY <2>4, <2>5, <2>6, <2>7, <2>8 DEF LocksOK
  <1>8. ASSUME GuessWrite(t) PROVE LocksOK'
    <2>1. puzzleLock[Pid(t)] = t
      BY <1>0, <1>8 DEF GuessWrite, HoldsRow, AtPc, HoldingPcs
    <2> QED
      BY <1>0, <1>8, <2>1, EndLocks DEF GuessWrite
  <1>9. ASSUME Refuse(t) PROVE LocksOK'
    BY <1>0, <1>9, EndLocks DEF Refuse
  <1> QED
    BY <1>1, <1>2, <1>3, <1>4, <1>5, <1>6, <1>7, <1>8, <1>9
       DEF PlayerNext, StartMissing, StartRefused, GuessExpired, GuessRejected
(* Sweep, finalization and activation keep it.                             *)
LEMMA SettlerLocks ==
  ASSUME LockInv, NEW s \in Settlers, SettlerNext(s)
  PROVE  LocksOK'
  <1> USE DEF SettleUnchanged, tables, locks
  <1>0. /\ s \in Procs /\ TypeOK /\ PhasesOK /\ LocksOK /\ TxPhase(s) /\ HoldsRow(s)
        /\ tx \in [Procs -> TxRecord] /\ tx[s] \in TxRecord
        /\ games \in [Puzzles -> [Users -> GameRow]] /\ dailyPuzzles \in [Puzzles -> PuzzleRow]
        /\ puzzleLock \in [Puzzles -> Procs \cup {None}]
        /\ gameLock \in [Puzzles -> [Users -> Procs \cup {None}]]
    <2>1. s \in Procs
      BY DEF Procs
    <2> QED
      BY <2>1, LockFacts
  <1>1. ASSUME NEW cron \in BOOLEAN, SweepSelect(s, cron) PROVE LocksOK'
    <2>1. /\ tx'[s].pc = "sweep" /\ \A x \in Procs \ {s} : tx'[x] = tx[x]
      BY <1>0, <1>1 DEF SweepSelect, TxRecord
    <2> QED
      BY <1>0, <1>1, <2>1, OutsideLocks DEF SweepSelect, AtPc, HoldingPcs
  <1>2. ASSUME NEW p \in Puzzles, FinalizeBegin(s, p) PROVE LocksOK'
    <2>1. /\ tx'[s].pc = "finalize.lock" /\ \A x \in Procs \ {s} : tx'[x] = tx[x]
      BY <1>0, <1>2 DEF FinalizeBegin, Begin, NewTx
    <2> QED
      BY <1>0, <1>2, <2>1, OutsideLocks DEF FinalizeBegin, AtPc, HoldingPcs
  <1>3. ASSUME FinalizeLock(s) PROVE LocksOK'
    <2>1. Pid(s) \in Puzzles /\ Exists(Pid(s))
      BY <1>0, <1>3 DEF FinalizeLock, Finalizable, Exists, IsRow, AtPc, TxPhase, NoPidPcs, Pid
    <2>2. "finalize.forfeit" \in Pcs /\ "finalize.forfeit" \in HoldingPcs
      BY DEF Pcs, SettlerPcs, HoldingPcs
    <2> QED
      BY <1>0, <1>3, <2>1, <2>2, TakeLocks DEF FinalizeLock, AtPc, HoldingPcs
  <1>4. ASSUME FinalizeEnd(s), UNCHANGED tables PROVE LocksOK'
    BY <1>0, <1>4, EndLocks DEF FinalizeEnd
  <1>5. ASSUME FinalizeForfeit(s) PROVE LocksOK'
    <2>a. Pid(s) \in Puzzles /\ puzzleLock[Pid(s)] = s /\ AtPc(s, "finalize.forfeit")
      BY <1>0, <1>5 DEF FinalizeForfeit, HoldsRow, TxPhase, AtPc, Pid, HoldingPcs, NoPidPcs
    <2>b. PICK p \in Puzzles : p = Pid(s)
      BY <2>a
    <2>1. /\ tx'[s].pc = "finalize.average" /\ tx'[s].pid = p /\ tx'[s].row = tx[s].row
          /\ \A x \in Procs \ {s} : tx'[x] = tx[x]
      BY <1>0, <1>5, <2>b DEF FinalizeForfeit, TxRecord, Pid
    <2>2. /\ UNCHANGED <<dailyPuzzles, games, puzzleLock, req>>
          /\ \A u \in ActiveGames(p) : gameLock[p][u] = None
          /\ \A u \in Users : gameLock'[p][u] = IF u \in ActiveGames(p) THEN s ELSE gameLock[p][u]
          /\ \A q \in Puzzles \ {p} : gameLock'[q] = gameLock[q]
      BY <1>0, <1>5, <2>b DEF FinalizeForfeit
    <2>3. ASSUME NEW u \in Users, gameLock[p][u] # None
          PROVE  FALSE
      (* whoever holds a game row of p holds p, and that is s, which has none yet *)
      <3>1. /\ gameLock[p][u] \in Procs /\ Pid(gameLock[p][u]) = p
            /\ tx[gameLock[p][u]].pc \in HoldingPcs \ {"finalize.forfeit"}
        BY <1>0, <2>3 DEF LocksOK, GameHolder, AtPc, ForfeitedPcs, HoldingPcs, Procs
      <3>2. puzzleLock[p] = gameLock[p][u]
        BY <1>0, <3>1 DEF LocksOK, HoldsRow
      <3> QED
        BY <2>a, <2>b, <3>1, <3>2 DEF AtPc
    <2>4. \A x \in Procs : HoldsRow(x)'
      BY <1>0, <2>b, <2>a, <2>1, <2>2 DEF LocksOK, HoldsRow, Pid, AtPc, HoldingPcs
    <2>5. \A q \in Puzzles : RowHolder(q)'
      BY <1>0, <2>b, <2>a, <2>1, <2>2 DEF LocksOK, RowHolder, Pid, HoldingPcs
    <2>6. \A x \in Players : HoldsGame(x)'
      <3> SUFFICES ASSUME NEW x \in Players, AtPc(x, "guess.write")
                   PROVE  gameLock'[Pid(x)][req[x].owner] = x /\ tx[x].seen = GuessGame(x)
        BY <2>1, <2>2, ProcsAssumption DEF HoldsGame, AtPc, Pid, GuessGame, Procs
      <3>1. /\ gameLock[Pid(x)][req[x].owner] = x /\ tx[x].seen = GuessGame(x)
            /\ Pid(x) \in Puzzles /\ req[x].owner \in Users /\ x # None
        BY <1>0, ProcsAssumption
           DEF LocksOK, HoldsGame, PhasesOK, PlayerPhase, TxPhase, AtPc, Pid, Procs,
               NoPidPcs, GuessPcs, GuessReq
      <3> QED
        BY <2>2, <2>3, <3>1
    <2>7. \A x \in Settlers : HoldsActive(x)'
      <3>1. HoldsActive(s)'
        <4>1. Pid(s)' = p /\ tx'[s].pc \in ForfeitedPcs
          BY <2>1 DEF Pid, ForfeitedPcs
        <4>2. \A u \in Users : gameLock'[p][u] = s <=> games'[p][u].status = "ACTIVE"
          BY <1>0, <2>2, <2>3, ProcsAssumption DEF ActiveGames
        <4> QED
          BY <4>1, <4>2 DEF HoldsActive
      <3>2. ASSUME NEW x \in Settlers \ {s} PROVE HoldsActive(x)'
        <4> SUFFICES ASSUME tx[x].pc \in ForfeitedPcs, NEW v \in Users
                     PROVE  gameLock'[Pid(x)][v] = x <=> games[Pid(x)][v].status = "ACTIVE"
          BY <2>1, <2>2 DEF HoldsActive, ForfeitedPcs, Pid, Procs
        <4>1. Pid(x) \in Puzzles /\ puzzleLock[Pid(x)] = x
          BY <1>0 DEF LocksOK, HoldsRow, PhasesOK, TxPhase, ForfeitedPcs, HoldingPcs, NoPidPcs,
                      Pid, Procs
        <4>2. Pid(x) # p
          BY <2>a, <2>b, <4>1
        <4> QED
          BY <1>0, <2>2, <4>1, <4>2 DEF LocksOK, HoldsActive
      <3> QED
        BY <3>1, <3>2
    <2>8. \A q \in Puzzles, v \in Users : GameHolder(q, v)'
      <3>1. ASSUME NEW v \in Users PROVE GameHolder(p, v)'
        BY <2>1, <2>2, <2>3 DEF GameHolder, AtPc, Pid, ForfeitedPcs
      <3>2. ASSUME NEW q \in Puzzles \ {p}, NEW v \in Users PROVE GameHolder(q, v)'
        <4> SUFFICES ASSUME gameLock[q][v] # None PROVE GameHolder(q, v)'
          BY <2>2 DEF GameHolder
        <4>1. gameLock[q][v] \in Procs \ {s}
          BY <1>0, <2>a, <2>b DEF LocksOK, GameHolder
        <4> QED
          BY <1>0, <2>1, <2>2, <4>1 DEF LocksOK, GameHolder, AtPc, Pid, ForfeitedPcs
      <3> QED
        BY <3>1, <3>2
    <2> QED
      BY <2>4, <2>5, <2>6, <2>7, <2>8 DEF LocksOK
  <1>6. ASSUME FinalizeAverage(s) PROVE LocksOK'
    <2>1. /\ tx'[s].pc = "finalize.write" /\ tx'[s].pid = tx[s].pid /\ tx'[s].row = tx[s].row
          /\ \A x \in Procs \ {s} : tx'[x] = tx[x]
      BY <1>0, <1>6 DEF FinalizeAverage, TxRecord
    <2>2. UNCHANGED <<dailyPuzzles, games, puzzleLock, gameLock, req>>
      BY <1>6 DEF FinalizeAverage
    <2>3. AtPc(s, "finalize.average")
      BY <1>6 DEF FinalizeAverage
    <2>4. \A x \in Procs : HoldsRow(x)'
      BY <1>0, <2>1, <2>2, <2>3 DEF LocksOK, HoldsRow, Pid, AtPc, HoldingPcs
    <2>5. \A q \in Puzzles : RowHolder(q)'
      BY <1>0, <2>1, <2>2, <2>3 DEF LocksOK, RowHolder, Pid, AtPc, HoldingPcs
    <2>6. \A x \in Players : HoldsGame(x)'
      BY <1>0, <2>1, <2>2, ProcsAssumption DEF LocksOK, HoldsGame, AtPc, Pid, GuessGame, Procs
    <2>7. \A x \in Settlers : HoldsActive(x)'
      BY <1>0, <2>1, <2>2, <2>3 DEF LocksOK, HoldsActive, ForfeitedPcs, AtPc, Pid, Procs
    <2>8. \A q \in Puzzles, v \in Users : GameHolder(q, v)'
      <3> SUFFICES ASSUME NEW q \in Puzzles, NEW v \in Users, gameLock[q][v] # None
                   PROVE  GameHolder(q, v)'
        BY <2>2 DEF GameHolder
      <3>1. GameHolder(q, v) /\ gameLock[q][v] \in Procs
        BY <1>0 DEF LocksOK
      <3> QED
        BY <2>1, <2>2, <2>3, <3>1 DEF GameHolder, ForfeitedPcs, AtPc, Pid
    <2> QED
      BY <2>4, <2>5, <2>6, <2>7, <2>8 DEF LocksOK
  <1>7. ASSUME FinalizeWrite(s) PROVE LocksOK'
    <2>1. puzzleLock[Pid(s)] = s
      BY <1>0, <1>7 DEF FinalizeWrite, HoldsRow, AtPc, HoldingPcs
    <2> QED
      BY <1>0, <1>7, <2>1, EndLocks DEF FinalizeWrite, FinalizeEnd
  <1>8. ASSUME SettleEnd(s) PROVE LocksOK'
    BY <1>0, <1>8, EndLocks DEF SettleEnd
  <1>9. ASSUME ActivateBegin(s) PROVE LocksOK'
    <2>1. /\ tx'[s].pc = "activate.find" /\ \A x \in Procs \ {s} : tx'[x] = tx[x]
      BY <1>0, <1>9 DEF ActivateBegin, Begin, NewTx
    <2> QED
      BY <1>0, <1>9, <2>1, OutsideLocks DEF ActivateBegin, AtPc, HoldingPcs
  <1>10. ASSUME ActivateFind(s) PROVE LocksOK'
    <2>0. PICK p \in Puzzles : tx' = [tx EXCEPT ![s].pc = "activate.lock", ![s].pid = p]
      BY <1>10 DEF ActivateFind, OnDate
    <2>1. /\ tx'[s].pc = "activate.lock" /\ \A x \in Procs \ {s} : tx'[x] = tx[x]
      BY <1>0, <2>0 DEF TxRecord
    <2> QED
      BY <1>0, <1>10, <2>1, OutsideLocks DEF ActivateFind, AtPc, HoldingPcs
  <1>11. ASSUME ActivateLock(s) PROVE LocksOK'
    <2>1. Pid(s) \in Puzzles /\ Exists(Pid(s))
      BY <1>11 DEF ActivateLock, Activatable, OnDate
    <2>2. "activate.write" \in Pcs /\ "activate.write" \in HoldingPcs
      BY DEF Pcs, SettlerPcs, HoldingPcs
    <2> QED
      BY <1>0, <1>11, <2>1, <2>2, TakeLocks DEF ActivateLock, AtPc, HoldingPcs
  <1>12. ASSUME ActivateWrite(s) PROVE LocksOK'
    <2>1. puzzleLock[Pid(s)] = s
      BY <1>0, <1>12 DEF ActivateWrite, HoldsRow, AtPc, HoldingPcs
    <2> QED
      BY <1>0, <1>12, <2>1, EndLocks DEF ActivateWrite
  <1> QED
    BY <1>1, <1>2, <1>3, <1>4, <1>5, <1>6, <1>7, <1>8, <1>9, <1>10, <1>11, <1>12
       DEF SettlerNext, FinalizeSkip, FinalizeFails, SweepDone, ActivateMissing, ActivateSkip
(* The admin mutations keep it.                                            *)
LEMMA AdminLocks ==
  ASSUME LockInv, NEW a \in Admins, AdminNext(a)
  PROVE  LocksOK'
  <1> USE DEF AdminUnchanged, locks
  <1>0. /\ a \in Procs /\ TypeOK /\ TxPhase(a) /\ HoldsRow(a)
        /\ tx \in [Procs -> TxRecord] /\ tx[a] \in TxRecord
        /\ req \in [Players \cup Admins -> StartReq \cup GuessReq \cup AdminReq \cup {None}]
        /\ dailyPuzzles \in [Puzzles -> PuzzleRow]
    <2>1. a \in Procs
      BY DEF Procs
    <2> QED
      BY <2>1, LockFacts
  <1>1. ASSUME NEW d, NEW w, NEW h, ScheduleBegin(a, d, w, h) PROVE LocksOK'
    <2>1. /\ tx'[a].pc = "schedule.check" /\ \A x \in Procs \ {a} : tx'[x] = tx[x]
      BY <1>0, <1>1 DEF ScheduleBegin, Begin, NewTx
    <2> QED
      BY <1>0, <1>1, <2>1, OutsideLocks DEF ScheduleBegin, AtPc, HoldingPcs
  <1>2. ASSUME ScheduleCheck(a) PROVE LocksOK'
    <2>1. /\ tx'[a].pc = "schedule.write" /\ \A x \in Procs \ {a} : tx'[x] = tx[x]
      BY <1>0, <1>2 DEF ScheduleCheck, TxRecord
    <2> QED
      BY <1>0, <1>2, <2>1, OutsideLocks DEF ScheduleCheck, AtPc, HoldingPcs
  <1>3. ASSUME NEW p \in Puzzles, ScheduleWrite(a, p) PROVE LocksOK'
    <2>1. ~Exists(p)
      BY <1>3 DEF ScheduleWrite, Exists, IsRow
    <2>2. \A q \in Puzzles : dailyPuzzles'[q] = dailyPuzzles[q] \/ ~Exists(q)
      BY <1>0, <1>3, <2>1 DEF ScheduleWrite, Commit
    <2> QED
      BY <1>0, <1>3, <2>2, EndLocks DEF ScheduleWrite, Commit
  <1>4. ASSUME NEW p, NEW op, NEW d, NEW w, NEW h, EditBegin(a, p, op, d, w, h) PROVE LocksOK'
    <2>1. /\ tx'[a].pc = "edit.lock" /\ \A x \in Procs \ {a} : tx'[x] = tx[x]
      BY <1>0, <1>4 DEF EditBegin, Begin, NewTx
    <2> QED
      BY <1>0, <1>4, <2>1, OutsideLocks DEF EditBegin, AtPc, HoldingPcs
  <1>5. ASSUME EditLock(a) PROVE LocksOK'
    <2>1. Pid(a) \in Puzzles /\ Exists(Pid(a))
      BY <1>0, <1>5 DEF EditLock, EditAllowed, AtPc, TxPhase, NoPidPcs, Pid
    <2>2. "edit.write" \in Pcs /\ "edit.write" \in HoldingPcs
      BY DEF Pcs, EditPcs, HoldingPcs
    <2> QED
      BY <1>0, <1>5, <2>1, <2>2, TakeLocks DEF EditLock, AtPc, HoldingPcs
  <1>6. ASSUME NEW rows, AtPc(a, "edit.write"), Commit(a, [dailyPuzzles EXCEPT ![Pid(a)] = rows])
        PROVE  LocksOK'
    <2>1. puzzleLock[Pid(a)] = a
      BY <1>0, <1>6 DEF HoldsRow, AtPc, HoldingPcs
    <2> QED
      BY <1>0, <1>6, <2>1, EndLocks DEF Commit
  <1>7. ASSUME Reject(a) PROVE LocksOK'
    BY <1>0, <1>7, EndLocks DEF Reject
  <1>8. CASE EditWrite(a)
    BY <1>6, <1>8 DEF EditWrite
  <1>9. CASE DeleteWrite(a)
    BY <1>6, <1>9 DEF DeleteWrite
  <1> QED
    BY <1>1, <1>2, <1>3, <1>4, <1>5, <1>7, <1>8, <1>9
       DEF AdminNext, ScheduleRefused, ScheduleConflict, EditRefused, EditConflict

(* A crash rolls back: its transaction's locks are released.               *)
LEMMA CrashLocks ==
  ASSUME LockInv, NEW t \in Procs, Crash(t)
  PROVE  LocksOK'
  <1>1. \A x \in (Players \cup Admins) \ {t} : req'[x] = req[x]
    BY DEF LockInv, TypeInv, TypeOK, Crash
  <1> QED
    BY <1>1, EndLocks DEF Crash, tables

(* Readers, the clock and stuttering touch neither transactions nor tables. *)
LEMMA IdleLocks ==
  ASSUME LockInv, UNCHANGED <<tables, locks, tx, req>>
  PROVE  LocksOK'
  BY DEF tables, locks, LockInv, LocksOK, HoldsRow, RowHolder, HoldsGame, HoldsActive, GameHolder,
         AtPc, Pid, GuessGame

(* Every step of the server keeps it.                                      *)
LEMMA NextLocks == LockInv /\ [Next]_vars => LockInv'
  <1> SUFFICES ASSUME LockInv, [Next]_vars PROVE LockInv'
    OBVIOUS
  <1>1. TypeInv'
    BY NextType DEF LockInv
  <1>2. ASSUME NEW r \in Readers, ReaderNext(r) PROVE LocksOK'
    BY <1>2, IdleLocks DEF ReaderNext, ReadPuzzle, ReadGame, ReadGuesses, ReadReturn, ReaderUnchanged
  <1>3. ASSUME Tick PROVE LocksOK'
    <2>1. UNCHANGED <<tables, locks, tx, req>>
      BY <1>3 DEF Tick
    <2> QED
      BY <2>1, IdleLocks
  <1>4. ASSUME UNCHANGED vars PROVE LocksOK'
    <2>1. UNCHANGED <<tables, locks, tx, req>>
      BY <1>4 DEF vars
    <2> QED
      BY <2>1, IdleLocks
  <1> QED
    BY <1>1, <1>2, <1>3, <1>4, PlayerLocks, SettlerLocks, AdminLocks, CrashLocks
       DEF LockInv, Next, Steady

(* The services lock rows as they claim: from its re-read to its commit a  *)
(* transaction of the game, settlement or admin service is the only holder *)
(* of its puzzle row, and a finalization also of the games it forfeits.    *)
THEOREM LocksCorrect == Spec => []LockInv
  <1>1. Init => LockInv
    BY InitType, InitLocks DEF LockInv
  <1> QED
    BY <1>1, NextLocks, PTL DEF Spec

-----------------------------------------------------------------------------
(* What startGame, submitGuess, finalizePuzzle, activateToday and the      *)
(* admin mutations read under the row lock is still committed when they    *)
(* write: no transaction ever decides on a stale row.                      *)
THEOREM ReadsCurrent == Spec => []ReadsStayCurrent
  <1>1. LockInv => ReadsStayCurrent
    <2> SUFFICES ASSUME LockInv, NEW t \in Procs
                 PROVE  /\ tx[t].pc \in HoldingPcs =>
                             puzzleLock[Pid(t)] = t /\ tx[t].row = dailyPuzzles[Pid(t)]
                        /\ AtPc(t, "guess.write") => tx[t].seen = GuessGame(t)
      BY DEF ReadsStayCurrent
    <2>1. HoldsRow(t)
      BY DEF LockInv, LocksOK
    <2>2. AtPc(t, "guess.write") => t \in Players
      BY DEF LockInv, TypeInv, PhasesOK, AdminPhase, AtPc, Procs, SettlerPcs, SchedulePcs, EditPcs
    <2> QED
      BY <2>1, <2>2 DEF LockInv, LocksOK, HoldsRow, HoldsGame
  <1> QED
    BY <1>1, LocksCorrect, PTL

(* A transaction that holds a puzzle row waits for nobody: whoever holds a *)
(* game row of that puzzle would hold the puzzle row too.                  *)
LEMMA HolderNeverWaits ==
  ASSUME LockInv, NEW t \in Procs, NEW h \in Procs, tx[t].pc \in HoldingPcs
  PROVE  ~WaitsFor(t, h)
  <1> SUFFICES ASSUME WaitsFor(t, h) PROVE FALSE
    OBVIOUS
  <1>0. /\ puzzleLock[Pid(t)] = t /\ Pid(t) \in Puzzles
    BY DEF LockInv, LocksOK, HoldsRow, TypeInv, PhasesOK, TxPhase, HoldingPcs, NoPidPcs, Pid
  <1>1. PICK u \in Users : gameLock[Pid(t)][u] = h /\ tx[t].pc \in {"guess.game", "finalize.forfeit"}
    <2>1. AtPc(t, "guess.game") => req[t].owner \in Users
      BY DEF LockInv, TypeInv, PhasesOK, PlayerPhase, AdminPhase, AtPc, Procs, GuessPcs, GuessReq,
             SettlerPcs, SchedulePcs, EditPcs
    <2> QED
      BY <2>1 DEF WaitsFor, HoldingPcs, AtPc, ActiveGames
  <1>2. GameHolder(Pid(t), u) /\ h # None
    BY <1>0, ProcsAssumption DEF LockInv, LocksOK
  <1>3. Pid(h) = Pid(t) /\ tx[h].pc \in {"guess.write", "finalize.average", "finalize.write"}
    BY <1>1, <1>2 DEF GameHolder, AtPc, ForfeitedPcs
  <1>4. puzzleLock[Pid(h)] = h
    BY <1>3 DEF LockInv, LocksOK, HoldsRow, HoldingPcs
  <1> QED
    BY <1>0, <1>1, <1>3, <1>4

(* Transactions never wait for each other in a circle.                     *)
THEOREM DeadlockFree == Spec => []NoLockCycle
  <1>1. LockInv => NoLockCycle
    <2> SUFFICES ASSUME LockInv, NEW S \in (SUBSET Procs) \ {{}}
                 PROVE  \E t \in S : \A h \in S : ~WaitsFor(t, h)
      BY DEF NoLockCycle
    <2>1. CASE \E t \in S : tx[t].pc \in HoldingPcs
      BY <2>1, HolderNeverWaits
    <2>2. CASE \A t \in S : tx[t].pc \notin HoldingPcs
      <3>1. PICK t \in Procs : t \in S
        <4>1. S # {} /\ S \subseteq Procs
          OBVIOUS
        <4> QED
          BY <4>1
      <3>2. ASSUME NEW h \in S, WaitsFor(t, h) PROVE FALSE
        <4>1. puzzleLock[Pid(t)] = h /\ Pid(t) \in Puzzles /\ h \in Procs /\ h # None
          BY <2>2, <3>1, <3>2, ProcsAssumption
             DEF WaitsFor, AtPc, HoldingPcs, LockInv, TypeInv, PhasesOK, TxPhase, NoPidPcs, Pid
        <4> QED
          BY <2>2, <4>1 DEF LockInv, LocksOK, RowHolder
      <3> QED
        BY <3>1, <3>2
    <2> QED
      BY <2>1, <2>2
  <1> QED
    BY <1>1, LocksCorrect, PTL

-----------------------------------------------------------------------------
(* The refinement *)

(* The invariant: what each handler has checked, by its phase.  It speaks  *)
(* of the copies tx[t].row and tx[t].seen wherever the handler holds the   *)
(* row, so that no step of another transaction can disturb it.             *)

(* Today's puzzle, unopened or running; the game to guess in has begun,    *)
(* and is running when it is written.                                      *)
CheckedPlayer(t) ==
  LET row == tx[t].row IN
  /\ AtPc(t, "start.write") =>
       /\ row.status \in {"SCHEDULED", "ACTIVE"}
       /\ row.date = ManilaDate(tx[t].ts) /\ tx[t].ts < row.expiresAt
  /\ tx[t].pc \in GuessPcs =>
       GuessGame(t).status # "NONE" /\ GuessGame(t).startedAt <= tx[t].ts
  /\ tx[t].pc \in {"guess.game", "guess.write"} =>
       row.status = "ACTIVE" /\ tx[t].ts < row.expiresAt
  /\ AtPc(t, "guess.write") => tx[t].seen.status = "ACTIVE"

(* A puzzle that was ACTIVE and over by the time d. *)
Over(p, d) ==
  dailyPuzzles[p].status \in {"ACTIVE", "FINALIZED"} /\ dailyPuzzles[p].expiresAt <= d

FinalizePcs == {"finalize.lock", "finalize.forfeit", "finalize.average", "finalize.write"}

(* What a sweep selected stays over; what it averages is held; what it     *)
(* activates is today's and not yet opened.                                *)
CheckedSettler(s) ==
  LET row == tx[s].row IN
  /\ \A p \in sweep[s].queue : Over(p, now)
  /\ tx[s].pc \in FinalizePcs => Over(Pid(s), tx[s].ts)
  /\ tx[s].pc \in FinalizePcs \ {"finalize.lock"} => row.status = "ACTIVE"
  /\ AtPc(s, "finalize.write") => sweep[s].frozen = FrozenOf(CompletionTimes(games[Pid(s)]))
  /\ AtPc(s, "activate.write") => row.status = "SCHEDULED" /\ row.date = ManilaDate(tx[s].ts)

(* The request of an admin, and the guards it passed. *)
CheckedAdmin(a) ==
  LET row == tx[a].row  new == EditedRow(a) IN
  /\ tx[a].pc \in SchedulePcs => HintValid(req[a].hint, req[a].word)
  /\ AtPc(a, "schedule.write") => req[a].date > TxToday(a)
  /\ tx[a].pc \in EditPcs /\ req[a].op = "replaceTodayPuzzle" => req[a].date = None
  /\ AtPc(a, "edit.write") =>
       /\ row.status = "SCHEDULED" /\ row.lockedAt = None
       /\ req[a].op \in {"updatePuzzle", "deletePuzzle"} => row.date > TxToday(a)
       /\ req[a].op = "replaceTodayPuzzle" => row.date = TxToday(a)
       /\ req[a].op # "schedulePuzzle"
       /\ req[a].op # "deletePuzzle" => HintValid(new.hint, new.answer)
       /\ req[a].op # "deletePuzzle" /\ req[a].date # None => req[a].date > TxToday(a)

(* A SCHEDULED row is as an admin put it there; no game began, and no      *)
(* transaction, in the future.                                             *)
FreshRows ==
  \A p \in Puzzles : dailyPuzzles[p].status = "SCHEDULED" =>
    \E d \in Dates, w \in Answers, h \in Letters : dailyPuzzles[p] = Scheduled(d, w, h)

BegunBefore ==
  \A p \in Puzzles, u \in Users : games[p][u].status # "NONE" => games[p][u].startedAt <= now

Checked ==
  /\ FreshRows /\ BegunBefore
  /\ \A t \in Procs : tx[t].ts <= now
  /\ \A t \in Players : CheckedPlayer(t)
  /\ \A s \in Settlers : CheckedSettler(s)
  /\ \A a \in Admins : CheckedAdmin(a)

RefInv == LockInv /\ Checked

-----------------------------------------------------------------------------
(* The operators of Rows mean the same inside DailyContest. *)

(* Sums are sums, in either module. *)
LEMMA SameFrozen == ASSUME NEW times PROVE Contest!FrozenOf(times) = FrozenOf(times)
  <1>1. Contest!SumFunctionOnSet(times, DOMAIN times) = SumFunctionOnSet(times, DOMAIN times)
    BY DEF Contest!SumFunctionOnSet, SumFunctionOnSet, Contest!FoldFunctionOnSet, FoldFunctionOnSet,
           Contest!MapThenFoldSet, MapThenFoldSet
  <1>2. Contest!Cardinality(DOMAIN times) = Cardinality(DOMAIN times)
    BY DEF Contest!Cardinality, Cardinality
  <1> QED
    BY <1>1, <1>2 DEF Contest!FrozenOf, FrozenOf, Contest!RoundedAverage, RoundedAverage,
      Contest!SumFunction, SumFunction

(* The games that count are the same ones. *)
LEMMA SameTimes == ASSUME NEW row PROVE Contest!CompletionTimes(row) = CompletionTimes(row)
  BY DEF Contest!CompletionTimes, CompletionTimes, Contest!Counted, Counted

(* Dates and times are the same, *)
LEMMA SameConstants ==
  /\ Contest!Time = Time /\ Contest!Dates = Dates /\ Contest!Deleted = Deleted
  /\ \A t : Contest!ManilaDate(t) = ManilaDate(t)
  /\ \A row : Contest!IsRow(row) <=> IsRow(row)
  BY DEF Contest!Time, Time, Contest!Dates, Dates, Contest!Deleted, Deleted, Contest!EmptyRow,
         EmptyRow, Contest!ManilaDate, ManilaDate, Contest!IsRow, IsRow

(* puzzle rows are opened, finalized and scheduled alike, *)
LEMMA SameRows ==
  /\ \A row, ts : Contest!Opened(row, ts) = Opened(row, ts)
  /\ \A row, ts : Contest!Finalized(row, ts) = Finalized(row, ts)
  /\ \A d, w, h : Contest!Scheduled(d, w, h) = Scheduled(d, w, h)
  /\ \A h, w : Contest!HintValid(h, w) <=> HintValid(h, w)
  BY DEF Contest!Opened, Opened, Contest!Finalized, Finalized, Contest!Scheduled, Scheduled,
         Contest!ExpiresAt, ExpiresAt, Contest!HintValid, HintValid

(* and games are started, played and forfeited alike. *)
LEMMA SameGames ==
  /\ \A game, ts : Contest!StartedGame(game, ts) = StartedGame(game, ts)
  /\ \A game, n, solved, ts :
       Contest!GuessedGame(game, n, solved, ts) = GuessedGame(game, n, solved, ts)
  /\ \A game : Contest!Forfeited(game) = Forfeited(game)
  BY DEF Contest!StartedGame, StartedGame, Contest!NewGame, NewGame, Contest!GuessedGame,
         GuessedGame, Contest!Forfeited, Forfeited

-----------------------------------------------------------------------------
(* The steps that commit *)

(* A step of DailyContest on one puzzle, in a transaction begun at ts. *)
LEMMA AtomicStep ==
  ASSUME NEW p \in Puzzles, NEW ts \in Time, ts <= now, Contest!Step(p, ts)
  PROVE  Contest!Next
  BY SameConstants DEF Contest!Next

(* What every handler in the midst of a transaction can rely on. *)
LEMMA InTransaction ==
  ASSUME RefInv, NEW t \in Procs, tx[t].pc \in HoldingPcs
  PROVE  /\ Pid(t) \in Puzzles /\ tx[t].ts \in Time /\ tx[t].ts <= now
         /\ dailyPuzzles[Pid(t)] = tx[t].row /\ tx[t].row \in PuzzleRow
         /\ puzzleLock[Pid(t)] = t
  <1>1. TypeOK /\ PhasesOK /\ HoldsRow(t) /\ tx[t] \in TxRecord
    BY DEF RefInv, LockInv, TypeInv, LocksOK, TypeOK
  <1>2. Pid(t) \in Puzzles
    BY <1>1 DEF PhasesOK, TxPhase, HoldingPcs, NoPidPcs, Pid
  <1> QED
    BY <1>1, <1>2 DEF RefInv, Checked, HoldsRow, TypeOK, TxRecord

(* A start opens a puzzle of its day and begins or resumes one game. *)
LEMMA StartAtomic ==
  ASSUME RefInv, NEW t \in Players, StartWrite(t)
  PROVE  Contest!Next
  <1> DEFINE p == Pid(t)
             u == req[t].user
             ts == tx[t].ts
  <1>1. AtPc(t, "start.write") /\ tx[t].pc \in HoldingPcs /\ t \in Procs
    BY DEF StartWrite, AtPc, HoldingPcs, Procs
  <1>2. u \in Users
    BY <1>1 DEF RefInv, LockInv, TypeInv, PhasesOK, PlayerPhase, AtPc, StartPcs, StartReq
  <1>3. CheckedPlayer(t)
    BY DEF RefInv, Checked
  <1>4. Contest!Start(u, p, ts)
    BY <1>1, <1>3, InTransaction, SameConstants, SameRows, SameGames
    DEF Contest!Start, CheckedPlayer, StartWrite, PlayerUnchanged
  <1> QED
    BY <1>1, <1>2, <1>4, InTransaction, AtomicStep DEF Contest!Step

(* A guess is the next one of a running game, before the expiry. *)
LEMMA GuessAtomic ==
  ASSUME RefInv, NEW t \in Players, GuessWrite(t)
  PROVE  Contest!Next
  <1> DEFINE p == Pid(t)
             u == req[t].owner
             ts == tx[t].ts
             word == req[t].word
  <1>1. AtPc(t, "guess.write") /\ tx[t].pc \in HoldingPcs /\ t \in Procs
    BY DEF GuessWrite, AtPc, HoldingPcs, Procs
  <1>2. /\ u \in Users /\ word \in Words /\ tx[t].seen = games[p][u]
        /\ tx[t].seen \in GameRow /\ tx[t].seen.guessCount < MaxGuesses
    BY <1>1 DEF RefInv, LockInv, TypeInv, PhasesOK, PlayerPhase, AtPc, GuessPcs, GuessReq,
                LocksOK, HoldsGame, GuessGame
  <1>3. CheckedPlayer(t)
    BY DEF RefInv, Checked
  <1>4. /\ games[p][u].guessCount + 1 <= MaxGuesses
        /\ GuessNumber(t) = games[p][u].guessCount + 1
    BY <1>2, BoundsAssumption DEF GameRow, GuessNumber
  <1>5. games[p][u].status = "ACTIVE" /\ games[p][u].startedAt <= ts
    BY <1>1, <1>2, <1>3 DEF CheckedPlayer, GuessGame, AtPc, GuessPcs
  <1>6. Contest!Guess(u, p, word, ts)
    BY <1>1, <1>3, <1>4, <1>5, InTransaction, SameGames
    DEF Contest!Guess, CheckedPlayer, GuessWrite, PlayerUnchanged, Solved, AtPc
  <1> QED
    BY <1>1, <1>2, <1>6, InTransaction, AtomicStep DEF Contest!Step

(* The games a finalization holds are the running ones, and none was       *)
(* completed since it took the average.                                    *)
LEMMA SettleAtomic ==
  ASSUME RefInv, NEW s \in Settlers, FinalizeWrite(s)
  PROVE  Contest!Next
  <1> DEFINE p == Pid(s)
             ts == tx[s].ts
  <1>1. AtPc(s, "finalize.write") /\ tx[s].pc \in HoldingPcs /\ s \in Procs
    BY DEF FinalizeWrite, AtPc, HoldingPcs, Procs
  <1>2. \A u \in Users : gameLock[p][u] = s <=> games[p][u].status = "ACTIVE"
    BY <1>1 DEF RefInv, LockInv, LocksOK, HoldsActive, ForfeitedPcs, AtPc
  <1>3. /\ dailyPuzzles[p].status = "ACTIVE" /\ dailyPuzzles[p].expiresAt <= ts
        /\ sweep[s].frozen = FrozenOf(CompletionTimes(games[p]))
    BY <1>1, InTransaction DEF RefInv, Checked, CheckedSettler, FinalizePcs, Over, AtPc
  <1>4. games' = [games EXCEPT ![p] = [u \in Users |->
                    IF games[p][u].status = "ACTIVE" THEN Forfeited(games[p][u]) ELSE games[p][u]]]
    BY <1>2 DEF FinalizeWrite
  <1>5. Contest!Settle(p, ts)
    BY <1>3, <1>4, SameRows, SameGames, SameFrozen, SameTimes
    DEF Contest!Settle, FinalizeWrite, FinalizeEnd, SettleUnchanged
  <1> QED
    BY <1>1, <1>5, InTransaction, AtomicStep DEF Contest!Step

(* An activation opens today's row, if it is still the one. *)
LEMMA ActivateAtomic ==
  ASSUME RefInv, NEW s \in Settlers, ActivateWrite(s)
  PROVE  Contest!Next
  <1>1. AtPc(s, "activate.write") /\ tx[s].pc \in HoldingPcs /\ s \in Procs
    BY DEF ActivateWrite, AtPc, HoldingPcs, Procs
  <1>2. CheckedSettler(s)
    BY DEF RefInv, Checked
  <1>3. Contest!Activate(Pid(s), tx[s].ts)
    BY <1>1, <1>2, InTransaction, SameConstants
    DEF Contest!Activate, CheckedSettler, ActivateWrite, SettleUnchanged
  <1> QED
    BY <1>1, <1>3, InTransaction, AtomicStep DEF Contest!Step

(* The unique indexes speak at the write itself. *)
LEMMA PutAtomic ==
  ASSUME NEW p \in Puzzles, NEW row, HintValid(row.hint, row.answer), ~UniqueViolation(p, row),
         dailyPuzzles' = [dailyPuzzles EXCEPT ![p] = row], AdminUnchanged
  PROVE  Contest!Put(p, row)
  BY SameConstants, SameRows
  DEF Contest!Put, Contest!WellScheduled, UniqueViolation, Exists, AdminUnchanged

(* A scheduled row is a fresh one of a day to come. *)
LEMMA ScheduleAtomic ==
  ASSUME RefInv, NEW a \in Admins, NEW p \in Puzzles, ScheduleWrite(a, p)
  PROVE  Contest!Next
  <1> DEFINE row == NewRow(a)
             ts == tx[a].ts
  <1>1. AtPc(a, "schedule.write") /\ a \in Procs
    BY DEF ScheduleWrite, Procs
  <1>2. /\ req[a].date \in Dates /\ req[a].word \in Answers /\ req[a].hint \in Letters
        /\ ts \in Time /\ ts <= now
    <2>1. tx[a] \in TxRecord
      BY <1>1 DEF RefInv, LockInv, TypeInv, TypeOK
    <2> QED
      BY <1>1, <2>1 DEF RefInv, LockInv, TypeInv, PhasesOK, AdminPhase, SchedulePcs, AtPc, Checked,
                        TxRecord
  <1>3. HintValid(req[a].hint, req[a].word) /\ req[a].date > ManilaDate(ts)
    BY <1>1 DEF RefInv, Checked, CheckedAdmin, SchedulePcs, AtPc, TxToday
  <1>4. row \in Contest!ScheduledRows
    BY <1>2, SameConstants, SameRows DEF Contest!ScheduledRows, NewRow
  <1>5. row.date = req[a].date /\ row.answer = req[a].word /\ row.hint = req[a].hint
    BY DEF NewRow, Scheduled
  <1>6. Contest!Put(p, row)
    BY <1>3, <1>5, PutAtomic DEF ScheduleWrite, Commit
  <1>7. Contest!Schedule(p, row, ts)
    BY <1>3, <1>5, <1>6, SameConstants DEF Contest!Schedule, ScheduleWrite
  <1> QED
    BY <1>2, <1>4, <1>7, AtomicStep DEF Contest!Step

(* A fresh row edited within the types of a request is a fresh row.        *)
LEMMA EditedFresh ==
  ASSUME NEW a, NEW row, req[a] \in AdminReq, row.status = "SCHEDULED",
         \E d \in Dates, w \in Answers, h \in Letters : row = Scheduled(d, w, h)
  PROVE  /\ Edited(a, row) \in Contest!ScheduledRows
         /\ Edited(a, row).date = Or(req[a].date, row.date)
         /\ row.date \in Dates
  <1>1. PICK d \in Dates, w \in Answers, h \in Letters : row = Scheduled(d, w, h)
    OBVIOUS
  <1> DEFINE d2 == Or(req[a].date, d)
             w2 == Or(req[a].word, w)
             h2 == Or(req[a].hint, h)
  <1>2. d2 \in Dates /\ w2 \in Answers /\ h2 \in Letters
    BY DEF Or, AdminReq
  <1>3. row.date = d /\ row.answer = w /\ row.hint = h /\ row.expiresAt = ExpiresAt(d)
    BY <1>1 DEF Scheduled
  <1>4. EditedExpiry(a, row) = ExpiresAt(d2)
    BY <1>3 DEF EditedExpiry
  <1>5. Edited(a, row) = [row EXCEPT !.answer = w2, !.hint = h2, !.date = d2, !.expiresAt = ExpiresAt(d2)]
    BY <1>3, <1>4 DEF Edited
  <1> HIDE DEF d2, w2, h2
  <1>6. Edited(a, row) = Scheduled(d2, w2, h2)
    BY <1>1, <1>5 DEF Scheduled
  <1>7. Edited(a, row) \in Contest!ScheduledRows
    BY <1>2, <1>6, SameConstants, SameRows DEF Contest!ScheduledRows
  <1>8. Edited(a, row).date = d2
    BY <1>6 DEF Scheduled
  <1> QED
    BY <1>3, <1>7, <1>8 DEF d2

(* An edit puts a fresh row in place of one nobody has started, *)
LEMMA EditAtomic ==
  ASSUME RefInv, NEW a \in Admins, EditWrite(a)
  PROVE  Contest!Next
  <1> DEFINE p == Pid(a)
             ts == tx[a].ts
             row == tx[a].row
             new == EditedRow(a)
  <1>1. AtPc(a, "edit.write") /\ tx[a].pc \in HoldingPcs /\ a \in Procs /\ req[a].op # "deletePuzzle"
    BY DEF EditWrite, AtPc, HoldingPcs, Procs
  <1>2. /\ p \in Puzzles /\ ts \in Time /\ ts <= now /\ dailyPuzzles[p] = row
    BY <1>1, InTransaction
  <1>3. /\ row.status = "SCHEDULED" /\ row.lockedAt = None
        /\ req[a].op = "updatePuzzle" => row.date > ManilaDate(ts)
        /\ req[a].op = "replaceTodayPuzzle" => row.date = ManilaDate(ts) /\ req[a].date = None
        /\ req[a].op # "schedulePuzzle"
        /\ HintValid(new.hint, new.answer)
        /\ req[a].date # None => req[a].date > ManilaDate(ts)
    BY <1>1 DEF RefInv, Checked, CheckedAdmin, EditPcs, AtPc, TxToday
  <1>4. req[a] \in AdminReq
    BY <1>1 DEF RefInv, LockInv, TypeInv, PhasesOK, AdminPhase, AtPc
  <1>5. /\ new \in Contest!ScheduledRows /\ new.date = Or(req[a].date, row.date)
    BY <1>2, <1>3, <1>4, EditedFresh DEF RefInv, Checked, FreshRows, EditedRow
  <1>6. Contest!Put(p, new)
    BY <1>2, <1>3, PutAtomic DEF EditWrite, Commit
  <1>7. Contest!Editable(p)
    BY <1>2, <1>3 DEF Contest!Editable
  <1>8. CASE req[a].op = "updatePuzzle"
    <2>1. Contest!Update(p, new, ts)
      BY <1>2, <1>3, <1>5, <1>6, <1>7, <1>8, SameConstants DEF Contest!Update, Or
    <2> QED
      BY <1>2, <1>5, <2>1, AtomicStep DEF Contest!Step
  <1>9. CASE req[a].op = "replaceTodayPuzzle"
    <2>1. Contest!ReplaceToday(p, new, ts)
      BY <1>2, <1>3, <1>5, <1>6, <1>7, <1>9, SameConstants DEF Contest!ReplaceToday, Or
    <2> QED
      BY <1>2, <1>5, <2>1, AtomicStep DEF Contest!Step
  <1> QED
    BY <1>1, <1>3, <1>4, <1>8, <1>9 DEF AdminReq

(* and a deletion takes one away. *)
LEMMA DeleteAtomic ==
  ASSUME RefInv, NEW a \in Admins, DeleteWrite(a)
  PROVE  Contest!Next
  <1>1. AtPc(a, "edit.write") /\ tx[a].pc \in HoldingPcs /\ a \in Procs /\ req[a].op = "deletePuzzle"
    BY DEF DeleteWrite, AtPc, HoldingPcs, Procs
  <1>2. CheckedAdmin(a)
    BY DEF RefInv, Checked
  <1>3. Contest!Delete(Pid(a), tx[a].ts)
    BY <1>1, <1>2, InTransaction, SameConstants
    DEF Contest!Delete, Contest!Editable, CheckedAdmin, TxToday, DeleteWrite, Commit, AdminUnchanged
  <1> QED
    BY <1>1, <1>3, InTransaction, AtomicStep DEF Contest!Step

-----------------------------------------------------------------------------
(* What a step of DailyContest leaves alone, whoever takes it: opened      *)
(* puzzles stay opened and games that began keep their start.              *)
Stable ==
  /\ now <= now'
  /\ \A p \in Puzzles : dailyPuzzles[p].status \in {"ACTIVE", "FINALIZED"} =>
       /\ dailyPuzzles'[p].status \in {"ACTIVE", "FINALIZED"}
       /\ dailyPuzzles'[p].expiresAt = dailyPuzzles[p].expiresAt
  /\ \A p \in Puzzles, u \in Users : games[p][u].status # "NONE" =>
       games'[p][u].status # "NONE" /\ games'[p][u].startedAt = games[p][u].startedAt

(* Every step of DailyContest is such a step. *)
LEMMA ContestStable ==
  ASSUME LockInv, FreshRows, BegunBefore, [Contest!Next]_(Contest!vars)
  PROVE  Stable /\ FreshRows' /\ BegunBefore'
  <1>0. /\ now \in Nat /\ dailyPuzzles \in [Puzzles -> PuzzleRow]
        /\ games \in [Puzzles -> [Users -> GameRow]]
    BY BoundsAssumption DEF LockInv, TypeInv, TypeOK, Time
  <1>1. CASE Contest!Tick
    <2>1. /\ now' = now + 1 /\ dailyPuzzles' = dailyPuzzles /\ games' = games
      BY <1>1 DEF Contest!Tick
    <2>2. \A p \in Puzzles, u \in Users : games[p][u].startedAt \in Int
      BY <1>0, BoundsAssumption DEF GameRow, Time
    <2> QED
      BY <1>0, <2>1, <2>2 DEF Stable, FreshRows, BegunBefore
  <1>2. ASSUME NEW p \in Puzzles, NEW ts \in Time, ts <= now, Contest!Step(p, ts)
        PROVE  Stable /\ FreshRows' /\ BegunBefore'
    <2>0. /\ dailyPuzzles[p] \in PuzzleRow /\ \A u \in Users : games[p][u] \in GameRow
      BY <1>0
    <2>1. ASSUME NEW u \in Users, Contest!Start(u, p, ts)
          PROVE  Stable /\ FreshRows' /\ BegunBefore'
      <3>1. /\ now' = now
            /\ dailyPuzzles' = [dailyPuzzles EXCEPT ![p] = Opened(dailyPuzzles[p], ts)]
            /\ games' = [games EXCEPT ![p][u] = StartedGame(games[p][u], ts)]
        BY <2>1, SameRows, SameGames DEF Contest!Start
      <3>2. \/ games[p][u].status # "NONE" /\ StartedGame(games[p][u], ts) = games[p][u]
            \/ games[p][u].status = "NONE" /\ StartedGame(games[p][u], ts).startedAt = ts
        BY DEF StartedGame, NewGame
      <3>3. Stable
        BY <1>0, <2>0, <3>1, <3>2, OpenedType DEF Stable, SameContents
      <3>4. FreshRows' /\ BegunBefore'
        BY <1>0, <1>2, <2>0, <3>1, <3>2, OpenedType DEF FreshRows, BegunBefore
      <3> QED
        BY <3>3, <3>4
    <2>2. ASSUME NEW u \in Users, NEW word \in Words, Contest!Guess(u, p, word, ts)
          PROVE  Stable /\ FreshRows' /\ BegunBefore'
      <3> DEFINE n == games[p][u].guessCount + 1
                 solved == word = dailyPuzzles[p].answer
      <3>0. n \in 1..MaxGuesses
        BY <2>0, <2>2, BoundsAssumption DEF Contest!Guess, GameRow
      <3>1. /\ now' = now /\ dailyPuzzles' = dailyPuzzles
            /\ games' = [games EXCEPT ![p][u] = GuessedGame(games[p][u], n, solved, ts)]
            /\ games[p][u].status # "NONE"
        BY <2>2, SameGames DEF Contest!Guess
      <3>2. solved \in BOOLEAN
        OBVIOUS
      <3> HIDE DEF n, solved
      <3>3. /\ GuessedGame(games[p][u], n, solved, ts).startedAt = games[p][u].startedAt
            /\ GuessedGame(games[p][u], n, solved, ts).status # "NONE"
        BY <2>0, <3>0, <3>2, GuessedType
      <3> QED
        BY <1>0, <3>1, <3>3 DEF Stable, FreshRows, BegunBefore
    <2>3. CASE Contest!Settle(p, ts)
      <3>1. /\ now' = now
            /\ dailyPuzzles' = [dailyPuzzles EXCEPT ![p] = Finalized(dailyPuzzles[p], ts)]
            /\ games' = [games EXCEPT ![p] = [u \in Users |->
                 IF games[p][u].status = "ACTIVE" THEN Forfeited(games[p][u]) ELSE games[p][u]]]
        BY <2>3, SameRows, SameGames DEF Contest!Settle
      <3>2. \A u \in Users : games'[p][u].startedAt = games[p][u].startedAt
              /\ (games'[p][u].status = "NONE" <=> games[p][u].status = "NONE")
        BY <1>0, <2>0, <3>1, ForfeitedType
      <3>3. \A q \in Puzzles \ {p} : games'[q] = games[q] /\ dailyPuzzles'[q] = dailyPuzzles[q]
        BY <1>0, <3>1
      <3>4. /\ dailyPuzzles'[p].status = "FINALIZED"
            /\ dailyPuzzles'[p].expiresAt = dailyPuzzles[p].expiresAt
        BY <1>0, <2>0, <3>1, FinalizedType DEF SameContents
      <3> QED
        BY <1>0, <3>1, <3>2, <3>3, <3>4 DEF Stable, FreshRows, BegunBefore
    <2>4. CASE Contest!Activate(p, ts)
      <3>1. /\ now' = now /\ games' = games /\ dailyPuzzles[p].status = "SCHEDULED"
            /\ dailyPuzzles' = [dailyPuzzles EXCEPT ![p] = [@ EXCEPT !.status = "ACTIVE"]]
        BY <2>4 DEF Contest!Activate
      <3>2. dailyPuzzles'[p].status = "ACTIVE"
            /\ \A q \in Puzzles \ {p} : dailyPuzzles'[q] = dailyPuzzles[q]
        BY <1>0, <2>0, <3>1, ActivatedType
      <3> QED
        BY <1>0, <3>1, <3>2 DEF Stable, FreshRows, BegunBefore
    <2>5. ASSUME NEW row \in Contest!ScheduledRows,
                 Contest!Schedule(p, row, ts) \/ Contest!Update(p, row, ts)
                   \/ Contest!ReplaceToday(p, row, ts)
          PROVE  Stable /\ FreshRows' /\ BegunBefore'
      <3>1. /\ now' = now /\ games' = games /\ dailyPuzzles[p].status \in {"ABSENT", "SCHEDULED"}
            /\ dailyPuzzles' = [dailyPuzzles EXCEPT ![p] = row]
        BY <2>5 DEF Contest!Schedule, Contest!Update, Contest!ReplaceToday, Contest!Editable,
                    Contest!Put
      <3>2. \E d \in Dates, w \in Answers, h \in Letters : row = Scheduled(d, w, h)
        BY SameConstants, SameRows DEF Contest!ScheduledRows
      <3> QED
        BY <1>0, <3>1, <3>2 DEF Stable, FreshRows, BegunBefore
    <2>6. CASE Contest!Delete(p, ts)
      <3>1. /\ now' = now /\ games' = games /\ dailyPuzzles[p].status = "SCHEDULED"
            /\ dailyPuzzles' = [dailyPuzzles EXCEPT ![p] = Deleted]
        BY <2>6, SameConstants DEF Contest!Delete, Contest!Editable
      <3>2. Deleted.status # "SCHEDULED"
        BY DEF Deleted, EmptyRow
      <3> QED
        BY <1>0, <3>1, <3>2 DEF Stable, FreshRows, BegunBefore
    <2> QED
      BY <1>2, <2>1, <2>2, <2>3, <2>4, <2>5, <2>6 DEF Contest!Step
  <1>3. CASE UNCHANGED Contest!vars
    BY <1>0, <1>3 DEF Contest!vars, Stable, FreshRows, BegunBefore
  <1> QED
    BY <1>1, <1>2, <1>3, SameConstants DEF Contest!Next

-----------------------------------------------------------------------------
(* What a process that does not move has checked stays checked.            *)
LEMMA OthersChecked ==
  ASSUME RefInv, LockInv', Stable, NEW t,
         \A x \in Procs \ {t} : tx'[x] = tx[x],
         \A x \in (Players \cup Admins) \ {t} : req'[x] = req[x],
         \A x \in Settlers \ {t} : sweep'[x] = sweep[x],
         \A p \in Puzzles : games'[p] = games[p] \/ puzzleLock[p] = t
  PROVE  /\ \A x \in Procs \ {t} : tx'[x].ts <= now'
         /\ \A x \in Players \ {t} : CheckedPlayer(x)'
         /\ \A x \in Settlers \ {t} : CheckedSettler(x)'
         /\ \A x \in Admins \ {t} : CheckedAdmin(x)'
  <1>0. TypeOK /\ PhasesOK /\ Checked /\ now \in Int /\ now' \in Int /\ now <= now'
    BY BoundsAssumption DEF RefInv, LockInv, TypeInv, TypeOK, Time, Stable
  <1>1. ASSUME NEW x \in Procs \ {t} PROVE tx'[x].ts <= now'
    <2>1. tx[x] \in TxRecord /\ tx[x].ts <= now
      BY <1>0 DEF TypeOK, Checked
    <2> QED
      BY <1>0, <2>1, BoundsAssumption DEF TxRecord, Time
  <1>2. ASSUME NEW x \in Players \ {t} PROVE CheckedPlayer(x)'
    <2>1. tx'[x] = tx[x] /\ req'[x] = req[x] /\ CheckedPlayer(x)
      BY <1>0 DEF Procs, Checked
    <2>2. ASSUME tx[x].pc \in GuessPcs
          PROVE  Pid(x) \in Puzzles /\ req[x].owner \in Users
      BY <1>0, <2>2 DEF PhasesOK, PlayerPhase, TxPhase, NoPidPcs, GuessPcs, GuessReq, Pid, Procs
    <2>3. ASSUME tx[x].pc \in GuessPcs
          PROVE  GuessGame(x)'.status # "NONE" /\ GuessGame(x)'.startedAt <= tx[x].ts
      BY <2>1, <2>2, <2>3 DEF CheckedPlayer, Stable, GuessGame, Pid
    <2> QED
      BY <2>1, <2>3 DEF CheckedPlayer, AtPc
  <1>3. ASSUME NEW x \in Settlers \ {t} PROVE CheckedSettler(x)'
    <2>1. /\ tx'[x] = tx[x] /\ sweep'[x] = sweep[x] /\ CheckedSettler(x) /\ x \in Procs
          /\ sweep[x] \in SweepRecord /\ tx[x] \in TxRecord
      BY <1>0 DEF Procs, Checked, TypeOK
    <2>2. ASSUME NEW p \in Puzzles, NEW d \in Int, Over(p, d) PROVE Over(p, d)'
      BY <2>2 DEF Over, Stable
    <2>3. ASSUME NEW p \in sweep[x].queue PROVE Over(p, now)'
      <3>1. p \in Puzzles /\ Over(p, now)
        BY <2>1 DEF SweepRecord, CheckedSettler
      <3>2. dailyPuzzles[p].expiresAt \in Int
        BY <1>0, <3>1 DEF TypeOK, PuzzleRow
      <3> QED
        BY <1>0, <3>1, <3>2 DEF Over, Stable
    <2>4. ASSUME tx[x].pc \in FinalizePcs PROVE Pid(x) \in Puzzles /\ Over(Pid(x), tx[x].ts)'
      <3>1. Pid(x) \in Puzzles
        BY <1>0, <2>1, <2>4 DEF PhasesOK, TxPhase, NoPidPcs, FinalizePcs, Pid
      <3> QED
        BY <2>1, <2>4, <3>1 DEF CheckedSettler, Over, Stable, Pid
    <2>5. ASSUME AtPc(x, "finalize.write") PROVE games'[Pid(x)] = games[Pid(x)]
      <3>1. tx[x].pc \in HoldingPcs
        BY <2>5 DEF AtPc, HoldingPcs
      <3> QED
        BY <2>1, <3>1, InTransaction
    <2> QED
      BY <2>1, <2>3, <2>4, <2>5 DEF CheckedSettler, AtPc, Pid
  <1>4. ASSUME NEW x \in Admins \ {t} PROVE CheckedAdmin(x)'
    <2>1. tx'[x] = tx[x] /\ req'[x] = req[x] /\ CheckedAdmin(x)
      BY <1>0 DEF Procs, Checked
    <2> QED
      BY <2>1 DEF CheckedAdmin, AtPc, TxToday, EditedRow, Edited, EditedExpiry
  <1> QED
    BY <1>1, <1>2, <1>3, <1>4

-----------------------------------------------------------------------------
(* Players *)

(* A player's step leaves all other processes, the clock and the games of  *)
(* puzzles it does not hold alone, and is a step of DailyContest.          *)
LEMMA PlayerMoves ==
  ASSUME RefInv, NEW t \in Players, PlayerNext(t)
  PROVE  /\ \A x \in Procs \ {t} : tx'[x] = tx[x]
         /\ \A x \in (Players \cup Admins) \ {t} : req'[x] = req[x]
         /\ now' = now /\ sweep' = sweep
         /\ \A p \in Puzzles : games'[p] = games[p] \/ puzzleLock[p] = t
         /\ [Contest!Next]_(Contest!vars)
  <1> DEFINE Moves == /\ \A x \in Procs \ {t} : tx'[x] = tx[x]
                      /\ \A x \in (Players \cup Admins) \ {t} : req'[x] = req[x]
                      /\ now' = now /\ sweep' = sweep
                      /\ \A p \in Puzzles : games'[p] = games[p] \/ puzzleLock[p] = t
                      /\ [Contest!Next]_(Contest!vars)
  <1>0. /\ tx \in [Procs -> TxRecord] /\ t \in Procs
        /\ req = [x \in Players \cup Admins |-> req[x]]
        /\ games = [p \in Puzzles |-> games[p]]
    BY DEF RefInv, LockInv, TypeInv, TypeOK, Procs
  <1> USE <1>0
  <1>1. CASE Refuse(t)
    BY <1>1 DEF Refuse, End, PlayerUnchanged, tables, Contest!vars
  <1>2. ASSUME NEW u \in Users, StartBegin(t, u) PROVE Moves
    BY <1>2 DEF StartBegin, Begin, PlayerUnchanged, tables, Contest!vars
  <1>3. CASE StartFind(t)
    BY <1>3 DEF StartFind, PlayerUnchanged, tables, Contest!vars
  <1>4. CASE StartLock(t) \/ GuessLockPuzzle(t)
    BY <1>4 DEF StartLock, GuessLockPuzzle, LockPuzzle, PlayerUnchanged, tables, Contest!vars
  <1>5. ASSUME NEW u, NEW owner, NEW p, NEW word, GuessBegin(t, u, owner, p, word) PROVE Moves
    BY <1>5 DEF GuessBegin, Begin, PlayerUnchanged, tables, Contest!vars
  <1>6. CASE GuessLockGame(t)
    BY <1>6 DEF GuessLockGame, PlayerUnchanged, tables, Contest!vars
  <1>7. CASE StartWrite(t)
    <2>1. Contest!Next /\ puzzleLock[Pid(t)] = t
      BY <1>7, StartAtomic, InTransaction DEF StartWrite, AtPc, HoldingPcs
    <2> QED
      BY <1>7, <2>1 DEF StartWrite, End, PlayerUnchanged
  <1>8. CASE GuessWrite(t)
    <2>1. Contest!Next /\ puzzleLock[Pid(t)] = t
      BY <1>8, GuessAtomic, InTransaction DEF GuessWrite, AtPc, HoldingPcs
    <2> QED
      BY <1>8, <2>1 DEF GuessWrite, End, PlayerUnchanged
  <1>9. CASE StartMissing(t) \/ StartRefused(t) \/ GuessExpired(t) \/ GuessRejected(t)
    BY <1>1, <1>9 DEF StartMissing, StartRefused, GuessExpired, GuessRejected
  <1> QED
    BY <1>2, <1>3, <1>4, <1>5, <1>6, <1>7, <1>8, <1>9 DEF PlayerNext

(* A player's step checks what its next phase promises. *)
LEMMA PlayerChecks ==
  ASSUME RefInv, NEW t \in Players, PlayerNext(t)
  PROVE  tx'[t].ts <= now' /\ CheckedPlayer(t)'
  <1>0. /\ tx \in [Procs -> TxRecord] /\ t \in Procs /\ now \in Nat
        /\ tx[t] \in TxRecord /\ tx[t].ts <= now /\ CheckedPlayer(t)
        /\ req \in [Players \cup Admins -> StartReq \cup GuessReq \cup AdminReq \cup {None}]
        /\ TypeOK
    BY BoundsAssumption DEF RefInv, LockInv, TypeInv, TypeOK, Procs, Checked, Time
  <1> USE <1>0
  <1> DEFINE Quiet == tx'[t].pc \in {"idle", "start.find", "start.lock"}
  <1>1. now' = now
    BY PlayerMoves
  <1>2. ASSUME Quiet PROVE CheckedPlayer(t)'
    BY <1>2 DEF CheckedPlayer, AtPc, GuessPcs
  <1>3. CASE tx' = [tx EXCEPT ![t] = NewTx("idle", 0, None)]
    <2>1. tx'[t].pc = "idle" /\ tx'[t].ts = 0
      BY <1>3 DEF NewTx
    <2> QED
      BY <1>1, <1>2, <2>1
  <1>4. ASSUME NEW u \in Users, StartBegin(t, u)
        PROVE  tx'[t].ts <= now' /\ CheckedPlayer(t)'
    <2>1. tx'[t].pc = "start.find" /\ tx'[t].ts = now
      BY <1>4 DEF StartBegin, Begin, NewTx
    <2> QED
      BY <1>1, <1>2, <2>1
  <1>5. CASE StartFind(t)
    <2>1. tx'[t].pc = "start.lock" /\ tx'[t].ts = tx[t].ts
      BY <1>5 DEF StartFind, TxRecord
    <2> QED
      BY <1>1, <1>2, <2>1
  <1>6. CASE StartLock(t)
    <2>1. Pid(t) \in Puzzles /\ Playable(t)
      BY <1>6 DEF StartLock, Playable, OnDate
    <2>2. /\ tx'[t].pc = "start.write" /\ tx'[t].ts = tx[t].ts
          /\ tx'[t].row = dailyPuzzles[Pid(t)]
      BY <1>6, <2>1, LockType DEF StartLock, Pcs, StartPcs
    <2> QED
      BY <1>1, <2>1, <2>2 DEF CheckedPlayer, AtPc, GuessPcs, Playable, OnDate, Today
  <1>7. ASSUME NEW u \in Users, NEW owner \in Users, NEW p \in Puzzles, NEW word \in Words \cup {None},
               GuessBegin(t, u, owner, p, word)
        PROVE  tx'[t].ts <= now' /\ CheckedPlayer(t)'
    <2>1. /\ tx'[t].pc = "guess.puzzle" /\ tx'[t].ts = now /\ tx'[t].pid = p
          /\ req'[t].owner = owner /\ games' = games
      BY <1>7 DEF GuessBegin, Begin, NewTx, tables
    <2>2. games[p][owner].status # "NONE" /\ games[p][owner].startedAt <= now
      BY <1>7 DEF GuessBegin, RefInv, Checked, BegunBefore
    <2> QED
      BY <1>1, <2>1, <2>2 DEF CheckedPlayer, AtPc, GuessGame, Pid
  <1>8. CASE GuessLockPuzzle(t)
    <2>1. Pid(t) \in Puzzles
      BY <1>8 DEF GuessLockPuzzle, RefInv, LockInv, TypeInv, PhasesOK, TxPhase, NoPidPcs, AtPc, Pid
    <2>2. /\ tx'[t].pc = "guess.game" /\ tx'[t].ts = tx[t].ts /\ tx'[t].pid = Pid(t)
          /\ tx'[t].row = dailyPuzzles[Pid(t)]
      BY <1>8, <2>1, LockType DEF GuessLockPuzzle, Pcs, GuessPcs
    <2>3. req' = req /\ games' = games /\ tx[t].pc \in GuessPcs
      BY <1>8 DEF GuessLockPuzzle, tables, AtPc, GuessPcs
    <2>4. GuessGame(t)' = GuessGame(t)
      BY <2>2, <2>3 DEF GuessGame, Pid
    <2> QED
      BY <1>1, <1>8, <2>2, <2>3, <2>4 DEF CheckedPlayer, AtPc, GuessLockPuzzle, GuessOpen
  <1>9. CASE GuessLockGame(t)
    <2>1. /\ tx'[t].pc = "guess.write" /\ tx'[t].ts = tx[t].ts /\ tx'[t].pid = Pid(t)
          /\ tx'[t].row = tx[t].row /\ tx'[t].seen = GuessGame(t)
      BY <1>9 DEF GuessLockGame, TxRecord, Pid
    <2>2. req' = req /\ games' = games /\ AtPc(t, "guess.game") /\ tx[t].pc \in GuessPcs
      BY <1>9 DEF GuessLockGame, tables, AtPc, GuessPcs
    <2>3. GuessGame(t)' = GuessGame(t)
      BY <2>1, <2>2 DEF GuessGame, Pid
    <2> QED
      BY <1>1, <1>9, <2>1, <2>2, <2>3 DEF CheckedPlayer, AtPc, GuessLockGame, GuessAllowed
  <1>10. CASE StartMissing(t) \/ StartRefused(t) \/ GuessExpired(t) \/ GuessRejected(t)
              \/ StartWrite(t) \/ GuessWrite(t)
    BY <1>3, <1>10 DEF StartMissing, StartRefused, GuessExpired, GuessRejected, Refuse, StartWrite,
                       GuessWrite, End
  <1> QED
    BY <1>4, <1>5, <1>6, <1>7, <1>8, <1>9, <1>10 DEF PlayerNext

-----------------------------------------------------------------------------
(* Settlements *)

(* The same of a settlement's step, *)
LEMMA SettlerMoves ==
  ASSUME RefInv, NEW t \in Settlers, SettlerNext(t)
  PROVE  /\ \A x \in Procs \ {t} : tx'[x] = tx[x]
         /\ \A x \in Settlers \ {t} : sweep'[x] = sweep[x]
         /\ now' = now /\ req' = req
         /\ \A p \in Puzzles : games'[p] = games[p] \/ puzzleLock[p] = t
         /\ [Contest!Next]_(Contest!vars)
  <1> DEFINE Moves == /\ \A x \in Procs \ {t} : tx'[x] = tx[x]
                      /\ \A x \in Settlers \ {t} : sweep'[x] = sweep[x]
                      /\ now' = now /\ req' = req
                      /\ \A p \in Puzzles : games'[p] = games[p] \/ puzzleLock[p] = t
                      /\ [Contest!Next]_(Contest!vars)
  <1>0. /\ tx \in [Procs -> TxRecord] /\ t \in Procs
        /\ sweep = [x \in Settlers |-> sweep[x]]
        /\ games = [p \in Puzzles |-> games[p]]
    BY DEF RefInv, LockInv, TypeInv, TypeOK, Procs
  <1> USE <1>0 DEF SettleUnchanged, tables, Contest!vars
  <1>1. ASSUME NEW cron \in BOOLEAN, SweepSelect(t, cron) PROVE Moves
    BY <1>1 DEF SweepSelect
  <1>2. ASSUME NEW p \in Puzzles, FinalizeBegin(t, p) PROVE Moves
    BY <1>2 DEF FinalizeBegin, Begin
  <1>3. CASE FinalizeLock(t) \/ ActivateLock(t)
    BY <1>3 DEF FinalizeLock, ActivateLock, LockPuzzle
  <1>4. CASE FinalizeSkip(t) \/ FinalizeFails(t)
    BY <1>4 DEF FinalizeSkip, FinalizeFails, FinalizeEnd, End
  <1>5. CASE FinalizeForfeit(t) \/ FinalizeAverage(t)
    BY <1>5 DEF FinalizeForfeit, FinalizeAverage
  <1>6. CASE FinalizeWrite(t)
    <2>1. Contest!Next /\ puzzleLock[Pid(t)] = t
      BY <1>6, SettleAtomic, InTransaction DEF FinalizeWrite, AtPc, HoldingPcs
    <2> QED
      BY <1>6, <2>1 DEF FinalizeWrite, FinalizeEnd, End
  <1>7. CASE SweepDone(t) \/ ActivateMissing(t) \/ ActivateSkip(t)
    BY <1>7 DEF SweepDone, ActivateMissing, ActivateSkip, SettleEnd, End
  <1>8. CASE ActivateBegin(t) \/ ActivateFind(t)
    BY <1>8 DEF ActivateBegin, ActivateFind, Begin
  <1>9. CASE ActivateWrite(t)
    <2>1. Contest!Next
      BY <1>9, ActivateAtomic
    <2> QED
      BY <1>9, <2>1 DEF ActivateWrite, End
  <1> QED
    BY <1>1, <1>2, <1>3, <1>4, <1>5, <1>6, <1>7, <1>8, <1>9 DEF SettlerNext

(* and what its next phase promises. *)
LEMMA SettlerChecks ==
  ASSUME RefInv, NEW s \in Settlers, SettlerNext(s)
  PROVE  tx'[s].ts <= now' /\ CheckedSettler(s)'
  <1>0. /\ tx \in [Procs -> TxRecord] /\ s \in Procs /\ now \in Nat
        /\ tx[s] \in TxRecord /\ tx[s].ts <= now /\ CheckedSettler(s)
        /\ sweep \in [Settlers -> SweepRecord] /\ sweep[s] \in SweepRecord
        /\ TypeOK
    BY BoundsAssumption DEF RefInv, LockInv, TypeInv, TypeOK, Procs, Checked, Time
  <1> USE <1>0
  <1>1. now' = now
    BY SettlerMoves
  <1>2. ASSUME tx'[s].pc \in {"idle", "sweep", "activate.find", "activate.lock"},
               sweep'[s].queue \subseteq sweep[s].queue,
               dailyPuzzles' = dailyPuzzles \/ sweep'[s].queue = {}
        PROVE  CheckedSettler(s)'
    <2>1. \A p \in sweep'[s].queue : Over(p, now)'
      BY <1>1, <1>2 DEF CheckedSettler, Over
    <2> QED
      BY <1>2, <2>1 DEF CheckedSettler, FinalizePcs, AtPc
  <1>3. ASSUME NEW cron \in BOOLEAN, SweepSelect(s, cron)
        PROVE  tx'[s].ts <= now' /\ CheckedSettler(s)'
    <2>1. /\ tx'[s].pc = "sweep" /\ tx'[s].ts = tx[s].ts /\ sweep'[s].queue = Swept
          /\ dailyPuzzles' = dailyPuzzles
      BY <1>3 DEF SweepSelect, TxRecord, tables
    <2>2. \A p \in Swept : Over(p, now)'
      BY <1>1, <2>1 DEF Swept, Expired, Over
    <2> QED
      BY <1>1, <2>1, <2>2 DEF CheckedSettler, FinalizePcs, AtPc
  <1>4. ASSUME NEW p \in Puzzles, FinalizeBegin(s, p)
        PROVE  tx'[s].ts <= now' /\ CheckedSettler(s)'
    <2>1. /\ tx'[s].pc = "finalize.lock" /\ tx'[s].ts = now /\ tx'[s].pid = p
          /\ sweep'[s].queue \subseteq sweep[s].queue /\ p \in sweep[s].queue
          /\ dailyPuzzles' = dailyPuzzles
      BY <1>4 DEF FinalizeBegin, Begin, NewTx, Earliest, tables, SweepRecord
    <2>2. \A q \in sweep[s].queue : Over(q, now)'
      BY <1>1, <2>1 DEF CheckedSettler, Over
    <2>3. Over(Pid(s), tx[s].ts)'
      BY <2>1, <2>2, <1>1 DEF Over, Pid
    <2> QED
      BY <1>1, <2>1, <2>2, <2>3 DEF CheckedSettler, FinalizePcs, AtPc
  <1>5. CASE FinalizeLock(s)
    <2>1. AtPc(s, "finalize.lock") /\ Pid(s) \in Puzzles
      BY <1>5 DEF FinalizeLock, RefInv, LockInv, TypeInv, PhasesOK, TxPhase, NoPidPcs, AtPc, Pid
    <2>2. /\ tx'[s].pc = "finalize.forfeit" /\ tx'[s].ts = tx[s].ts /\ tx'[s].pid = Pid(s)
          /\ tx'[s].row = dailyPuzzles[Pid(s)]
      BY <1>5, <2>1, LockType DEF FinalizeLock, Pcs, SettlerPcs
    <2>3. sweep' = sweep /\ dailyPuzzles' = dailyPuzzles
      BY <1>5 DEF FinalizeLock, tables
    <2> QED
      BY <1>1, <1>5, <2>1, <2>2, <2>3
      DEF CheckedSettler, FinalizePcs, AtPc, Pid, Over, FinalizeLock, Finalizable
  <1>6. CASE FinalizeForfeit(s)
    <2>1. /\ AtPc(s, "finalize.forfeit") /\ tx'[s].pc = "finalize.average" /\ tx'[s].ts = tx[s].ts
          /\ tx'[s].pid = Pid(s) /\ tx'[s].row = tx[s].row
          /\ sweep' = sweep /\ dailyPuzzles' = dailyPuzzles
      BY <1>6 DEF FinalizeForfeit, TxRecord, Pid, tables
    <2> QED
      BY <1>1, <2>1 DEF CheckedSettler, FinalizePcs, AtPc, Pid, Over
  <1>7. CASE FinalizeAverage(s)
    <2>1. /\ AtPc(s, "finalize.average") /\ tx'[s].pc = "finalize.write" /\ tx'[s].ts = tx[s].ts
          /\ tx'[s].pid = Pid(s) /\ tx'[s].row = tx[s].row
          /\ dailyPuzzles' = dailyPuzzles /\ games' = games
      BY <1>7 DEF FinalizeAverage, TxRecord, Pid, tables
    <2>2. /\ sweep'[s].queue = sweep[s].queue
          /\ sweep'[s].frozen = FrozenOf(CompletionTimes(games[Pid(s)]))
      BY <1>7 DEF FinalizeAverage, SweepRecord
    <2> QED
      BY <1>1, <2>1, <2>2 DEF CheckedSettler, FinalizePcs, AtPc, Pid, Over
  <1>8. CASE FinalizeSkip(s) \/ FinalizeFails(s)
    <2>1. /\ tx'[s].pc = "sweep" /\ tx'[s].ts = 0 /\ sweep'[s].queue = sweep[s].queue
          /\ dailyPuzzles' = dailyPuzzles
      BY <1>8 DEF FinalizeSkip, FinalizeFails, FinalizeEnd, End, NewTx, tables, SweepRecord
    <2> QED
      BY <1>1, <1>2, <2>1
  <1>9. CASE FinalizeWrite(s)
    <2>1. tx'[s].pc = "sweep" /\ tx'[s].ts = 0 /\ sweep'[s].queue = sweep[s].queue
      BY <1>9 DEF FinalizeWrite, FinalizeEnd, End, NewTx, SweepRecord
    <2>2. Stable
      BY SettlerMoves, ContestStable DEF RefInv, Checked
    <2>3. ASSUME NEW p \in sweep[s].queue PROVE Over(p, now)'
      <3>1. p \in Puzzles /\ Over(p, now)
        BY DEF SweepRecord, CheckedSettler
      <3> QED
        BY <1>1, <2>2, <3>1 DEF Over, Stable
    <2> QED
      BY <1>1, <2>1, <2>3 DEF CheckedSettler, FinalizePcs, AtPc
  <1>10. CASE SweepDone(s) \/ ActivateMissing(s) \/ ActivateSkip(s) \/ ActivateWrite(s)
    <2>1. tx'[s].pc = "idle" /\ tx'[s].ts = 0 /\ sweep'[s].queue = {}
      BY <1>10 DEF SweepDone, ActivateMissing, ActivateSkip, ActivateWrite, SettleEnd, End, NewTx,
                   IdleSweep
    <2> QED
      BY <1>1, <1>2, <2>1
  <1>11. CASE ActivateBegin(s)
    <2>1. /\ tx'[s].pc = "activate.find" /\ tx'[s].ts = now /\ sweep' = sweep
          /\ dailyPuzzles' = dailyPuzzles
      BY <1>11 DEF ActivateBegin, Begin, NewTx, tables
    <2> QED
      BY <1>1, <1>2, <2>1
  <1>12. CASE ActivateFind(s)
    <2>1. /\ tx'[s].pc = "activate.lock" /\ tx'[s].ts = tx[s].ts /\ sweep' = sweep
          /\ dailyPuzzles' = dailyPuzzles
      BY <1>12 DEF ActivateFind, TxRecord, tables
    <2> QED
      BY <1>1, <1>2, <2>1
  <1>13. CASE ActivateLock(s)
    <2>1. Pid(s) \in Puzzles /\ Activatable(s)
      BY <1>13 DEF ActivateLock, Activatable, OnDate
    <2>2. /\ tx'[s].pc = "activate.write" /\ tx'[s].ts = tx[s].ts
          /\ tx'[s].row = dailyPuzzles[Pid(s)]
      BY <1>13, <2>1, LockType DEF ActivateLock, Pcs, SettlerPcs
    <2>3. sweep' = sweep /\ dailyPuzzles' = dailyPuzzles
      BY <1>13 DEF ActivateLock, tables
    <2>4. \A p \in sweep'[s].queue : Over(p, now)'
      BY <1>1, <2>3 DEF CheckedSettler, Over
    <2> QED
      BY <1>1, <2>1, <2>2, <2>4 DEF CheckedSettler, FinalizePcs, AtPc, Activatable, OnDate
  <1> QED
    BY <1>3, <1>4, <1>5, <1>6, <1>7, <1>8, <1>9, <1>10, <1>11, <1>12, <1>13 DEF SettlerNext

-----------------------------------------------------------------------------
(* Admins *)

(* The same of an admin's step, *)
LEMMA AdminMoves ==
  ASSUME RefInv, NEW t \in Admins, AdminNext(t)
  PROVE  /\ \A x \in Procs \ {t} : tx'[x] = tx[x]
         /\ \A x \in (Players \cup Admins) \ {t} : req'[x] = req[x]
         /\ now' = now /\ sweep' = sweep /\ games' = games
         /\ [Contest!Next]_(Contest!vars)
  <1> DEFINE Moves == /\ \A x \in Procs \ {t} : tx'[x] = tx[x]
                      /\ \A x \in (Players \cup Admins) \ {t} : req'[x] = req[x]
                      /\ now' = now /\ sweep' = sweep /\ games' = games
                      /\ [Contest!Next]_(Contest!vars)
  <1>0. /\ tx \in [Procs -> TxRecord] /\ t \in Procs
        /\ req = [x \in Players \cup Admins |-> req[x]]
    BY DEF RefInv, LockInv, TypeInv, TypeOK, Procs
  <1> USE <1>0 DEF AdminUnchanged, Contest!vars
  <1>1. CASE Reject(t)
    BY <1>1 DEF Reject, End
  <1>2. ASSUME NEW d, NEW w, NEW h, ScheduleBegin(t, d, w, h) PROVE Moves
    BY <1>2 DEF ScheduleBegin, Begin
  <1>3. CASE ScheduleCheck(t)
    BY <1>3 DEF ScheduleCheck
  <1>4. ASSUME NEW p, NEW op, NEW d, NEW w, NEW h, EditBegin(t, p, op, d, w, h) PROVE Moves
    BY <1>4 DEF EditBegin, Begin
  <1>5. CASE EditLock(t)
    BY <1>5 DEF EditLock, LockPuzzle
  <1>6. CASE Contest!Next /\ \E rows : Commit(t, rows)
    BY <1>6 DEF Commit, End
  <1>7. ASSUME NEW p \in Puzzles, ScheduleWrite(t, p) PROVE Moves
    BY <1>6, <1>7, ScheduleAtomic DEF ScheduleWrite
  <1>8. CASE EditWrite(t)
    BY <1>6, <1>8, EditAtomic DEF EditWrite
  <1>9. CASE DeleteWrite(t)
    BY <1>6, <1>9, DeleteAtomic DEF DeleteWrite
  <1>10. CASE ScheduleRefused(t) \/ ScheduleConflict(t) \/ EditRefused(t) \/ EditConflict(t)
    BY <1>1, <1>10 DEF ScheduleRefused, ScheduleConflict, EditRefused, EditConflict
  <1> QED
    BY <1>2, <1>3, <1>4, <1>5, <1>7, <1>8, <1>9, <1>10 DEF AdminNext

(* and what its next phase promises. *)
LEMMA AdminChecks ==
  ASSUME RefInv, NEW a \in Admins, AdminNext(a)
  PROVE  tx'[a].ts <= now' /\ CheckedAdmin(a)'
  <1>0. /\ tx \in [Procs -> TxRecord] /\ a \in Procs /\ now \in Nat
        /\ tx[a] \in TxRecord /\ tx[a].ts <= now /\ CheckedAdmin(a)
        /\ req \in [Players \cup Admins -> StartReq \cup GuessReq \cup AdminReq \cup {None}]
        /\ TypeOK
    BY BoundsAssumption DEF RefInv, LockInv, TypeInv, TypeOK, Procs, Checked, Time
  <1> USE <1>0
  <1>1. now' = now
    BY AdminMoves
  <1>2. CASE tx' = [tx EXCEPT ![a] = NewTx("idle", 0, None)]
    <2>1. tx'[a].pc = "idle" /\ tx'[a].ts = 0
      BY <1>2 DEF NewTx
    <2> QED
      BY <1>1, <2>1 DEF CheckedAdmin, AtPc, SchedulePcs, EditPcs
  <1>3. ASSUME NEW d, NEW w, NEW h, ScheduleBegin(a, d, w, h)
        PROVE  tx'[a].ts <= now' /\ CheckedAdmin(a)'
    <2>1. /\ tx'[a].pc = "schedule.check" /\ tx'[a].ts = now
          /\ req'[a].word = w /\ req'[a].hint = h /\ HintValid(h, w)
      BY <1>3 DEF ScheduleBegin, Begin, NewTx
    <2> QED
      BY <1>1, <2>1 DEF CheckedAdmin, AtPc, EditPcs
  <1>4. CASE ScheduleCheck(a)
    <2>1. /\ tx'[a].pc = "schedule.write" /\ tx'[a].ts = tx[a].ts /\ req' = req
          /\ AtPc(a, "schedule.check") /\ req[a].date > TxToday(a)
      BY <1>4 DEF ScheduleCheck, Schedulable, TxRecord
    <2> QED
      BY <1>1, <2>1 DEF CheckedAdmin, AtPc, EditPcs, SchedulePcs, TxToday
  <1>5. ASSUME NEW p, NEW op, NEW d, NEW w, NEW h, EditBegin(a, p, op, d, w, h),
               op = "replaceTodayPuzzle" => d = None
        PROVE  tx'[a].ts <= now' /\ CheckedAdmin(a)'
    <2>1. /\ tx'[a].pc = "edit.lock" /\ tx'[a].ts = now /\ req'[a].op = op /\ req'[a].date = d
      BY <1>5 DEF EditBegin, Begin, NewTx
    <2> QED
      BY <1>1, <1>5, <2>1 DEF CheckedAdmin, AtPc, SchedulePcs
  <1>6. CASE EditLock(a)
    <2>1. Pid(a) \in Puzzles /\ AtPc(a, "edit.lock")
      BY <1>6 DEF EditLock, RefInv, LockInv, TypeInv, PhasesOK, TxPhase, NoPidPcs, AtPc, Pid
    <2>2. /\ tx'[a].pc = "edit.write" /\ tx'[a].ts = tx[a].ts
          /\ tx'[a].row = dailyPuzzles[Pid(a)] /\ req' = req
      BY <1>6, <2>1, LockType DEF EditLock, Pcs, EditPcs
    <2>3. TxToday(a)' = TxToday(a) /\ EditedRow(a)' = Edited(a, dailyPuzzles[Pid(a)])
      BY <2>2 DEF TxToday, EditedRow, Edited, EditedExpiry
    <2>4. EditAllowed(a)
      BY <1>6 DEF EditLock
    <2>5. /\ dailyPuzzles[Pid(a)].status = "SCHEDULED" /\ dailyPuzzles[Pid(a)].lockedAt = None
          /\ req[a].op \in {"updatePuzzle", "deletePuzzle", "replaceTodayPuzzle"}
      BY <2>4 DEF EditAllowed, EditGuard, ReplaceGuard
    <2> QED
      BY <1>1, <2>1, <2>2, <2>3, <2>4, <2>5
      DEF CheckedAdmin, AtPc, SchedulePcs, EditPcs, EditAllowed, EditGuard, ReplaceGuard, EditValid
  <1>7. CASE \E rows : Commit(a, rows)
    BY <1>2, <1>7 DEF Commit, End
  <1>8. CASE Reject(a)
    BY <1>2, <1>8 DEF Reject, End
  <1> QED
    BY <1>3, <1>4, <1>5, <1>6, <1>7, <1>8
    DEF AdminNext, ScheduleRefused, ScheduleConflict, EditRefused, EditConflict, ScheduleWrite,
        EditWrite, DeleteWrite
-----------------------------------------------------------------------------
(* The server *)

(* A crash drops what its transaction had checked, and no row with it.     *)
LEMMA CrashChecked ==
  ASSUME RefInv, LockInv', NEW t \in Procs, Crash(t)
  PROVE  Checked' /\ [Contest!Next]_(Contest!vars)
  <1>0. /\ tx \in [Procs -> TxRecord] /\ Checked
        /\ sweep = [x \in Settlers |-> sweep[x]] /\ games = [p \in Puzzles |-> games[p]]
        /\ req = [x \in Players \cup Admins |-> req[x]] /\ now \in Nat
    BY BoundsAssumption DEF RefInv, LockInv, TypeInv, TypeOK, Time
  <1>1. /\ \A x \in Procs \ {t} : tx'[x] = tx[x]
        /\ tx'[t].pc = "idle" /\ tx'[t].ts = 0
        /\ now' = now /\ UNCHANGED tables
    BY <1>0 DEF Crash, End, NewTx
  <1>2. /\ \A x \in (Players \cup Admins) \ {t} : req'[x] = req[x]
        /\ \A x \in Settlers \ {t} : sweep'[x] = sweep[x]
        /\ t \in Settlers => sweep'[t].queue = {}
    BY <1>0 DEF Crash, IdleSweep
  <1>3. [Contest!Next]_(Contest!vars)
    BY <1>1 DEF Contest!vars, tables
  <1>4. Stable /\ FreshRows' /\ BegunBefore'
    BY <1>0, <1>3, ContestStable DEF RefInv, Checked
  <1>5. /\ \A x \in Procs \ {t} : tx'[x].ts <= now'
        /\ \A x \in Players \ {t} : CheckedPlayer(x)'
        /\ \A x \in Settlers \ {t} : CheckedSettler(x)'
        /\ \A x \in Admins \ {t} : CheckedAdmin(x)'
    BY <1>1, <1>2, <1>4, OthersChecked DEF tables
  <1>6. /\ tx'[t].ts <= now' /\ CheckedPlayer(t)' /\ CheckedAdmin(t)'
        /\ t \in Settlers => CheckedSettler(t)'
    BY <1>0, <1>1, <1>2
    DEF CheckedPlayer, CheckedSettler, CheckedAdmin, AtPc, GuessPcs, FinalizePcs, SchedulePcs, EditPcs
  <1> QED
    BY <1>3, <1>4, <1>5, <1>6 DEF Checked

(* Reads, the clock and stuttering leave every transaction as it is.       *)
LEMMA IdleChecked ==
  ASSUME RefInv, LockInv', UNCHANGED <<tx, req, sweep, games>>, [Contest!Next]_(Contest!vars)
  PROVE  Checked'
  <1>1. Stable /\ FreshRows' /\ BegunBefore'
    BY ContestStable DEF RefInv, Checked
  <1>2. None \notin Procs
    BY ProcsAssumption
  <1>3. /\ \A x \in Procs \ {None} : tx'[x].ts <= now'
        /\ \A x \in Players \ {None} : CheckedPlayer(x)'
        /\ \A x \in Settlers \ {None} : CheckedSettler(x)'
        /\ \A x \in Admins \ {None} : CheckedAdmin(x)'
    BY <1>1, OthersChecked
  <1> QED
    BY <1>1, <1>2, <1>3 DEF Checked, Procs

(* Nothing is checked yet, and the seeded rows are fresh ones.             *)
LEMMA InitRef == Init => RefInv /\ Contest!Init
  <1> SUFFICES ASSUME Init PROVE RefInv /\ Contest!Init
    OBVIOUS
  <1>1. LockInv
    BY InitType, InitLocks DEF LockInv
  <1>2. FreshRows
    <2> SUFFICES ASSUME NEW p \in Puzzles, dailyPuzzles[p].status = "SCHEDULED"
                 PROVE  \E d \in Dates, w \in Answers, h \in Letters :
                          dailyPuzzles[p] = Scheduled(d, w, h)
      BY DEF FreshRows
    <2>1. dailyPuzzles[p] = InitialRow(Seed[p])
      BY DEF Init, InitialPuzzles
    <2>2. Seed[p] \in [date: Dates, answer: Answers, hint: Letters]
      BY <2>1, SeedAssumption DEF InitialRow, NoRow, EmptyRow
    <2>3. Seed[p] # None
      BY <2>1 DEF InitialRow, NoRow, EmptyRow
    <2> QED
      BY <2>1, <2>2, <2>3 DEF InitialRow
  <1>3. BegunBefore
    BY DEF BegunBefore, Init, InitialGames, NoGame
  <1>4. \A t \in Procs : tx[t].pc = "idle" /\ tx[t].ts = 0
    BY DEF Init, IdleTx, NewTx
  <1>5. now = 0 /\ \A s \in Settlers : sweep[s].queue = {}
    BY DEF Init, IdleSweep
  <1>6. Checked
    BY <1>2, <1>3, <1>4, <1>5
    DEF Checked, CheckedPlayer, CheckedSettler, CheckedAdmin, AtPc, GuessPcs, FinalizePcs,
        SchedulePcs, EditPcs, Procs
  <1>7. Contest!Init
    BY DEF Init, Contest!Init, InitialPuzzles, Contest!InitialPuzzles, InitialRow,
           Contest!InitialRow, NoRow, Contest!NoRow, EmptyRow, Contest!EmptyRow, Scheduled,
           Contest!Scheduled, ExpiresAt, Contest!ExpiresAt, InitialGames, Contest!InitialGames,
           NoGame, Contest!NoGame, InitialGuesses, Contest!InitialGuesses
  <1> QED
    BY <1>1, <1>6, <1>7 DEF RefInv

(* Every step of the server keeps the invariant and is a step of           *)
(* DailyContest, or leaves its tables alone.                               *)
LEMMA RefStep == RefInv /\ [Next]_vars => RefInv' /\ [Contest!Next]_(Contest!vars)
  <1> SUFFICES ASSUME RefInv, [Next]_vars PROVE RefInv' /\ [Contest!Next]_(Contest!vars)
    OBVIOUS
  <1>0. LockInv' /\ LockInv
    BY NextLocks DEF RefInv
  <1> DEFINE Goal == Checked' /\ [Contest!Next]_(Contest!vars)
  <1>1. ASSUME UNCHANGED <<tx, req, sweep, games>>, [Contest!Next]_(Contest!vars) PROVE Goal
    BY <1>0, <1>1, IdleChecked
  <1>2. ASSUME Tick PROVE Goal
    <2>1. Contest!Tick
      BY <1>2 DEF Tick, Contest!Tick, tables
    <2> QED
      BY <1>1, <1>2, <2>1 DEF Tick, tables, Contest!Next
  <1>3. ASSUME UNCHANGED vars PROVE Goal
    BY <1>1, <1>3 DEF vars, tables, Contest!vars
  <1>4. ASSUME NEW r \in Readers, ReaderNext(r) PROVE Goal
    <2>1. ReaderUnchanged
      BY <1>4 DEF ReaderNext, ReadPuzzle, ReadGame, ReadGuesses, ReadReturn
    <2> QED
      BY <1>1, <2>1 DEF ReaderUnchanged, tables, Contest!vars
  <1>5. ASSUME NEW t \in Players, PlayerNext(t) PROVE Goal
    <2>1. /\ \A x \in Procs \ {t} : tx'[x] = tx[x]
          /\ \A x \in (Players \cup Admins) \ {t} : req'[x] = req[x]
          /\ \A x \in Settlers \ {t} : sweep'[x] = sweep[x]
          /\ \A p \in Puzzles : games'[p] = games[p] \/ puzzleLock[p] = t
          /\ [Contest!Next]_(Contest!vars)
      BY <1>5, PlayerMoves
    <2>2. Stable /\ FreshRows' /\ BegunBefore'
      BY <1>0, <2>1, ContestStable DEF RefInv, Checked
    <2>3. tx'[t].ts <= now' /\ CheckedPlayer(t)'
      BY <1>5, PlayerChecks
    <2>4. t \notin Settlers /\ t \notin Admins
      BY ProcsAssumption
    <2> QED
      BY <1>0, <2>1, <2>2, <2>3, <2>4, OthersChecked DEF Checked
  <1>6. ASSUME NEW s \in Settlers, SettlerNext(s) PROVE Goal
    <2>1. /\ \A x \in Procs \ {s} : tx'[x] = tx[x]
          /\ \A x \in (Players \cup Admins) \ {s} : req'[x] = req[x]
          /\ \A x \in Settlers \ {s} : sweep'[x] = sweep[x]
          /\ \A p \in Puzzles : games'[p] = games[p] \/ puzzleLock[p] = s
          /\ [Contest!Next]_(Contest!vars)
      BY <1>6, SettlerMoves
    <2>2. Stable /\ FreshRows' /\ BegunBefore'
      BY <1>0, <2>1, ContestStable DEF RefInv, Checked
    <2>3. tx'[s].ts <= now' /\ CheckedSettler(s)'
      BY <1>6, SettlerChecks
    <2>4. s \notin Players /\ s \notin Admins
      BY ProcsAssumption
    <2> QED
      BY <1>0, <2>1, <2>2, <2>3, <2>4, OthersChecked DEF Checked
  <1>7. ASSUME NEW a \in Admins, AdminNext(a) PROVE Goal
    <2>1. /\ \A x \in Procs \ {a} : tx'[x] = tx[x]
          /\ \A x \in (Players \cup Admins) \ {a} : req'[x] = req[x]
          /\ \A x \in Settlers \ {a} : sweep'[x] = sweep[x]
          /\ \A p \in Puzzles : games'[p] = games[p] \/ puzzleLock[p] = a
          /\ [Contest!Next]_(Contest!vars)
      BY <1>7, AdminMoves
    <2>2. Stable /\ FreshRows' /\ BegunBefore'
      BY <1>0, <2>1, ContestStable DEF RefInv, Checked
    <2>3. tx'[a].ts <= now' /\ CheckedAdmin(a)'
      BY <1>7, AdminChecks
    <2>4. a \notin Players /\ a \notin Settlers
      BY ProcsAssumption
    <2> QED
      BY <1>0, <2>1, <2>2, <2>3, <2>4, OthersChecked DEF Checked
  <1>8. ASSUME NEW t \in Procs, Crash(t) PROVE Goal
    BY <1>0, <1>8, CrashChecked
  <1> QED
    BY <1>0, <1>2, <1>3, <1>4, <1>5, <1>6, <1>7, <1>8 DEF RefInv, Next, Steady

(* The locks, held from the re-read to the commit, make the multi-step     *)
(* transactions of the services atomic: the server is an implementation of *)
(* the contest in which every operation is one step.                       *)
THEOREM RefinementCorrect == Spec => ImplementsContest
  <1>1. Init => RefInv /\ Contest!Init
    BY InitRef
  <1>2. RefInv /\ [Next]_vars => RefInv' /\ [Contest!Next]_(Contest!vars)
    BY RefStep
  <1> QED
    BY <1>1, <1>2, PTL DEF Spec, ImplementsContest, Contest!Spec

-----------------------------------------------------------------------------
(* What the server keeps *)

Tables == INSTANCE DailyContestProofs WITH
  now <- now, dailyPuzzles <- dailyPuzzles, frozen <- frozen, games <- games, guesses <- guesses

-----------------------------------------------------------------------------
(* The contest the proofs are about, and the one DailyPuzzle names, are    *)
(* two instances of one module: what each operator stands for is the same. *)

(* The frozen average and penalty: *)
LEMMA TablesFrozen == ASSUME NEW times PROVE Tables!FrozenOf(times) = FrozenOf(times)
  <1>1. Tables!SumFunctionOnSet(times, DOMAIN times) = SumFunctionOnSet(times, DOMAIN times)
    BY DEF Tables!SumFunctionOnSet, SumFunctionOnSet, Tables!FoldFunctionOnSet, FoldFunctionOnSet,
           Tables!MapThenFoldSet, MapThenFoldSet
  <1>2. Tables!Cardinality(DOMAIN times) = Cardinality(DOMAIN times)
    BY DEF Tables!Cardinality, Cardinality
  <1> QED
    BY <1>1, <1>2 DEF Tables!FrozenOf, FrozenOf, Tables!RoundedAverage, RoundedAverage,
      Tables!SumFunction, SumFunction

(* dates, times and sums: *)
LEMMA TablesConstants ==
  /\ Tables!Time = Time /\ Tables!Dates = Dates /\ Tables!Deleted = Deleted
  /\ \A t : Tables!ManilaDate(t) = ManilaDate(t)
  /\ \A row : Tables!IsRow(row) <=> IsRow(row)
  /\ \A d : Tables!ExpiresAt(d) = ExpiresAt(d)
  /\ \A row : Tables!CompletionTimes(row) = CompletionTimes(row)
  BY DEF Tables!Time, Time, Tables!Dates, Dates, Tables!Deleted, Deleted, Tables!EmptyRow,
         EmptyRow, Tables!ManilaDate, ManilaDate, Tables!IsRow, IsRow, Tables!ExpiresAt, ExpiresAt,
         Tables!CompletionTimes, CompletionTimes, Tables!Counted, Counted

(* what an operation makes of a row: *)
LEMMA TablesRows ==
  /\ \A row, ts : Tables!Opened(row, ts) = Opened(row, ts)
  /\ \A row, ts : Tables!Finalized(row, ts) = Finalized(row, ts)
  /\ \A d, w, h : Tables!Scheduled(d, w, h) = Scheduled(d, w, h)
  /\ \A h, w : Tables!HintValid(h, w) <=> HintValid(h, w)
  /\ \A game, ts : Tables!StartedGame(game, ts) = StartedGame(game, ts)
  /\ \A game, n, solved, ts :
       Tables!GuessedGame(game, n, solved, ts) = GuessedGame(game, n, solved, ts)
  /\ \A game : Tables!Forfeited(game) = Forfeited(game)
  BY DEF Tables!Opened, Opened, Tables!Finalized, Finalized, Tables!Scheduled, Scheduled,
         Tables!ExpiresAt, ExpiresAt, Tables!HintValid, HintValid,
         Tables!StartedGame, StartedGame, Tables!NewGame, NewGame, Tables!GuessedGame,
         GuessedGame, Tables!Forfeited, Forfeited

(* the initial tables: *)
LEMMA SameInit == Contest!Init => Tables!Init
  BY DEF Contest!Init, Tables!Init, Contest!InitialPuzzles, Tables!InitialPuzzles,
         Contest!InitialRow, Tables!InitialRow, Contest!NoRow, Tables!NoRow, Contest!EmptyRow,
         Tables!EmptyRow, Contest!Scheduled, Tables!Scheduled, Contest!ExpiresAt, Tables!ExpiresAt,
         Contest!InitialGames, Tables!InitialGames, Contest!NoGame, Tables!NoGame,
         Contest!InitialGuesses, Tables!InitialGuesses

(* the steps, one by one: *)
LEMMA SameNext == [Contest!Next]_(Contest!vars) => [Tables!Next]_(Tables!vars)
  <1> USE SameConstants, SameRows, SameGames, SameFrozen, SameTimes,
          TablesConstants, TablesRows, TablesFrozen
  <1>1. ASSUME NEW u, NEW p, NEW ts, Contest!Start(u, p, ts) PROVE Tables!Start(u, p, ts)
    BY <1>1 DEF Contest!Start, Tables!Start
  <1>2. ASSUME NEW u, NEW p, NEW w, NEW ts, Contest!Guess(u, p, w, ts)
        PROVE  Tables!Guess(u, p, w, ts)
    BY <1>2 DEF Contest!Guess, Tables!Guess
  <1>3. ASSUME NEW p, NEW ts, Contest!Settle(p, ts) PROVE Tables!Settle(p, ts)
    BY <1>3 DEF Contest!Settle, Tables!Settle
  <1>4. ASSUME NEW p, NEW ts, Contest!Activate(p, ts) PROVE Tables!Activate(p, ts)
    BY <1>4 DEF Contest!Activate, Tables!Activate
  <1>5. ASSUME NEW p, NEW row, Contest!Put(p, row) PROVE Tables!Put(p, row)
    BY <1>5 DEF Contest!Put, Tables!Put, Contest!WellScheduled, Tables!WellScheduled
  <1>6. ASSUME NEW p, NEW ts, NEW row
        PROVE  /\ Contest!Schedule(p, row, ts) => Tables!Schedule(p, row, ts)
               /\ Contest!Update(p, row, ts) => Tables!Update(p, row, ts)
               /\ Contest!ReplaceToday(p, row, ts) => Tables!ReplaceToday(p, row, ts)
    BY <1>5 DEF Contest!Schedule, Tables!Schedule, Contest!Update, Tables!Update,
       Contest!ReplaceToday, Tables!ReplaceToday, Contest!Editable, Tables!Editable
  <1>7. ASSUME NEW p, NEW ts, Contest!Delete(p, ts) PROVE Tables!Delete(p, ts)
    BY <1>7 DEF Contest!Delete, Tables!Delete, Contest!Editable, Tables!Editable
  <1>8. Contest!ScheduledRows = Tables!ScheduledRows
    BY DEF Contest!ScheduledRows, Tables!ScheduledRows
  <1>9. ASSUME NEW p \in Puzzles, NEW ts, Contest!Step(p, ts) PROVE Tables!Step(p, ts)
    BY <1>1, <1>2, <1>3, <1>4, <1>6, <1>7, <1>8, <1>9 DEF Contest!Step, Tables!Step
  <1>10. Contest!Tick => Tables!Tick
    BY DEF Contest!Tick, Tables!Tick
  <1> QED
    BY <1>9, <1>10 DEF Contest!Next, Tables!Next, Contest!vars, Tables!vars

(* and so the behaviours. *)
LEMMA SpecTables == Spec => Tables!Spec
  <1>1. Contest!Init => Tables!Init
    BY SameInit
  <1>2. [Contest!Next]_(Contest!vars) => [Tables!Next]_(Tables!vars)
    BY SameNext
  <1> QED
    BY <1>1, <1>2, RefinementCorrect, PTL DEF ImplementsContest, Contest!Spec, Tables!Spec

(* The seeded puzzles meet the assumption of the instance.                 *)
LEMMA TablesSeed ==
  Seed \in [Puzzles -> [date: Tables!Dates, answer: Answers, hint: Letters] \cup {None}]
  BY SeedAssumption, TablesConstants

-----------------------------------------------------------------------------
(* The properties, of the server *)

(* Whatever raced at midnight, no game runs on a puzzle that was           *)
(* finalized, and it was finalized after its expiry.                       *)
THEOREM ServerFinalizedOver == Spec => []FinalizedIsOver
  <1>1. Tables!Spec => []Tables!FinalizedIsOver
    BY Tables!FinalizedOver, SeedAssumption, NamesAssumption, BoundsAssumption, TablesSeed
  <1>2. Tables!FinalizedIsOver => FinalizedIsOver
    BY DEF Tables!FinalizedIsOver, FinalizedIsOver, Contest!FinalizedIsOver
  <1> QED
    BY <1>1, <1>2, SpecTables, PTL

(* The frozen average and penalty are those of the COMPLETED games: no     *)
(* completion slips in between finalizePuzzle's average and its commit.    *)
THEOREM ServerFrozenCorrect == Spec => []FrozenMatchesGames
  <1>1. Tables!Spec => []Tables!FrozenMatchesGames
    BY Tables!FrozenCorrect, SeedAssumption, NamesAssumption, BoundsAssumption, TablesSeed
  <1>2. Tables!FrozenMatchesGames => FrozenMatchesGames
    BY SameFrozen, SameTimes, TablesFrozen, TablesConstants
    DEF Tables!FrozenMatchesGames, FrozenMatchesGames, Contest!FrozenMatchesGames
  <1> QED
    BY <1>1, <1>2, SpecTables, PTL

(* Concurrent guesses neither lose nor repeat a number, and a game's       *)
(* status is the one its guess rows give against the puzzle's answer.      *)
THEOREM ServerStatusExplained == Spec => []GuessesExplainStatus
  <1>1. Tables!Spec => []Tables!GuessesExplainStatus
    BY Tables!StatusExplained, SeedAssumption, NamesAssumption, BoundsAssumption, TablesSeed
  <1>2. Tables!GuessesExplainStatus => GuessesExplainStatus
    BY DEF Tables!GuessesExplainStatus, GuessesExplainStatus, Contest!GuessesExplainStatus
  <1> QED
    BY <1>1, <1>2, SpecTables, PTL

(* Starts, guesses and completion times lie within the puzzle's Manila day,*)
(* however long their transactions waited for the locks.                   *)
THEOREM ServerWithinTheDay == Spec => []PlayedWithinTheDay
  <1>1. Tables!Spec => []Tables!PlayedWithinTheDay
    BY Tables!WithinTheDay, SeedAssumption, NamesAssumption, BoundsAssumption, TablesSeed
  <1>2. Tables!PlayedWithinTheDay => PlayedWithinTheDay
    BY SameConstants, TablesConstants
    DEF Tables!PlayedWithinTheDay, PlayedWithinTheDay, Contest!PlayedWithinTheDay
  <1> QED
    BY <1>1, <1>2, SpecTables, PTL

(* A puzzle somebody started is never unscheduled or deleted again.        *)
THEOREM ServerPlayedKept == Spec => []PlayedPuzzleKept
  <1>1. Tables!Spec => []Tables!PlayedPuzzleKept
    BY Tables!PlayedKept, SeedAssumption, NamesAssumption, BoundsAssumption, TablesSeed
  <1>2. Tables!PlayedPuzzleKept => PlayedPuzzleKept
    BY DEF Tables!PlayedPuzzleKept, PlayedPuzzleKept, Contest!PlayedPuzzleKept
  <1> QED
    BY <1>1, <1>2, SpecTables, PTL

(* Racing admins leave one puzzle per date, no answer used twice, every    *)
(* hint a letter of its answer and every expiry the end of its date.       *)
THEOREM ServerScheduleSound == Spec => []SoundSchedule
  <1>1. Tables!Spec => []Tables!SoundSchedule
    BY Tables!ScheduleStaysSound, SeedAssumption, NamesAssumption, BoundsAssumption, TablesSeed
  <1>2. Tables!SoundSchedule => SoundSchedule
    BY SameConstants, SameRows, TablesConstants, TablesRows
    DEF Tables!SoundSchedule, SoundSchedule, Contest!SoundSchedule,
        Contest!ExpiresAt, Tables!ExpiresAt
  <1> QED
    BY <1>1, <1>2, SpecTables, PTL

(* No start and no activation opens a puzzle before its day.               *)
THEOREM ServerNotBeforeItsDay == Spec => []NotBeforeItsDay
  <1>1. Tables!Spec => []Tables!NotBeforeItsDay
    BY Tables!NeverBeforeItsDay, SeedAssumption, NamesAssumption, BoundsAssumption, TablesSeed
  <1>2. Tables!NotBeforeItsDay => NotBeforeItsDay
    BY SameConstants, TablesConstants
    DEF Tables!NotBeforeItsDay, NotBeforeItsDay, Contest!NotBeforeItsDay
  <1> QED
    BY <1>1, <1>2, SpecTables, PTL

(* A locked puzzle keeps its answer, hint, date and expiry: an edit that   *)
(* waited for the row while a player opened it is refused.                 *)
THEOREM ServerLockedFixed == Spec => LockedPuzzleFixed
  <1>1. Tables!Spec => Tables!LockedPuzzleFixed
    BY Tables!LockedFixed, SeedAssumption, NamesAssumption, BoundsAssumption, TablesSeed
  <1>2. Tables!LockedPuzzleFixed => LockedPuzzleFixed
    BY PTL
    DEF Tables!LockedPuzzleFixed, LockedPuzzleFixed, Contest!LockedPuzzleFixed, Tables!vars,
        Contest!vars
  <1> QED
    BY <1>1, <1>2, SpecTables, PTL

(* A FINALIZED puzzle, its games and its frozen values never change: at    *)
(* most one of any number of racing finalizations writes.                  *)
THEOREM ServerFinalForever == Spec => FinalizedForever
  <1>1. Tables!Spec => Tables!FinalizedForever
    BY Tables!FinalForever, SeedAssumption, NamesAssumption, BoundsAssumption, TablesSeed
  <1>2. Tables!FinalizedForever => FinalizedForever
    BY PTL
    DEF Tables!FinalizedForever, FinalizedForever, Contest!FinalizedForever, Tables!vars,
        Contest!vars
  <1> QED
    BY <1>1, <1>2, SpecTables, PTL

(* No game is restarted, reopened or stripped of a guess, whoever races.   *)
THEOREM ServerNeverGoBack == Spec => GamesNeverGoBack
  <1>1. Tables!Spec => Tables!GamesNeverGoBack
    BY Tables!NeverGoBack, SeedAssumption, NamesAssumption, BoundsAssumption, TablesSeed
  <1>2. Tables!GamesNeverGoBack => GamesNeverGoBack
    BY PTL
    DEF Tables!GamesNeverGoBack, GamesNeverGoBack, Contest!GamesNeverGoBack, Tables!vars,
        Contest!vars
  <1> QED
    BY <1>1, <1>2, SpecTables, PTL

-----------------------------------------------------------------------------
(* What the transactions and the reads rely on besides the locks *)

(* Two guesses of one game never meet at UNIQUE(game_id, guess_number):    *)
(* the one that writes saw the latest count under the game's lock.         *)
THEOREM ServerNumberFree == Spec => []NumberFree
  <1>1. LockInv /\ GuessesExplainStatus => NumberFree
    <2> SUFFICES ASSUME LockInv, GuessesExplainStatus, NEW t \in Players,
                        AtPc(t, "guess.write"), NumberTaken(t)
                 PROVE  FALSE
      BY DEF NumberFree
    <2> DEFINE p == Pid(t)
               u == req[t].owner
    <2>1. p \in Puzzles /\ u \in Users /\ tx[t].seen = games[p][u]
      BY DEF LockInv, TypeInv, PhasesOK, PlayerPhase, TxPhase, LocksOK, HoldsGame, GuessGame,
             AtPc, GuessPcs, GuessReq, NoPidPcs, Procs, Pid
    <2>2. games[p][u].guessCount \in Nat
      BY <2>1, BoundsAssumption DEF LockInv, TypeInv, TypeOK, GameRow
    <2>3. \A g \in guesses[p][u] : g.number <= games[p][u].guessCount /\ g.number \in Nat
      BY <2>1, BoundsAssumption
      DEF GuessesExplainStatus, Contest!GuessesExplainStatus, LockInv, TypeInv, TypeOK, GuessRow
    <2> QED
      BY <2>1, <2>2, <2>3 DEF NumberTaken, GuessNumber
  <1> QED
    BY <1>1, LocksCorrect, ServerStatusExplained, PTL

(* A game row and guess rows that are not behind it.                       *)
NotBehind(game, rows, answer) ==
  /\ \A n \in 1..game.guessCount : \E g \in rows : g.number = n
  /\ game.status = "COMPLETED" => \E g \in rows : g.word = answer

(* What getCurrentGame has read is not ahead of the guess rows it has read *)
(* or is about to read.                                                    *)
ViewSound(r) ==
  LET p == view[r].pid  u == view[r].user IN
  /\ view[r].pc \in {"guesses", "returned"} => games[p][u].status # "NONE"
  /\ view[r].pc = "guesses" => NotBehind(view[r].game, guesses[p][u], dailyPuzzles[p].answer)
  /\ view[r].pc = "returned" => NotBehind(view[r].game, view[r].guesses, dailyPuzzles[p].answer)

ViewsSound == \A r \in Readers : ViewSound(r)

(* A step of getCurrentGame itself: the tables stand still. *)
LEMMA ReadKeepsViews ==
  ASSUME TypeInv, GuessesExplainStatus, ViewsSound, NEW r \in Readers, ReaderNext(r)
  PROVE  ViewsSound'
  <1>0. /\ view \in [Readers -> ViewRecord] /\ ViewSound(r)
        /\ view[r].pc # "idle" => view[r].pid \in Puzzles /\ view[r].user \in Users
        /\ dailyPuzzles' = dailyPuzzles /\ games' = games /\ guesses' = guesses
    BY DEF TypeInv, TypeOK, PhasesOK, ViewsSound, ReaderNext, ReadPuzzle, ReadGame, ReadGuesses,
           ReadReturn, ReaderUnchanged, tables
  <1>1. ASSUME NEW x \in Readers \ {r} PROVE ViewSound(x)'
    <2>1. view'[x] = view[x]
      BY <1>0 DEF ReaderNext, ReadPuzzle, ReadGame, ReadGuesses, ReadReturn
    <2> QED
      BY <1>0, <2>1 DEF ViewsSound, ViewSound
  <1>2. ASSUME ReadReturn(r) \/ \E u \in Users : ReadPuzzle(r, u) PROVE ViewSound(r)'
    BY <1>0, <1>2 DEF ReadReturn, ReadPuzzle, IdleView, NewView, ViewSound
  <1>3. ASSUME ReadGame(r) PROVE ViewSound(r)'
    <2> DEFINE p == view[r].pid
               u == view[r].user
    <2>1. p \in Puzzles /\ u \in Users
      BY <1>0, <1>3 DEF ReadGame
    <2>2. NotBehind(games[p][u], guesses[p][u], dailyPuzzles[p].answer)
      BY <2>1 DEF NotBehind, GuessesExplainStatus, Contest!GuessesExplainStatus
    <2>3. CASE games[p][u].status = "NONE"
      BY <1>0, <1>3, <2>3 DEF ReadGame, IdleView, NewView, ViewSound
    <2>4. CASE games[p][u].status # "NONE"
      <3>1. /\ view'[r].pc = "guesses" /\ view'[r].game = games[p][u]
            /\ view'[r].pid = p /\ view'[r].user = u
        BY <1>0, <1>3, <2>4 DEF ReadGame, ViewRecord
      <3> QED
        BY <1>0, <2>2, <2>4, <3>1 DEF ViewSound
    <2> QED
      BY <2>3, <2>4
  <1>4. ASSUME ReadGuesses(r) PROVE ViewSound(r)'
    <2>1. /\ view'[r].pc = "returned" /\ view'[r].game = view[r].game
          /\ view'[r].guesses = guesses[view[r].pid][view[r].user]
          /\ view'[r].pid = view[r].pid /\ view'[r].user = view[r].user
          /\ view[r].pc = "guesses"
      BY <1>0, <1>4 DEF ReadGuesses, GuessesOf, ViewRecord
    <2> QED
      BY <1>0, <2>1 DEF ViewSound
  <1> QED
    BY <1>1, <1>2, <1>3, <1>4 DEF ReaderNext, ViewsSound

(* Nobody else writes a view. *)
LEMMA OnlyReadersRead ==
  ASSUME [Next]_vars, ~\E r \in Readers : ReaderNext(r)
  PROVE  view' = view
  <1>1. ASSUME NEW t, PlayerNext(t) PROVE view' = view
    BY <1>1
    DEF PlayerNext, StartBegin, StartFind, StartMissing, StartLock, StartRefused, StartWrite,
        GuessBegin, GuessLockPuzzle, GuessExpired, GuessLockGame, GuessRejected, GuessWrite,
        Refuse, PlayerUnchanged
  <1>2. ASSUME NEW s, SettlerNext(s) PROVE view' = view
    BY <1>2
    DEF SettlerNext, SweepSelect, FinalizeBegin, FinalizeLock, FinalizeSkip, FinalizeFails,
        FinalizeForfeit, FinalizeAverage, FinalizeWrite, SweepDone, ActivateBegin, ActivateFind,
        ActivateMissing, ActivateLock, ActivateSkip, ActivateWrite, FinalizeEnd, SettleEnd,
        SettleUnchanged
  <1>3. ASSUME NEW a, AdminNext(a) PROVE view' = view
    BY <1>3
    DEF AdminNext, ScheduleBegin, ScheduleCheck, ScheduleRefused, ScheduleWrite, ScheduleConflict,
        EditBegin, EditLock, EditRefused, EditWrite, EditConflict, DeleteWrite, Commit, Reject,
        AdminUnchanged
  <1> QED
    BY <1>1, <1>2, <1>3 DEF Next, Steady, Tick, Crash, vars

(* The reads of getCurrentGame are of different moments and hold no lock,  *)
(* but a game keeps its guesses and a started puzzle its answer: the       *)
(* answer it gives is never a game row ahead of its guesses.               *)
THEOREM ServerNotBehind == Spec => []CurrentGameNotBehind
  <1>1. Init => ViewsSound
    BY DEF Init, ViewsSound, ViewSound, IdleView, NewView
  <1>2. /\ ViewsSound /\ LockInv /\ GuessesExplainStatus /\ PlayedPuzzleKept /\ [Next]_vars
        /\ [\A p \in Puzzles : dailyPuzzles[p].lockedAt # None =>
              /\ dailyPuzzles'[p].lockedAt = dailyPuzzles[p].lockedAt
              /\ dailyPuzzles'[p].answer = dailyPuzzles[p].answer
              /\ dailyPuzzles'[p].hint = dailyPuzzles[p].hint
              /\ dailyPuzzles'[p].date = dailyPuzzles[p].date
              /\ dailyPuzzles'[p].expiresAt = dailyPuzzles[p].expiresAt]_(Contest!vars)
        /\ [\A p \in Puzzles, u \in Users : games[p][u].status # "NONE" =>
              /\ games'[p][u].startedAt = games[p][u].startedAt
              /\ games'[p][u].status # "NONE"
              /\ games[p][u].status # "ACTIVE" => games'[p][u] = games[p][u]
              /\ guesses[p][u] \subseteq guesses'[p][u]]_(Contest!vars)
        => ViewsSound'
    <2> SUFFICES
          ASSUME ViewsSound, LockInv, GuessesExplainStatus, PlayedPuzzleKept, [Next]_vars,
                 \A p \in Puzzles : dailyPuzzles[p].lockedAt # None =>
                   dailyPuzzles'[p].answer = dailyPuzzles[p].answer,
                 \A p \in Puzzles, u \in Users : games[p][u].status # "NONE" =>
                   games'[p][u].status # "NONE" /\ guesses[p][u] \subseteq guesses'[p][u]
          PROVE  ViewsSound'
      BY DEF Contest!vars
    <2>1. CASE \E r \in Readers : ReaderNext(r)
      BY <2>1, ReadKeepsViews DEF LockInv
    <2>2. CASE ~\E r \in Readers : ReaderNext(r)
      <3>1. view' = view
        BY <2>2, OnlyReadersRead
      <3> SUFFICES ASSUME NEW r \in Readers, view[r].pc \in {"guesses", "returned"}
                   PROVE  ViewSound(r)'
        BY <3>1 DEF ViewsSound, ViewSound
      <3> DEFINE p == view[r].pid
                 u == view[r].user
      <3>2. /\ p \in Puzzles /\ u \in Users /\ ViewSound(r) /\ games[p][u].status # "NONE"
        BY DEF LockInv, TypeInv, PhasesOK, ViewsSound, ViewSound
      <3>3. dailyPuzzles'[p].answer = dailyPuzzles[p].answer
        BY <3>2 DEF PlayedPuzzleKept, Contest!PlayedPuzzleKept
      <3>4. games'[p][u].status # "NONE" /\ guesses[p][u] \subseteq guesses'[p][u]
        BY <3>2
      <3> QED
        BY <3>1, <3>2, <3>3, <3>4 DEF ViewSound, NotBehind
    <2> QED
      BY <2>1, <2>2
  <1>3. ViewsSound => CurrentGameNotBehind
    BY DEF ViewsSound, ViewSound, NotBehind, CurrentGameNotBehind
  <1>4. Spec => [][\A p \in Puzzles : dailyPuzzles[p].lockedAt # None =>
              /\ dailyPuzzles'[p].lockedAt = dailyPuzzles[p].lockedAt
              /\ dailyPuzzles'[p].answer = dailyPuzzles[p].answer
              /\ dailyPuzzles'[p].hint = dailyPuzzles[p].hint
              /\ dailyPuzzles'[p].date = dailyPuzzles[p].date
              /\ dailyPuzzles'[p].expiresAt = dailyPuzzles[p].expiresAt]_(Contest!vars)
    BY ServerLockedFixed, PTL DEF LockedPuzzleFixed, Contest!LockedPuzzleFixed
  <1>5. Spec => [][\A p \in Puzzles, u \in Users : games[p][u].status # "NONE" =>
              /\ games'[p][u].startedAt = games[p][u].startedAt
              /\ games'[p][u].status # "NONE"
              /\ games[p][u].status # "ACTIVE" => games'[p][u] = games[p][u]
              /\ guesses[p][u] \subseteq guesses'[p][u]]_(Contest!vars)
    BY ServerNeverGoBack, PTL DEF GamesNeverGoBack, Contest!GamesNeverGoBack
  <1> QED
    BY <1>1, <1>2, <1>3, <1>4, <1>5, LocksCorrect, ServerStatusExplained, ServerPlayedKept, PTL
    DEF Spec

-----------------------------------------------------------------------------
(* Board reads *)

(* A board request is a record with these fields, and others.              *)
IsBoard(b) == {"pc", "due"} \subseteq DOMAIN b

(* Where each day is that the sweep of a request selected: settled, still  *)
(* in the queue, or in the transaction of the moment.                      *)
Settled(p) == dailyPuzzles[p].status = "FINALIZED"

DueSettled(s) ==
  /\ board[s].due \subseteq Puzzles
  /\ board[s].pc \in {"viewer", "returned"} => \A p \in board[s].due : Settled(p)
  /\ board[s].pc = "reconcile" =>
       /\ tx[s].pc \in {"idle", "sweep"} \cup FinalizePcs
       /\ tx[s].pc # "idle" => ~sweep[s].cron
       /\ \A p \in board[s].due :
            \/ Settled(p)
            \/ tx[s].pc \in {"sweep"} \cup FinalizePcs /\ p \in sweep[s].queue
            \/ tx[s].pc \in FinalizePcs /\ p = Pid(s)

BoardsSound ==
  /\ board = [s \in Settlers |-> board[s]]
  /\ \A s \in Settlers : IsBoard(board[s]) /\ DueSettled(s)

SettledKept == \A p \in Puzzles : Settled(p) => Settled(p)'

(* A request whose process stands still, while others move. *)
LEMMA OthersDue ==
  ASSUME NEW s \in Settlers, DueSettled(s), SettledKept,
         tx'[s] = tx[s], sweep'[s] = sweep[s], board'[s] = board[s]
  PROVE  DueSettled(s)'
  BY DEF DueSettled, SettledKept, Settled, Pid

(* What a step of the server does to the requests.                         *)
LEMMA EndWrites ==
  ASSUME TypeInv, NEW s \in Procs, NEW pc, End(s, pc)
  PROVE  tx'[s].pc = pc
  BY DEF TypeInv, TypeOK, End, NewTx

(* A step of the sweep moves a day on: taken from the queue, given up, or  *)
(* settled.                                                                *)
LEMMA ReconcileDue ==
  ASSUME RefInv, RefInv', SettledKept, NEW s \in Settlers, Reconcile(s),
         board = [x \in Settlers |-> board[x]], IsBoard(board[s]), DueSettled(s)
  PROVE  IsBoard(board'[s]) /\ DueSettled(s)'
  <1> DEFINE due == board[s].due
  <1>0. /\ tx \in [Procs -> TxRecord] /\ sweep \in [Settlers -> SweepRecord]
        /\ s \in Procs /\ tx[s] \in TxRecord /\ sweep[s] \in SweepRecord /\ TypeInv
    BY DEF RefInv, LockInv, TypeInv, TypeOK, Procs
  <1>1. /\ IsBoard(board'[s]) /\ board'[s].pc = board[s].pc
        /\ board'[s].due = due \ GaveUp(s)
    BY DEF Reconcile, IsBoard
  <1>2. /\ board'[s].due \subseteq Puzzles
        /\ board[s].pc \in {"viewer", "returned"} => \A p \in board'[s].due : Settled(p)'
    BY <1>1 DEF DueSettled, SettledKept
  <1> SUFFICES ASSUME board[s].pc = "reconcile"
               PROVE  /\ tx'[s].pc \in {"idle", "sweep"} \cup FinalizePcs
                      /\ tx'[s].pc # "idle" => ~sweep'[s].cron
                      /\ \A p \in due \ GaveUp(s) :
                           \/ Settled(p)'
                           \/ tx'[s].pc \in {"sweep"} \cup FinalizePcs /\ p \in sweep'[s].queue
                           \/ tx'[s].pc \in FinalizePcs /\ p = Pid(s)'
    BY <1>1, <1>2 DEF DueSettled
  <1>3. /\ tx[s].pc \in {"sweep"} \cup FinalizePcs /\ ~sweep[s].cron
        /\ \A p \in due :
             \/ Settled(p)'
             \/ p \in sweep[s].queue
             \/ tx[s].pc \in FinalizePcs /\ p = Pid(s)
    BY DEF Reconcile, AtPc, DueSettled, SettledKept
  <1>4. ASSUME NEW p \in Puzzles, FinalizeBegin(s, p)
        PROVE  /\ tx'[s].pc = "finalize.lock" /\ Pid(s)' = p
               /\ sweep'[s].queue = sweep[s].queue \ {p} /\ sweep'[s].cron = sweep[s].cron
               /\ tx[s].pc = "sweep"
    BY <1>0, <1>4 DEF FinalizeBegin, Begin, NewTx, AtPc, Pid, SweepRecord
  <1>5. ASSUME FinalizeLock(s) \/ FinalizeForfeit(s) \/ FinalizeAverage(s)
        PROVE  /\ tx[s].pc \in FinalizePcs /\ tx'[s].pc \in FinalizePcs /\ Pid(s)' = Pid(s)
               /\ sweep'[s].queue = sweep[s].queue /\ sweep'[s].cron = sweep[s].cron
    BY <1>0, <1>5
    DEF FinalizeLock, LockPuzzle, FinalizeForfeit, FinalizeAverage, FinalizePcs, AtPc, Pid, TxRecord,
        SweepRecord
  <1>6. ASSUME FinalizeSkip(s) \/ FinalizeWrite(s) \/ FinalizeFails(s)
        PROVE  /\ tx[s].pc \in FinalizePcs /\ tx'[s].pc = "sweep"
               /\ sweep'[s].queue = sweep[s].queue /\ sweep'[s].cron = sweep[s].cron
    BY <1>0, <1>6, EndWrites
    DEF FinalizeSkip, FinalizeWrite, FinalizeFails, FinalizeEnd, FinalizePcs, AtPc, SweepRecord
  <1>7. ASSUME SweepDone(s)
        PROVE  tx'[s].pc = "idle" /\ sweep[s].queue = {} /\ tx[s].pc = "sweep"
    BY <1>0, <1>7, EndWrites DEF SweepDone, SettleEnd, AtPc
  <1>8. CASE \E p \in Puzzles : FinalizeBegin(s, p)
    BY <1>3, <1>4, <1>8 DEF FinalizePcs
  <1>9. CASE FinalizeLock(s) \/ FinalizeForfeit(s) \/ FinalizeAverage(s)
    BY <1>3, <1>5, <1>9
  <1>10. CASE FinalizeSkip(s) \/ FinalizeWrite(s) \/ FinalizeFails(s)
    <2>1. tx[s].pc # "sweep"
      BY <1>6, <1>10 DEF FinalizePcs
    <2>2. Over(Pid(s), tx[s].ts) /\ Pid(s) \in Puzzles
      BY <1>0, <1>6, <1>10
      DEF RefInv, Checked, CheckedSettler, TypeInv, PhasesOK, TxPhase, NoPidPcs, FinalizePcs, Pid
    <2>3. dailyPuzzles'[Pid(s)].status \in {"ACTIVE", "FINALIZED"}
      <3>1. CASE FinalizeSkip(s) \/ FinalizeFails(s)
        BY <2>2, <3>1 DEF FinalizeSkip, FinalizeFails, Over, tables
      <3>2. CASE FinalizeWrite(s)
        <4>1. dailyPuzzles'[Pid(s)] = Finalized(dailyPuzzles[Pid(s)], tx[s].ts)
          BY <1>0, <2>2, <3>2 DEF FinalizeWrite, TypeInv, TypeOK
        <4>2. dailyPuzzles[Pid(s)] \in PuzzleRow
          BY <1>0, <2>2 DEF TypeInv, TypeOK
        <4> QED
          BY <4>1, <4>2 DEF Finalized, PuzzleRow
      <3> QED
        BY <1>10, <3>1, <3>2
    <2>4. \A p \in due \ GaveUp(s) : p = Pid(s) => Settled(p)'
      BY <1>6, <1>10, <2>1, <2>3 DEF GaveUp, AtPc, Settled
    <2>5. \A p \in due : Settled(p)' \/ p \in sweep[s].queue \/ p = Pid(s)
      BY <1>3
    <2> HIDE DEF due
    <2> QED
      BY <1>3, <1>6, <1>10, <2>4, <2>5
  <1>11. CASE SweepDone(s)
    BY <1>3, <1>7, <1>11 DEF FinalizePcs
  <1> QED
    BY <1>3, <1>8, <1>9, <1>10, <1>11
    DEF Reconcile, SettlerNext, SweepSelect, ActivateBegin, ActivateFind, ActivateMissing,
        ActivateLock, ActivateSkip, ActivateWrite, AtPc, FinalizePcs

(* A crash stops one process. *)
LEMMA CrashMoves ==
  ASSUME RefInv, NEW t \in Procs, Crash(t)
  PROVE  \A s \in Settlers \ {t} : tx'[s] = tx[s] /\ sweep'[s] = sweep[s]
  <1>1. /\ tx \in [Procs -> TxRecord] /\ sweep = [x \in Settlers |-> sweep[x]]
        /\ Settlers \subseteq Procs
    BY DEF RefInv, LockInv, TypeInv, TypeOK, Procs
  <1> QED
    BY <1>1 DEF Crash, End

(* The rest of the server moves no request on. *)
LEMMA OthersKeepBoards ==
  ASSUME RefInv, BoardsSound, SettledKept, Others, board' = board
  PROVE  BoardsSound'
  <1> SUFFICES ASSUME NEW s \in Settlers PROVE DueSettled(s)'
    BY DEF BoardsSound
  <1>0. DueSettled(s)
    BY DEF BoardsSound
  <1>1. CASE tx'[s] = tx[s] /\ sweep'[s] = sweep[s]
    BY <1>0, <1>1, OthersDue
  <1>2. CASE board[s].pc = "none"
    BY <1>0, <1>2 DEF DueSettled
  <1>3. CASE Tick
    BY <1>1, <1>3 DEF Tick
  <1>4. ASSUME NEW t \in Players, PlayerNext(t) \/ Crash(t)
        PROVE  tx'[s] = tx[s] /\ sweep'[s] = sweep[s]
    BY <1>4, PlayerMoves, CrashMoves, ProcsAssumption DEF Procs
  <1>5. ASSUME NEW x \in Settlers, board[x].pc = "none", Crash(x)
        PROVE  (tx'[s] = tx[s] /\ sweep'[s] = sweep[s]) \/ board[s].pc = "none"
    BY <1>5, CrashMoves DEF Procs
  <1> QED
    BY <1>1, <1>2, <1>3, <1>4, <1>5 DEF Others

(* A step of one request leaves the others where they were. *)
LEMMA RequestMoves ==
  ASSUME RefInv, BoardsSound, NEW s \in Settlers, BoardNext(s) \/ BoardCrash(s)
  PROVE  /\ board' = [x \in Settlers |-> board'[x]]
         /\ \A x \in Settlers \ {s} :
              tx'[x] = tx[x] /\ sweep'[x] = sweep[x] /\ board'[x] = board[x]
  <1>0. board = [x \in Settlers |-> board[x]] /\ s \in Procs
    BY DEF BoardsSound, Procs
  <1>1. CASE UNCHANGED vars \/ SettlerNext(s) \/ Crash(s)
    <2>1. \A x \in Settlers \ {s} : tx'[x] = tx[x] /\ sweep'[x] = sweep[x]
      BY <1>0, <1>1, SettlerMoves, CrashMoves DEF vars, Procs
    <2>2. \/ board' = board
          \/ \E r : board' = [board EXCEPT ![s] = r]
      BY DEF BoardNext, GetDayBoard, GetPeriodBoard, Reconcile, ReadBoard, ReadViewer, ReturnBoard,
             BoardCrash
    <2> QED
      BY <1>0, <2>1, <2>2
  <1>2. UNCHANGED vars \/ SettlerNext(s) \/ Crash(s)
    BY DEF BoardNext, GetDayBoard, GetPeriodBoard, Reconcile, ReadBoard, ReadViewer, ReturnBoard,
           BoardCrash, BoardUnchanged, SettlerNext
  <1> QED
    BY <1>1, <1>2

(* A step of a request: a sweep is begun with the days it selects, awaited *)
(* to its end, and only then is the board taken.                           *)
LEMMA RequestDue ==
  ASSUME RefInv, RefInv', BoardsSound, SettledKept, NEW s \in Settlers,
         BoardNext(s) \/ BoardCrash(s)
  PROVE  IsBoard(board'[s]) /\ DueSettled(s)'
  <1>0. /\ board = [x \in Settlers |-> board[x]] /\ IsBoard(board[s]) /\ DueSettled(s)
        /\ tx \in [Procs -> TxRecord] /\ sweep \in [Settlers -> SweepRecord] /\ s \in Procs
    BY DEF BoardsSound, RefInv, LockInv, TypeInv, TypeOK, Procs
  <1>1. ASSUME NEW u, NEW d, GetDayBoard(s, u, d) PROVE IsBoard(board'[s]) /\ DueSettled(s)'
    <2>1. IsBoard(board'[s]) /\ board'[s].pc = "returned" /\ board'[s].due = {}
      BY <1>0, <1>1 DEF GetDayBoard, NewBoard, IsBoard
    <2> QED
      BY <2>1 DEF DueSettled
  <1>2. ASSUME NEW u, GetPeriodBoard(s, u) PROVE IsBoard(board'[s]) /\ DueSettled(s)'
    <2>1. IsBoard(board'[s]) /\ board'[s].pc = "reconcile" /\ board'[s].due = Swept
      BY <1>0, <1>2 DEF GetPeriodBoard, NewBoard, IsBoard
    <2>2. tx'[s].pc = "sweep" /\ sweep'[s].queue = Swept /\ sweep'[s].cron = FALSE
      BY <1>0, <1>2 DEF GetPeriodBoard, SweepSelect, TxRecord
    <2>3. Swept \subseteq Puzzles
      BY DEF Swept
    <2> QED
      BY <2>1, <2>2, <2>3 DEF DueSettled
  <1>3. CASE board[s].pc = "none" /\ SweepSelect(s, TRUE) /\ UNCHANGED board
    BY <1>0, <1>3 DEF DueSettled
  <1>4. CASE Reconcile(s)
    BY <1>0, <1>4, ReconcileDue
  <1>5. CASE ReadBoard(s)
    <2>1. IsBoard(board'[s]) /\ board'[s].due = board[s].due
          /\ board'[s].pc \in {"viewer", "returned"}
      BY <1>0, <1>5 DEF ReadBoard, IsBoard
    <2>2. \A p \in board[s].due : Settled(p)
      BY <1>0, <1>5 DEF ReadBoard, Reconciled, AtPc, DueSettled, FinalizePcs
    <2> QED
      BY <1>0, <2>1, <2>2 DEF DueSettled, SettledKept
  <1>6. CASE ReadViewer(s)
    <2>1. IsBoard(board'[s]) /\ board'[s].due = board[s].due
          /\ board'[s].pc = "returned" /\ board[s].pc = "viewer"
      BY <1>0, <1>6 DEF ReadViewer, IsBoard
    <2> QED
      BY <1>0, <2>1 DEF DueSettled, SettledKept
  <1>7. CASE ReturnBoard(s) \/ BoardCrash(s)
    <2>1. board'[s] = NoBoard
      BY <1>0, <1>7 DEF ReturnBoard, BoardCrash
    <2> QED
      BY <2>1 DEF DueSettled, NoBoard, NewBoard, IsBoard
  <1> QED
    BY <1>1, <1>2, <1>3, <1>4, <1>5, <1>6, <1>7 DEF BoardNext

LEMMA ReadStep ==
  RefInv /\ RefInv' /\ BoardsSound /\ SettledKept /\ [ReadNext]_boardVars => BoardsSound'
  <1> SUFFICES ASSUME RefInv, RefInv', BoardsSound, SettledKept, [ReadNext]_boardVars
               PROVE  BoardsSound'
    OBVIOUS
  <1>1. CASE UNCHANGED boardVars
    BY <1>1, OthersDue DEF boardVars, vars, BoardsSound
  <1>2. CASE Others /\ board' = board
    BY <1>2, OthersKeepBoards
  <1>3. ASSUME NEW s \in Settlers, BoardNext(s) \/ BoardCrash(s)
        PROVE  BoardsSound'
    <2>1. IsBoard(board'[s]) /\ DueSettled(s)'
      BY <1>3, RequestDue
    <2>2. ASSUME NEW x \in Settlers \ {s} PROVE IsBoard(board'[x]) /\ DueSettled(x)'
      BY <1>3, RequestMoves, OthersDue DEF BoardsSound
    <2> QED
      BY <1>3, <2>1, <2>2, RequestMoves DEF BoardsSound
  <1> QED
    BY <1>1, <1>2, <1>3 DEF ReadNext

(* Serving boards is a behaviour of the server. *)
LEMMA ReadIsServer == ReadSpec => Spec
  <1>1. [ReadNext]_boardVars => [Next]_vars
    <2>1. Others => [Next]_vars
      BY DEF Others, Next, Steady, Procs
    <2>2. ASSUME NEW s \in Settlers, BoardNext(s) \/ BoardCrash(s) PROVE [Next]_vars
      <3>1. UNCHANGED vars \/ SettlerNext(s) \/ Crash(s)
        BY <2>2
        DEF BoardNext, GetDayBoard, GetPeriodBoard, Reconcile, ReadBoard, ReadViewer, ReturnBoard,
            BoardCrash, BoardUnchanged, SettlerNext
      <3> QED
        BY <3>1 DEF Next, Steady, Procs
    <2> QED
      BY <2>1, <2>2 DEF ReadNext, boardVars
  <1> QED
    BY <1>1, PTL DEF ReadSpec, ReadInit, Spec

(* A week or month board is taken when every expired day its sweep found   *)
(* free is FINALIZED, whoever finalized it, unless finalizing it failed:   *)
(* getBoard awaits the sweep, and a FINALIZED day stays so.                *)
THEOREM SweptDaysSettled == ReadSpec => []SweptDaysCount
  <1>1. ReadInit => BoardsSound
    BY DEF ReadInit, BoardsSound, DueSettled, IsBoard, NoBoard, NewBoard
  <1>2. BoardsSound => SweptDaysCount
    BY DEF BoardsSound, DueSettled, Settled, SweptDaysCount
  <1>3. Spec => []RefInv
    BY InitRef, RefStep, PTL DEF Spec
  <1>4. FinalizedForever => [][SettledKept]_(Contest!vars)
    <2>1. [\A p \in Puzzles : dailyPuzzles[p].status = "FINALIZED" =>
             /\ dailyPuzzles'[p] = dailyPuzzles[p] /\ frozen'[p] = frozen[p]
             /\ games'[p] = games[p] /\ guesses'[p] = guesses[p]]_(Contest!vars)
          => [SettledKept]_(Contest!vars)
      BY DEF SettledKept, Settled, Contest!vars
    <2> QED
      BY <2>1, PTL DEF FinalizedForever, Contest!FinalizedForever
  <1>5. [SettledKept]_(Contest!vars) => SettledKept
    BY DEF SettledKept, Settled, Contest!vars
  <1> QED
    BY <1>1, <1>2, <1>3, <1>4, <1>5, ReadStep, ReadIsServer, ServerFinalForever, PTL DEF ReadSpec
=============================================================================
