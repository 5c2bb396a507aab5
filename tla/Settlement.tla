----------------------------- MODULE Settlement -----------------------------
(***************************************************************************)
(* The daily settlement (server/puzzle/settlement.ts, finalize.ts): the    *)
(* sweep over expired ACTIVE puzzles, the finalization of one puzzle in a  *)
(* transaction of its own, and the activation of today's puzzle.  A cron   *)
(* invocation runs sweep and activation; a week or month board read runs   *)
(* the sweep only.                                                         *)
(***************************************************************************)
EXTENDS Database

SettleUnchanged == UNCHANGED <<now, req, view>>

(* A wrong variant: expiry tested a tick too early. *)
ExpiredSoon(p) ==
  /\ dailyPuzzles[p].status = "ACTIVE"
  /\ dailyPuzzles[p].expiresAt <= now + 1

(* The sweep's SELECT ... FOR UPDATE SKIP LOCKED runs in autocommit: it    *)
(* holds no lock afterwards and leaves out the rows locked at that moment. *)
Expired(p) ==
  /\ dailyPuzzles[p].status = "ACTIVE"
  /\ dailyPuzzles[p].expiresAt <= now

(* A wrong variant: the run settles the day before and no older one. *)
SweptYesterday ==
  {p \in Puzzles : Expired(p) /\ puzzleLock[p] = None
                    /\ dailyPuzzles[p].date = ManilaDate(now) - 1}

Swept == {p \in Puzzles : Expired(p) /\ puzzleLock[p] = None}

SweepSelect(s, cron) ==
  /\ AtPc(s, "idle")
  /\ sweep' = [sweep EXCEPT ![s] = [queue |-> Swept, cron |-> cron, frozen |-> None]]
  /\ tx' = [tx EXCEPT ![s].pc = "sweep"]
  /\ UNCHANGED <<tables, locks>>
  /\ SettleUnchanged

(* ORDER BY puzzle_date *)
Earliest(S) ==
  {p \in S : \A q \in S : dailyPuzzles[p].date <= dailyPuzzles[q].date}

-----------------------------------------------------------------------------
(* finalizePuzzle *)

FinalizeBegin(s, p) ==
  /\ AtPc(s, "sweep")
  /\ p \in Earliest(sweep[s].queue)
  /\ Begin(s, "finalize.lock", p)
  /\ sweep' = [sweep EXCEPT ![s].queue = @ \ {p}]
  /\ UNCHANGED <<tables, locks>>
  /\ SettleUnchanged

(* The puzzle's transaction is over; the loop goes on with the next row. *)
FinalizeEnd(s) ==
  /\ End(s, "sweep")
  /\ sweep' = [sweep EXCEPT ![s].frozen = None]
  /\ SettleUnchanged

Finalizable(s) == dailyPuzzles[Pid(s)].status = "ACTIVE"

FinalizeLock(s) ==
  /\ AtPc(s, "finalize.lock") /\ PuzzleFree(s)
  /\ Finalizable(s)
  /\ LockPuzzle(s, "finalize.forfeit")
  /\ UNCHANGED <<tables, sweep>>
  /\ SettleUnchanged

(* FINALIZED: the frozen record is the answer, nothing is written.  Any    *)
(* other status, or a missing row, is an error the loop logs and skips.    *)
FinalizeSkip(s) ==
  /\ AtPc(s, "finalize.lock") /\ PuzzleFree(s)
  /\ ~Finalizable(s)
  /\ FinalizeEnd(s)
  /\ UNCHANGED tables

ActiveGames(p) == {u \in Users : games[p][u].status = "ACTIVE"}

(* UPDATE games SET status = 'FORFEITED': takes the row lock of each       *)
(* ACTIVE game; the new status is visible to others at commit.             *)
FinalizeForfeit(s) ==
  LET p == Pid(s) IN
  /\ AtPc(s, "finalize.forfeit")
  /\ \A u \in ActiveGames(p) : gameLock[p][u] = None
  /\ gameLock' = [gameLock EXCEPT ![p] =
                    [u \in Users |-> IF u \in ActiveGames(p) THEN s ELSE gameLock[p][u]]]
  /\ tx' = [tx EXCEPT ![s].pc = "finalize.average"]
  /\ UNCHANGED <<tables, puzzleLock, sweep>>
  /\ SettleUnchanged

(* A wrong variant: coalesce(avg, 0), a penalty for a day nobody completed. *)
FinalizeAverageZero(s) ==
  LET times == CompletionTimes(games[Pid(s)]) IN
  /\ AtPc(s, "finalize.average")
  /\ sweep' = [sweep EXCEPT ![s].frozen =
       IF DOMAIN times = {} THEN [average |-> 0, penalty |-> Penalty] ELSE FrozenOf(times)]
  /\ tx' = [tx EXCEPT ![s].pc = "finalize.write"]
  /\ UNCHANGED <<tables, locks>>
  /\ SettleUnchanged

(* The count and the average of the COMPLETED games. *)
FinalizeAverage(s) ==
  /\ AtPc(s, "finalize.average")
  /\ sweep' = [sweep EXCEPT ![s].frozen = FrozenOf(CompletionTimes(games[Pid(s)]))]
  /\ tx' = [tx EXCEPT ![s].pc = "finalize.write"]
  /\ UNCHANGED <<tables, locks>>
  /\ SettleUnchanged

(* The forfeits, the frozen values and FINALIZED commit together. *)
FinalizeWrite(s) ==
  LET p == Pid(s) IN
  /\ AtPc(s, "finalize.write")
  /\ games' = [games EXCEPT ![p] =
                 [u \in Users |-> IF gameLock[p][u] = s THEN Forfeited(games[p][u])
                                  ELSE games[p][u]]]
  /\ dailyPuzzles' = [dailyPuzzles EXCEPT ![p] = Finalized(@, tx[s].ts)]
  /\ frozen' = [frozen EXCEPT ![p] = sweep[s].frozen]
  /\ FinalizeEnd(s)
  /\ UNCHANGED guesses

(* A failing finalization rolls back; the loop logs it and goes on. *)
FinalizeFails(s) ==
  /\ tx[s].pc \in {"finalize.lock", "finalize.forfeit", "finalize.average", "finalize.write"}
  /\ FinalizeEnd(s)
  /\ UNCHANGED tables

-----------------------------------------------------------------------------
(* activateToday, after the sweep of a cron invocation *)

SettleEnd(s) ==
  /\ End(s, "idle")
  /\ sweep' = [sweep EXCEPT ![s] = IdleSweep]
  /\ UNCHANGED tables
  /\ SettleUnchanged

SweepDone(s) ==
  /\ AtPc(s, "sweep")
  /\ sweep[s].queue = {} /\ ~sweep[s].cron
  /\ SettleEnd(s)

ActivateBegin(s) ==
  /\ AtPc(s, "sweep")
  /\ sweep[s].queue = {} /\ sweep[s].cron
  /\ Begin(s, "activate.find", None)
  /\ UNCHANGED <<tables, locks, sweep>>
  /\ SettleUnchanged

ActivateFind(s) ==
  /\ AtPc(s, "activate.find")
  /\ \E p \in OnDate(ManilaDate(tx[s].ts)) :
       tx' = [tx EXCEPT ![s].pc = "activate.lock", ![s].pid = p]
  /\ UNCHANGED <<tables, locks, sweep>>
  /\ SettleUnchanged

(* No puzzle for today: logged, never fabricated. *)
ActivateMissing(s) ==
  /\ AtPc(s, "activate.find")
  /\ OnDate(ManilaDate(tx[s].ts)) = {}
  /\ SettleEnd(s)

Activatable(s) ==
  /\ Pid(s) \in OnDate(ManilaDate(tx[s].ts))
  /\ dailyPuzzles[Pid(s)].status = "SCHEDULED"
  /\ ~OtherActive(Pid(s))

ActivateLock(s) ==
  /\ AtPc(s, "activate.lock") /\ PuzzleFree(s)
  /\ Activatable(s)
  /\ LockPuzzle(s, "activate.write")
  /\ UNCHANGED <<tables, sweep>>
  /\ SettleUnchanged

ActivateSkip(s) ==
  /\ AtPc(s, "activate.lock") /\ PuzzleFree(s)
  /\ ~Activatable(s)
  /\ SettleEnd(s)

ActivateWrite(s) ==
  /\ AtPc(s, "activate.write")
  /\ dailyPuzzles' = [dailyPuzzles EXCEPT ![Pid(s)].status = "ACTIVE"]
  /\ End(s, "idle")
  /\ sweep' = [sweep EXCEPT ![s] = IdleSweep]
  /\ UNCHANGED <<frozen, games, guesses>>
  /\ SettleUnchanged

-----------------------------------------------------------------------------
SettlerNext(s) ==
  \/ \E cron \in BOOLEAN : SweepSelect(s, cron)
  \/ \E p \in Puzzles : FinalizeBegin(s, p)
  \/ FinalizeLock(s) \/ FinalizeSkip(s)
  \/ FinalizeForfeit(s) \/ FinalizeAverage(s) \/ FinalizeWrite(s) \/ FinalizeFails(s)
  \/ SweepDone(s)
  \/ ActivateBegin(s) \/ ActivateFind(s) \/ ActivateMissing(s)
  \/ ActivateLock(s) \/ ActivateSkip(s) \/ ActivateWrite(s)
=============================================================================
