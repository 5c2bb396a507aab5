---------------------------- MODULE AdminService ----------------------------
(***************************************************************************)
(* The admin mutations of the schedule (server/admin/service.ts):          *)
(* schedulePuzzle, updatePuzzle, deletePuzzle and replaceTodayPuzzle.      *)
(* `today' in their guards is the Manila date at the start of the          *)
(* transaction.  The listing and search operations only read.              *)
(***************************************************************************)
EXTENDS Database

AdminUnchanged == UNCHANGED <<now, frozen, games, guesses, sweep, view>>

Reject(a) ==
  /\ End(a, "idle")
  /\ req' = [req EXCEPT ![a] = None]
  /\ UNCHANGED dailyPuzzles
  /\ AdminUnchanged

Commit(a, rows) ==
  /\ dailyPuzzles' = rows
  /\ End(a, "idle")
  /\ req' = [req EXCEPT ![a] = None]
  /\ AdminUnchanged

TxToday(a) == ManilaDate(tx[a].ts)

(* dateAlreadyTaken and answerAlreadyScheduled: pre-checks on what is      *)
(* committed when they run.                                                *)
DateTaken(d)       == OnDate(d) # {}
AnswerScheduled(w) == \E p \in Puzzles : Exists(p) /\ dailyPuzzles[p].answer = w

(* A wrong variant: the pre-checks are relied on. *)
NoUniqueIndex(p, row) == p = None \/ row = None

(* UNIQUE(puzzle_date) and UNIQUE(answer_id), enforced on the write. *)
UniqueViolation(p, row) ==
  \E q \in Puzzles \ {p} :
    Exists(q) /\ (dailyPuzzles[q].date = row.date \/ dailyPuzzles[q].answer = row.answer)

-----------------------------------------------------------------------------
(* schedulePuzzle *)

ScheduleBegin(a, d, w, h) ==
  /\ AtPc(a, "idle")
  /\ HintValid(h, w)
  /\ Begin(a, "schedule.check", None)
  /\ req' = [req EXCEPT ![a] = [op |-> "schedulePuzzle", date |-> d, word |-> w, hint |-> h]]
  /\ UNCHANGED <<dailyPuzzles, locks>>
  /\ AdminUnchanged

Schedulable(a) ==
  /\ req[a].date > TxToday(a)
  /\ ~DateTaken(req[a].date)
  /\ ~AnswerScheduled(req[a].word)

ScheduleCheck(a) ==
  /\ AtPc(a, "schedule.check")
  /\ Schedulable(a)
  /\ tx' = [tx EXCEPT ![a].pc = "schedule.write"]
  /\ UNCHANGED <<dailyPuzzles, locks, req>>
  /\ AdminUnchanged

ScheduleRefused(a) ==
  /\ AtPc(a, "schedule.check")
  /\ ~Schedulable(a)
  /\ Reject(a)

NewRow(a) == Scheduled(req[a].date, req[a].word, req[a].hint)

ScheduleWrite(a, p) ==
  /\ AtPc(a, "schedule.write")
  /\ dailyPuzzles[p].status = "ABSENT"
  /\ ~UniqueViolation(p, NewRow(a))
  /\ Commit(a, [dailyPuzzles EXCEPT ![p] = NewRow(a)])

(* Also the end of a request that finds every id of the bound Puzzles used.*)
ScheduleConflict(a) ==
  /\ AtPc(a, "schedule.write")
  /\ \A p \in Puzzles : dailyPuzzles[p].status = "ABSENT" => UniqueViolation(p, NewRow(a))
  /\ Reject(a)

-----------------------------------------------------------------------------
(* updatePuzzle, deletePuzzle and replaceTodayPuzzle lock the row by id,   *)
(* then check their guard on the row read under the lock.                  *)

EditBegin(a, p, op, d, w, h) ==
  /\ AtPc(a, "idle")
  /\ Exists(p)
  /\ Begin(a, "edit.lock", p)
  /\ req' = [req EXCEPT ![a] = [op |-> op, date |-> d, word |-> w, hint |-> h]]
  /\ UNCHANGED <<dailyPuzzles, locks>>
  /\ AdminUnchanged

(* Wrong variants: the guards look at the date only. *)
EditGuardByDate(a)    == dailyPuzzles[Pid(a)].date > TxToday(a)
ReplaceGuardByDate(a) == dailyPuzzles[Pid(a)].date = TxToday(a)

(* editGuardViolation / replaceTodayGuardViolation *)
EditGuard(a) ==
  LET row == dailyPuzzles[Pid(a)] IN
  row.lockedAt = None /\ row.status = "SCHEDULED" /\ row.date > TxToday(a)

ReplaceGuard(a) ==
  LET row == dailyPuzzles[Pid(a)] IN
  row.lockedAt = None /\ row.status = "SCHEDULED" /\ row.date = TxToday(a)

(* The row an edit asks for; a field the patch leaves out is None. *)
Or(new, old) == IF new = None THEN old ELSE new

EditedExpiry(a, row) ==
  IF req[a].op = "updatePuzzle" /\ Or(req[a].date, row.date) = row.date
  THEN row.expiresAt
  ELSE ExpiresAt(Or(req[a].date, row.date))

Edited(a, row) ==
  [row EXCEPT !.answer = Or(req[a].word, row.answer),
              !.hint = Or(req[a].hint, row.hint),
              !.date = Or(req[a].date, row.date),
              !.expiresAt = EditedExpiry(a, row)]

(* A new answer or date must be free, a new date in the future, and the    *)
(* final hint a letter of the final answer.                                *)
EditValid(a) ==
  LET row == dailyPuzzles[Pid(a)]  new == Edited(a, row) IN
  /\ new.answer # row.answer => ~AnswerScheduled(new.answer)
  /\ HintValid(new.hint, new.answer)
  /\ req[a].date # None => req[a].date > TxToday(a)
  /\ new.date # row.date => ~DateTaken(new.date)

EditAllowed(a) ==
  /\ Exists(Pid(a))
  /\ \/ req[a].op = "updatePuzzle" /\ EditGuard(a) /\ EditValid(a)
     \/ req[a].op = "deletePuzzle" /\ EditGuard(a)
     \/ req[a].op = "replaceTodayPuzzle" /\ ReplaceGuard(a) /\ EditValid(a)

EditLock(a) ==
  /\ AtPc(a, "edit.lock") /\ PuzzleFree(a)
  /\ EditAllowed(a)
  /\ LockPuzzle(a, "edit.write")
  /\ UNCHANGED <<dailyPuzzles, req>>
  /\ AdminUnchanged

EditRefused(a) ==
  /\ AtPc(a, "edit.lock") /\ PuzzleFree(a)
  /\ ~EditAllowed(a)
  /\ Reject(a)

EditedRow(a) == Edited(a, tx[a].row)

EditWrite(a) ==
  /\ AtPc(a, "edit.write") /\ req[a].op # "deletePuzzle"
  /\ ~UniqueViolation(Pid(a), EditedRow(a))
  /\ Commit(a, [dailyPuzzles EXCEPT ![Pid(a)] = EditedRow(a)])

EditConflict(a) ==
  /\ AtPc(a, "edit.write") /\ req[a].op # "deletePuzzle"
  /\ UniqueViolation(Pid(a), EditedRow(a))
  /\ Reject(a)

DeleteWrite(a) ==
  /\ AtPc(a, "edit.write") /\ req[a].op = "deletePuzzle"
  /\ Commit(a, [dailyPuzzles EXCEPT ![Pid(a)] = Deleted])

-----------------------------------------------------------------------------
(* Requests as the handlers' schemas admit them: a patch of updatePuzzle   *)
(* may leave out any field, replaceTodayPuzzle carries word and hint.      *)
AdminNext(a) ==
  \/ \E d \in Dates, w \in Answers, h \in Letters : ScheduleBegin(a, d, w, h)
  \/ ScheduleCheck(a) \/ ScheduleRefused(a)
  \/ \E p \in Puzzles : ScheduleWrite(a, p)
  \/ ScheduleConflict(a)
  \/ \E p \in Puzzles, d \in Dates \cup {None}, w \in Answers \cup {None},
       h \in Letters \cup {None} :
         ~(d = None /\ w = None /\ h = None) /\ EditBegin(a, p, "updatePuzzle", d, w, h)
  \/ \E p \in Puzzles : EditBegin(a, p, "deletePuzzle", None, None, None)
  \/ \E p \in Puzzles, w \in Answers, h \in Letters :
       EditBegin(a, p, "replaceTodayPuzzle", None, w, h)
  \/ EditLock(a) \/ EditRefused(a)
  \/ EditWrite(a) \/ EditConflict(a) \/ DeleteWrite(a)
=============================================================================
