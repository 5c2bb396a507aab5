----------------------------- MODULE AdminPage ------------------------------
(***************************************************************************)
(* The calendar page of one admin (routes/admin/+page.svelte,              *)
(* day-detail.svelte, shared/api/admin.ts) over a server that behaves as   *)
(* DailyContest, with other admins at work on the same schedule.  Dialogs  *)
(* cover the calendar one at a time; a dialog may be dismissed while the   *)
(* request it sent is still on its way.                                    *)
(***************************************************************************)
EXTENDS DailyContest

CONSTANTS
  MaxSaves,     \* bound: the mutations this admin sends
  MaxOthers     \* bound: the steps of the other admins

Saves == 1..MaxSaves
Ops   == {"schedule", "update", "replace", "delete"}

ASSUME AdminPageAssumption == MaxSaves \in Nat \ {0} /\ MaxOthers \in Nat

VARIABLES
  ui,       \* the component: cached list, open dialog, warning
  get,      \* the list request in flight
  saves,    \* the mutations sent so far
  commits,  \* history: the number of changes to the schedule
  others    \* the steps the other admins have taken

pageVars == <<vars, ui, get, saves, commits, others>>

(* What the page took for today when it was loaded, and the server's.      *)
today    == ui.today
sqlToday == ManilaDate(now)

NoPatch == [date |-> None, word |-> None, hint |-> None]

NoSave == [pc |-> "none", op |-> "none", pid |-> None, patch |-> NoPatch,
           row |-> None, wanted |-> NoPatch, gaps |-> {}, at |-> 0]

(* A save the page is done with. *)
Over(save) == [NoSave EXCEPT !.pc = "over", !.op = save.op]

Idle == [pc |-> "none", by |-> 0, rows |-> None, at |-> 0]
Fetch(n) == [Idle EXCEPT !.pc = "sent", !.by = n]

(* `dialog' is the day detail, a form or the delete confirmation.          *)
NoDialog == [kind |-> "none", pid |-> None, row |-> None, date |-> 0, save |-> 0]

PageInit ==
  /\ Init
  /\ ui = [today |-> sqlToday, list |-> None, failed |-> FALSE, dialog |-> NoDialog,
           gaps |-> {}, at |-> 0, acked |-> 0]
  /\ get = Fetch(0)
  /\ saves = [n \in Saves |-> NoSave]
  /\ commits = 0
  /\ others = 0

Quiet == UNCHANGED <<vars, commits, others>>

-----------------------------------------------------------------------------
(* The list *)

ServeList ==
  /\ get.pc = "sent"
  /\ get' = [get EXCEPT !.pc = "answered", !.rows = dailyPuzzles, !.at = commits]
  /\ Quiet /\ UNCHANGED <<ui, saves>>

ListArrives ==
  /\ get.pc = "answered"
  /\ ui' = [ui EXCEPT !.list = get.rows, !.failed = FALSE, !.at = get.at]
  /\ get' = Idle
  /\ Quiet /\ UNCHANGED saves

(* An error takes the calendar's place; the rows it had stay cached.       *)
ListFails ==
  /\ get.pc # "none"
  /\ ui' = [ui EXCEPT !.failed = TRUE]
  /\ get' = Idle
  /\ Quiet /\ UNCHANGED saves

Retry ==
  /\ get.pc = "none"
  /\ get' = Fetch(0)
  /\ Quiet /\ UNCHANGED <<ui, saves>>

-----------------------------------------------------------------------------
(* Dialogs *)

Pending(n) == saves[n].pc \in {"sent", "served"}

(* isPending of a mutation is that of its latest call. *)
anyBusy == \E n \in Saves : Pending(n) /\ \A m \in Saves : m > n => saves[m].op # saves[n].op

Calendar == ui.list # None /\ ~ui.failed

Listed(d) == {p \in Puzzles : IsRow(ui.list[p]) /\ ui.list[p].date = d}

Show(dialog) ==
  /\ ui' = [ui EXCEPT !.dialog = dialog]
  /\ Quiet /\ UNCHANGED <<get, saves>>

onSchedule(d) ==
  /\ Calendar /\ ui.dialog.kind = "none"
  /\ d > today /\ Listed(d) = {}
  /\ Show([NoDialog EXCEPT !.kind = "schedule", !.date = d])

onOpenDay(d) ==
  /\ Calendar /\ ui.dialog.kind = "none"
  /\ \/ /\ Listed(d) = {} /\ d <= today
        /\ Show([NoDialog EXCEPT !.kind = "day", !.date = d])
     \/ \E p \in Listed(d) :
          Show([NoDialog EXCEPT !.kind = "day", !.date = d, !.pid = p, !.row = ui.list[p]])

Open(row) == row.status = "SCHEDULED" /\ row.lockedAt = None

editable == ui.dialog.row # None /\ Open(ui.dialog.row) /\ ui.dialog.date > today

replaceable == ui.dialog.row # None /\ Open(ui.dialog.row) /\ ui.dialog.date = today

onEdit ==
  /\ ui.dialog.kind = "day" /\ editable /\ ~anyBusy
  /\ Show([ui.dialog EXCEPT !.kind = "update"])

onDelete ==
  /\ ui.dialog.kind = "day" /\ editable /\ ~anyBusy
  /\ Show([ui.dialog EXCEPT !.kind = "delete"])

onReplace ==
  /\ ui.dialog.kind = "day" /\ replaceable /\ ~anyBusy
  /\ Show([ui.dialog EXCEPT !.kind = "replace"])

(* The banner above the calendar, when today's puzzle was never started. *)
needsReplacement ==
  /\ ui.list # None /\ ui.dialog.kind = "none"
  /\ \E p \in Listed(today) :
       /\ Open(ui.list[p])
       /\ Show([NoDialog EXCEPT !.kind = "replace", !.pid = p, !.row = ui.list[p], !.date = today])

onCancel ==
  /\ ui.dialog.kind # "none"
  /\ Show(NoDialog)

-----------------------------------------------------------------------------
(* Saving *)

Unsent == {n \in Saves : saves[n].pc = "none"}

Submitting == ui.dialog.save # 0 /\ saves[ui.dialog.save].pc \in {"sent", "served", "listing"}

Send(op, patch, wanted) ==
  \E n \in Unsent :
    /\ \A m \in Unsent : n <= m
    /\ saves' = [saves EXCEPT ![n] =
         [NoSave EXCEPT !.pc = "sent", !.op = op, !.pid = ui.dialog.pid, !.patch = patch,
                        !.row = ui.dialog.row, !.wanted = wanted]]
    /\ ui' = [ui EXCEPT !.dialog.save = n]
    /\ Quiet /\ UNCHANGED get

(* A wrong variant: an edit sends every field of the form. *)
WholeForm(row, values) == values

(* handleEdit: the fields that differ from the row the form was opened on. *)
PatchOf(row, values) ==
  [date |-> IF values.date = row.date THEN None ELSE values.date,
   word |-> IF values.word = row.answer THEN None ELSE values.word,
   hint |-> IF values.hint = row.hint THEN None ELSE values.hint]

Values == [date: Dates, word: Answers, hint: Letters]

handleSchedule ==
  /\ ui.dialog.kind = "schedule" /\ ~Submitting
  /\ \E values \in Values : Send("schedule", values, values)

handleEdit ==
  /\ ui.dialog.kind = "update" /\ ~Submitting
  /\ \E values \in Values :
       LET patch == PatchOf(ui.dialog.row, values) IN
       IF patch = NoPatch THEN Show(NoDialog) ELSE Send("update", patch, values)

handleReplace ==
  /\ ui.dialog.kind = "replace" /\ ~Submitting
  /\ \E values \in {v \in Values : v.date = today} :
       Send("replace", [values EXCEPT !.date = None], values)

handleDelete ==
  /\ ui.dialog.kind = "delete" /\ ~anyBusy
  /\ Send("delete", NoPatch, NoPatch)

(* createdGaps: dates of the future that have become empty. *)
Empty(rows, d) == \A p \in Puzzles : ~(IsRow(rows[p]) /\ rows[p].date = d)
createdGaps == {d \in Dates : d > sqlToday /\ Empty(dailyPuzzles', d) /\ ~Empty(dailyPuzzles, d)}

Or(new, old) == IF new = None THEN old ELSE new

Patched(row, patch) ==
  Scheduled(Or(patch.date, row.date), Or(patch.word, row.answer), Or(patch.hint, row.hint))

Perform(save) ==
  \/ /\ save.op = "schedule"
     /\ \E p \in Puzzles :
          Schedule(p, Scheduled(save.patch.date, save.patch.word, save.patch.hint), now)
  \/ save.op = "update" /\ Update(save.pid, Patched(dailyPuzzles[save.pid], save.patch), now)
  \/ save.op = "replace" /\ ReplaceToday(save.pid, Patched(dailyPuzzles[save.pid], save.patch), now)
  \/ save.op = "delete" /\ Delete(save.pid, now)

ServeSave(n) ==
  /\ saves[n].pc \in {"sent", "orphan"}
  /\ Perform(saves[n])
  /\ commits' = commits + 1
  /\ saves' = [saves EXCEPT ![n] =
       IF @.pc = "sent" THEN [@ EXCEPT !.pc = "served", !.gaps = createdGaps, !.at = commits']
       ELSE Over(@)]
  /\ UNCHANGED <<ui, get, others>>

Later(i, j) == IF i < j THEN j ELSE i

(* A wrong variant: a list request under way is taken for the refetch. *)
JoinFetch(n) ==
  /\ saves[n].pc = "served"
  /\ saves' = [saves EXCEPT ![n].pc = "listing"]
  /\ ui' = [ui EXCEPT !.acked = Later(@, saves[n].at)]
  /\ get' = IF get.pc = "none" THEN Fetch(n) ELSE [get EXCEPT !.by = n]
  /\ Quiet

(* mutateAsync resolves: invalidateQueries drops a list request under way  *)
(* and sends another.                                                      *)
SaveArrives(n) ==
  /\ saves[n].pc = "served"
  /\ saves' = [saves EXCEPT ![n].pc = "listing"]
  /\ ui' = [ui EXCEPT !.acked = Later(@, saves[n].at)]
  /\ get' = Fetch(n)
  /\ Quiet

ClosedBy(op) == IF op = "delete" THEN {"delete"} ELSE {"schedule", "update", "replace"}

(* The refetch it waits for is through: a warning, and the dialog closes.  *)
SaveSettles(n) ==
  /\ saves[n].pc = "listing"
  /\ get.pc = "none" \/ get.by # n
  /\ saves' = [saves EXCEPT ![n] = Over(@)]
  /\ ui' = [ui EXCEPT !.gaps = IF saves[n].gaps = {} THEN @ ELSE saves[n].gaps,
                      !.dialog = IF @.kind \in ClosedBy(saves[n].op) THEN NoDialog ELSE @]
  /\ Quiet /\ UNCHANGED get

(* A refusal, or an answer that is lost on its way: the request may still  *)
(* be carried out.                                                         *)
SaveFails(n) ==
  /\ Pending(n)
  /\ saves' = [saves EXCEPT ![n] = IF @.pc = "sent" THEN [@ EXCEPT !.pc = "orphan"] ELSE Over(@)]
  /\ ui' = [ui EXCEPT !.dialog =
                IF saves[n].op = "delete" /\ @.kind = "delete" THEN NoDialog ELSE @]
  /\ Quiet /\ UNCHANGED get

-----------------------------------------------------------------------------
(* Other admins, the cron, and the day that passes. *)
OtherAdmin ==
  /\ others < MaxOthers
  /\ others' = others + 1 /\ commits' = commits + 1
  /\ \E p \in Puzzles :
       \/ \E row \in ScheduledRows :
            Schedule(p, row, now) \/ Update(p, row, now) \/ ReplaceToday(p, row, now)
       \/ Delete(p, now)
  /\ UNCHANGED <<ui, get, saves>>

(* The settlement cron opens the puzzle of the day. *)
Cron ==
  /\ \E p \in Puzzles : Activate(p, now)
  /\ commits' = commits + 1
  /\ UNCHANGED <<ui, get, saves, others>>

Midnight == Tick /\ UNCHANGED <<ui, get, saves, commits, others>>

PageNext ==
  \/ ServeList \/ ListArrives \/ ListFails \/ Retry
  \/ \E d \in Dates : onSchedule(d) \/ onOpenDay(d)
  \/ onEdit \/ onDelete \/ onReplace \/ needsReplacement \/ onCancel
  \/ handleSchedule \/ handleEdit \/ handleReplace \/ handleDelete
  \/ \E n \in Saves : ServeSave(n) \/ SaveArrives(n) \/ SaveSettles(n) \/ SaveFails(n)
  \/ OtherAdmin \/ Cron \/ Midnight

PageSpec == PageInit /\ [][PageNext]_pageVars

-----------------------------------------------------------------------------
(* Properties *)

Table   == [Puzzles -> PuzzleRow]
Patches == [date: Dates \cup {None}, word: Answers \cup {None}, hint: Letters \cup {None}]

Dialog ==
  [kind: {"none", "day", "schedule", "update", "replace", "delete"}, pid: Puzzles \cup {None},
   row: PuzzleRow \cup {None}, date: Dates, save: Saves \cup {0}]

Component ==
  [today: Dates, list: Table \cup {None}, failed: BOOLEAN, dialog: Dialog, gaps: SUBSET Dates,
   at: Nat, acked: Nat]

Mutation ==
  [pc: {"none", "sent", "served", "listing", "over", "orphan"}, op: Ops \cup {"none"},
   pid: Puzzles \cup {None}, patch: Patches, row: PuzzleRow \cup {None}, wanted: Patches,
   gaps: SUBSET Dates, at: Nat]

(* Types; a form or confirmation is about a row that could be changed when *)
(* the calendar showed it.                                                 *)
AdminTypeOK ==
  /\ ui \in Component
  /\ ui.dialog.kind \in {"update", "replace", "delete"} =>
       ui.dialog.row \in PuzzleRow /\ Open(ui.dialog.row)
  /\ saves \in [Saves -> Mutation]
  /\ \A n \in Saves :
       saves[n].pc \in {"sent", "orphan"} /\ saves[n].op # "schedule" => saves[n].pid \in Puzzles

(* "Server truth": with no list request under way the calendar, if shown,  *)
(* is at least as recent as every save the page was told of, whatever      *)
(* requests had been on their way before it.                               *)
ShowsAcknowledged == get.pc = "none" /\ Calendar => ui.acked <= ui.at

(* An edit changes only the fields the admin changed: what another admin   *)
(* did to the row while the form was open is not undone by the rest of it. *)
EditsOnlyWhatChanged ==
  [][\A n \in Saves : ServeSave(n) /\ saves[n].op = "update" =>
       LET s == saves[n]  old == dailyPuzzles[s.pid]  new == dailyPuzzles'[s.pid] IN
       /\ new.date # old.date => s.wanted.date # s.row.date
       /\ new.answer # old.answer => s.wanted.word # s.row.answer
       /\ new.hint # old.hint => s.wanted.hint # s.row.hint]_pageVars
=============================================================================
