-------------------------- MODULE AdminPageProofs ---------------------------
(***************************************************************************)
(* The safety properties of the calendar page hold in every behaviour of   *)
(* AdminPage, for every value of its constants: any number of saves, of    *)
(* steps of other admins, and of midnights.                                *)
(***************************************************************************)
EXTENDS AdminPage, DailyContestProofs, Pages, Sequences

Request == [pc: {"none", "sent", "answered"}, by: Saves \cup {0}, rows: Table \cup {None}, at: Nat]

PageShapes ==
  /\ ui \in Component /\ get \in Request
  /\ saves \in [Saves -> Mutation]
  /\ commits \in Nat /\ others \in Nat
  /\ get.pc = "answered" => get.rows \in Table

(* A row in place has an answer and a hint. *)
RowsFilled ==
  \A p \in Puzzles : IsRow(dailyPuzzles[p]) =>
    dailyPuzzles[p].answer \in Answers /\ dailyPuzzles[p].hint \in Letters

(* A form or confirmation is about a row that was open in the list.        *)
DialogSound ==
  /\ ui.dialog.row # None => ui.dialog.pid \in Puzzles
  /\ ui.dialog.kind \in {"update", "replace", "delete"} =>
       ui.dialog.row \in PuzzleRow /\ Open(ui.dialog.row) /\ ui.dialog.pid \in Puzzles

(* What is sent about a row, and what an edit sends.                       *)
SaveSound(save) ==
  save.pc \in {"sent", "orphan"} =>
    /\ save.op \in Ops
    /\ save.op = "schedule" => save.patch \in Values
    /\ save.op # "schedule" => save.pid \in Puzzles
    /\ save.op = "update" => save.patch = PatchOf(save.row, save.wanted)

(* A list request that was answered, and the list when none is under way,  *)
(* are as recent as the last save the page was told of.                    *)
Recent ==
  /\ ui.acked <= commits
  /\ \A n \in Saves : saves[n].at <= commits
  /\ get.pc = "answered" => ui.acked <= get.at
  /\ ShowsAcknowledged

AdminInv ==
  PageShapes /\ RowsFilled /\ DialogSound /\ (\A n \in Saves : SaveSound(saves[n])) /\ Recent

-----------------------------------------------------------------------------
(* The server under the page *)

(* What a mutation carried out does is one of the admin's steps. *)
LEMMA PerformStep ==
  ASSUME TableInv, RowsFilled, NEW save \in Mutation, save.pc \in {"sent", "orphan"},
         SaveSound(save), Perform(save)
  PROVE  \E p \in Puzzles : AdminStep(p, now)
  <1> USE DEF AdminStep
  <1>1. CASE save.op = "schedule"
    <2>1. Scheduled(save.patch.date, save.patch.word, save.patch.hint) \in ScheduledRows
      BY <1>1 DEF SaveSound, Values, ScheduledRows
    <2> QED
      BY <1>1, <2>1 DEF Perform
  <1>2. ASSUME save.op \in {"update", "replace"}, dailyPuzzles[save.pid].status = "SCHEDULED"
        PROVE  Patched(dailyPuzzles[save.pid], save.patch) \in ScheduledRows
    <2> DEFINE row == dailyPuzzles[save.pid]
               patch == save.patch
    <2>1. save.pid \in Puzzles /\ patch \in Patches
      BY <1>2 DEF SaveSound, Mutation
    <2>2. row \in PuzzleRow /\ IsRow(row)
      BY <1>2, <2>1 DEF TableInv, TablesType, IsRow
    <2>3. row.date \in Dates /\ row.answer \in Answers /\ row.hint \in Letters
      BY <2>1, <2>2 DEF RowsFilled, PuzzleRow
    <2>4. /\ Or(patch.date, row.date) \in Dates /\ Or(patch.word, row.answer) \in Answers
          /\ Or(patch.hint, row.hint) \in Letters
      BY <2>1, <2>3 DEF Or, Patches
    <2> QED
      BY <2>4 DEF Patched, ScheduledRows
  <1>3. CASE save.op = "update"
    <2>1. /\ Update(save.pid, Patched(dailyPuzzles[save.pid], save.patch), now)
          /\ save.pid \in Puzzles
      BY <1>3 DEF Perform, SaveSound
    <2>2. dailyPuzzles[save.pid].status = "SCHEDULED"
      BY <2>1 DEF Update, Editable
    <2> QED
      BY <1>2, <1>3, <2>1, <2>2
  <1>4. CASE save.op = "replace"
    <2>1. /\ ReplaceToday(save.pid, Patched(dailyPuzzles[save.pid], save.patch), now)
          /\ save.pid \in Puzzles
      BY <1>4 DEF Perform, SaveSound
    <2>2. dailyPuzzles[save.pid].status = "SCHEDULED"
      BY <2>1 DEF ReplaceToday, Editable
    <2> QED
      BY <1>2, <1>4, <2>1, <2>2
  <1>5. CASE save.op = "delete"
    BY <1>5 DEF Perform, SaveSound
  <1> QED
    BY <1>1, <1>3, <1>4, <1>5 DEF Perform

(* Every step of the page and of the others is a step of the contest.      *)
LEMMA ServerStep ==
  ASSUME TableInv, AdminInv, [PageNext]_pageVars
  PROVE  [Next]_vars
  <1>0. now \in Time /\ now \in Int
    BY BoundsAssumption DEF TableInv, TablesType, Time
  <1>1. ASSUME NEW n \in Saves, ServeSave(n) PROVE Next
    <2>1. /\ saves[n] \in Mutation /\ saves[n].pc \in {"sent", "orphan"} /\ SaveSound(saves[n])
          /\ Perform(saves[n])
      BY <1>1 DEF AdminInv, PageShapes, ServeSave
    <2> QED
      BY <1>0, <2>1, PerformStep DEF AdminInv, Next, Step, AdminStep
  <1>2. CASE OtherAdmin
    BY <1>0, <1>2 DEF OtherAdmin, Next, Step
  <1>3. CASE Cron
    BY <1>0, <1>3 DEF Cron, Next, Step
  <1>4. CASE Midnight
    BY <1>4 DEF Midnight, Next
  <1>5. CASE UNCHANGED vars
    BY <1>5
  <1>6. Quiet => UNCHANGED vars
    BY DEF Quiet
  <1>7. ASSUME NEW op, NEW patch, NEW wanted, Send(op, patch, wanted) PROVE Quiet
    BY <1>7 DEF Send
  <1>8. ASSUME NEW dialog, Show(dialog) PROVE Quiet
    BY <1>8 DEF Show
  <1> QED
    BY <1>1, <1>2, <1>3, <1>4, <1>5, <1>6, <1>7, <1>8
    DEF PageNext, pageVars, ServeList, ListArrives, ListFails, Retry, onSchedule, onOpenDay, onEdit,
        onDelete, onReplace, needsReplacement, onCancel, handleSchedule, handleEdit, handleReplace,
        handleDelete, SaveArrives, SaveSettles, SaveFails

(* Rows stay filled, whoever writes them. *)
LEMMA FilledStep ==
  ASSUME TableInv, RowsFilled, [Next]_vars
  PROVE  RowsFilled'
  <1> SUFFICES ASSUME NEW q \in Puzzles, IsRow(dailyPuzzles'[q])
               PROVE  dailyPuzzles'[q].answer \in Answers /\ dailyPuzzles'[q].hint \in Letters
    BY DEF RowsFilled
  <1>0. TablesType
    BY DEF TableInv
  <1>1. CASE dailyPuzzles'[q] = dailyPuzzles[q]
    BY <1>1 DEF RowsFilled
  <1>2. ASSUME NEW p \in Puzzles, NEW ts \in Time, PlayStep(p, ts)
        PROVE  dailyPuzzles'[q].answer \in Answers /\ dailyPuzzles'[q].hint \in Letters
    <2>1. /\ SameContents(dailyPuzzles'[q], dailyPuzzles[q])
          /\ IsRow(dailyPuzzles'[q]) <=> IsRow(dailyPuzzles[q])
      BY <1>0, <1>2, PlayKeepsRows
    <2> QED
      BY <2>1 DEF RowsFilled, SameContents
  <1>3. ASSUME NEW p \in Puzzles, NEW row \in ScheduledRows, Put(p, row)
        PROVE  dailyPuzzles'[q].answer \in Answers /\ dailyPuzzles'[q].hint \in Letters
    <2>1. row.answer \in Answers /\ row.hint \in Letters
      BY DEF ScheduledRows, Scheduled
    <2>2. dailyPuzzles'[q] = row \/ dailyPuzzles'[q] = dailyPuzzles[q]
      BY <1>0, <1>3 DEF Put, TablesType
    <2> QED
      BY <1>1, <2>1, <2>2
  <1>4. ASSUME NEW p \in Puzzles, NEW ts \in Time, Delete(p, ts)
        PROVE  dailyPuzzles'[q] = dailyPuzzles[q]
    BY <1>0, <1>4 DEF Delete, TablesType, Deleted, EmptyRow, IsRow
  <1>5. CASE Tick \/ UNCHANGED vars
    BY <1>1, <1>5 DEF Tick, vars
  <1> QED
    BY <1>1, <1>2, <1>3, <1>4, <1>5 DEF Next, Step, PlayStep, Schedule, Update, ReplaceToday

-----------------------------------------------------------------------------
(* Mutations *)

(* What a form sends: the values typed, or those that differ from the row  *)
(* it was opened on; about a row, it says which.                           *)
WellSent(op, patch, wanted) ==
  /\ op \in Ops /\ patch \in Patches /\ wanted \in Patches
  /\ op = "schedule" => patch \in Values
  /\ op # "schedule" => ui.dialog.pid \in Puzzles
  /\ op = "update" => patch = PatchOf(ui.dialog.row, wanted)

(* Values are patches that leave nothing out. *)
LEMMA PatchTypes ==
  /\ NoPatch \in Patches
  /\ \A v \in Values : v \in Patches /\ [v EXCEPT !.date = None] \in Patches
  /\ \A v \in Values, row \in PuzzleRow : PatchOf(row, v) \in Patches
  BY DEF NoPatch, Patches, Values, PatchOf

(* The forms send only that. *)
LEMMA FormsSendWell ==
  ASSUME PageShapes, DialogSound, handleSchedule \/ handleEdit \/ handleReplace \/ handleDelete
  PROVE  \/ Show(NoDialog)
         \/ \E op, patch, wanted : Send(op, patch, wanted) /\ WellSent(op, patch, wanted)
  <1>1. CASE handleSchedule
    <2>1. PICK v \in Values : Send("schedule", v, v)
      BY <1>1 DEF handleSchedule
    <2>2. WellSent("schedule", v, v)
      BY PatchTypes DEF WellSent, Ops
    <2> QED
      BY <2>1, <2>2
  <1>2. CASE handleEdit
    <2>1. PICK v \in Values :
            IF PatchOf(ui.dialog.row, v) = NoPatch THEN Show(NoDialog)
            ELSE Send("update", PatchOf(ui.dialog.row, v), v)
      BY <1>2 DEF handleEdit
    <2>2. ui.dialog.row \in PuzzleRow /\ ui.dialog.pid \in Puzzles
      BY <1>2 DEF handleEdit, DialogSound
    <2>3. WellSent("update", PatchOf(ui.dialog.row, v), v)
      BY <2>2, PatchTypes DEF WellSent, Ops
    <2> QED
      BY <2>1, <2>3
  <1>3. CASE handleReplace
    <2>1. PICK v \in Values : Send("replace", [v EXCEPT !.date = None], v)
      BY <1>3 DEF handleReplace
    <2>2. WellSent("replace", [v EXCEPT !.date = None], v)
      BY <1>3, PatchTypes DEF handleReplace, DialogSound, WellSent, Ops
    <2> QED
      BY <2>1, <2>2
  <1>4. CASE handleDelete
    BY <1>4, PatchTypes DEF handleDelete, DialogSound, WellSent, Ops
  <1> QED
    BY <1>1, <1>2, <1>3, <1>4

(* A mutation the page is done with has its type, and so has the unsent one. *)
LEMMA OverType ==
  /\ NoSave \in Mutation
  /\ \A save \in Mutation :
       /\ Over(save) \in Mutation /\ SaveSound(Over(save)) /\ Over(save).at = 0
  <1>1. NoSave \in Mutation
    BY PatchTypes DEF NoSave, Mutation
  <1>2. ASSUME NEW save \in Mutation
        PROVE  Over(save) \in Mutation /\ Over(save).pc = "over" /\ Over(save).at = 0
    <2>1. Over(save) \in Mutation
      BY <1>1 DEF Over, Mutation
    <2>2. Over(save).pc = "over"
      BY <1>1 DEF Over, Mutation
    <2>3. Over(save).at = 0
      BY DEF Over, NoSave
    <2> QED
      BY <2>1, <2>2, <2>3
  <1> QED
    BY <1>1, <1>2 DEF SaveSound

SavesGood ==
  /\ saves \in [Saves -> Mutation]
  /\ \A n \in Saves : SaveSound(saves[n]) /\ saves[n].at <= commits

(* One mutation changes at a time. *)
LEMMA OneSave ==
  ASSUME SavesGood, commits \in Nat, NEW n \in Saves, NEW save \in Mutation,
         saves' = [saves EXCEPT ![n] = save], SaveSound(save),
         commits' \in {commits, commits + 1}, save.at <= commits'
  PROVE  SavesGood'
  <1>1. /\ saves \in [Saves -> Mutation]
        /\ \A m \in Saves : SaveSound(saves[m]) /\ saves[m].at <= commits
    BY DEF SavesGood
  <1>2. \A m \in Saves : saves[m].at \in Nat
    BY <1>1 DEF Mutation
  <1>3. saves' \in [Saves -> Mutation]
    BY <1>1
  <1>4. ASSUME NEW m \in Saves PROVE SaveSound(saves'[m]) /\ saves'[m].at <= commits'
    <2>1. CASE m = n
      BY <1>1, <2>1
    <2>2. CASE m # n
      <3>1. saves'[m] = saves[m]
        BY <1>1, <2>2
      <3>2. saves[m].at <= commits'
        BY <1>1, <1>2
      <3> QED
        BY <1>1, <3>1, <3>2
    <2> QED
      BY <2>1, <2>2
  <1> QED
    BY <1>3, <1>4 DEF SavesGood, SaveSound

(* Sent, carried out, acknowledged, settled or failed: mutations stay good. *)
LEMMA SavesStep ==
  ASSUME AdminInv, [PageNext]_pageVars
  PROVE  SavesGood' /\ commits' \in {commits, commits + 1}
  <1>1. /\ SavesGood /\ commits \in Nat /\ PageShapes /\ DialogSound
    BY DEF AdminInv, PageShapes, Recent, SavesGood
  <1>2. \A m \in Saves : /\ saves[m] \in Mutation /\ saves[m].at \in Nat
                         /\ SaveSound(saves[m]) /\ saves[m].at <= commits
    BY <1>1 DEF Mutation, SavesGood
  <1>0. saves \in [Saves -> Mutation]
    BY <1>1 DEF SavesGood
  <1>3. ASSUME saves' = saves, commits' \in {commits, commits + 1}
        PROVE  SavesGood'
    <2>1. \A m \in Saves : saves[m].at <= commits'
      BY <1>1, <1>2, <1>3
    <2> QED
      BY <1>1, <1>3, <2>1 DEF SavesGood, SaveSound
  <1>o. \A m \in Saves : /\ Over(saves[m]) \in Mutation /\ SaveSound(Over(saves[m]))
                         /\ Over(saves[m]).at <= commits /\ Over(saves[m]).at <= commits + 1
    <2> SUFFICES ASSUME NEW m \in Saves
                 PROVE  /\ Over(saves[m]) \in Mutation /\ SaveSound(Over(saves[m]))
                        /\ Over(saves[m]).at <= commits /\ Over(saves[m]).at <= commits + 1
      OBVIOUS
    <2>1. Over(saves[m]) \in Mutation /\ SaveSound(Over(saves[m])) /\ Over(saves[m]).at = 0
      BY <1>2, OverType
    <2> QED
      BY <1>1, <2>1
  <1>4. ASSUME NEW op, NEW patch, NEW wanted, Send(op, patch, wanted), WellSent(op, patch, wanted)
        PROVE  SavesGood' /\ commits' = commits
    <2>1. PICK n \in Saves :
            /\ commits' = commits
            /\ saves' = [saves EXCEPT ![n] =
                 [NoSave EXCEPT !.pc = "sent", !.op = op, !.pid = ui.dialog.pid, !.patch = patch,
                                !.row = ui.dialog.row, !.wanted = wanted]]
      BY <1>4 DEF Send, Unsent, Quiet
    <2> DEFINE save == [NoSave EXCEPT !.pc = "sent", !.op = op, !.pid = ui.dialog.pid,
                          !.patch = patch, !.row = ui.dialog.row, !.wanted = wanted]
    <2>2. ui.dialog.pid \in Puzzles \cup {None} /\ ui.dialog.row \in PuzzleRow \cup {None}
      BY <1>1 DEF PageShapes, Component, Dialog
    <2>3. op \in Ops /\ patch \in Patches /\ wanted \in Patches
      BY <1>4 DEF WellSent
    <2>4. /\ save \in Mutation /\ save.op = op /\ save.pid = ui.dialog.pid /\ save.patch = patch
          /\ save.row = ui.dialog.row /\ save.wanted = wanted /\ save.at = 0
      <3>0. NoSave \in Mutation
        BY OverType
      <3>1. save \in Mutation
        BY <2>2, <2>3, <3>0 DEF Mutation
      <3>2. save.op = op /\ save.pid = ui.dialog.pid
        BY <3>0 DEF Mutation
      <3>3. save.patch = patch
        BY <3>0 DEF Mutation
      <3>4. save.row = ui.dialog.row
        BY <3>0 DEF Mutation
      <3>5. save.wanted = wanted
        BY <3>0 DEF Mutation
      <3>6. save.at = 0
        BY DEF NoSave
      <3> QED
        BY <3>1, <3>2, <3>3, <3>4, <3>5, <3>6
    <2>5. saves' = [saves EXCEPT ![n] = save]
      BY <2>1
    <2> HIDE DEF save
    <2>6. SaveSound(save)
      BY <1>4, <2>4 DEF WellSent, SaveSound
    <2>7. commits' \in {commits, commits + 1} /\ save.at <= commits'
      BY <1>1, <2>1, <2>4
    <2> QED
      BY <1>1, <2>1, <2>4, <2>5, <2>6, <2>7, OneSave
  <1>5. ASSUME NEW n \in Saves, ServeSave(n)
        PROVE  SavesGood' /\ commits' = commits + 1
    <2> DEFINE served == [saves[n] EXCEPT !.pc = "served", !.gaps = createdGaps, !.at = commits']
    <2>1. commits' = commits + 1 /\ commits' \in Nat
      BY <1>1, <1>5 DEF ServeSave
    <2>2. createdGaps \in SUBSET Dates
      BY DEF createdGaps
    <2>3. /\ served \in Mutation /\ served.pc = "served" /\ served.at = commits'
      <3>0. saves[n] \in Mutation
        BY <1>2
      <3>1. served \in Mutation
        BY <2>1, <2>2, <3>0 DEF Mutation
      <3>2. served.pc = "served"
        BY <3>0 DEF Mutation
      <3>3. served.at = commits'
        BY <3>0 DEF Mutation
      <3> QED
        BY <3>1, <3>2, <3>3
    <2>4. \/ saves' = [saves EXCEPT ![n] = served]
          \/ saves' = [saves EXCEPT ![n] = Over(saves[n])]
      BY <1>0, <1>5 DEF ServeSave
    <2> HIDE DEF served
    <2>5. SaveSound(served) /\ served.at <= commits'
      BY <2>1, <2>3 DEF SaveSound
    <2>6. commits' \in {commits, commits + 1}
      BY <2>1
    <2>7. CASE saves' = [saves EXCEPT ![n] = served]
      BY <1>1, <2>1, <2>3, <2>5, <2>6, <2>7, OneSave
    <2>8. CASE saves' = [saves EXCEPT ![n] = Over(saves[n])]
      <3>1. Over(saves[n]) \in Mutation /\ SaveSound(Over(saves[n])) /\ Over(saves[n]).at <= commits'
        BY <1>o, <2>1
      <3> QED
        BY <1>1, <2>1, <2>6, <2>8, <3>1, OneSave
    <2> QED
      BY <2>1, <2>4, <2>7, <2>8
  <1>6. ASSUME NEW n \in Saves, SaveArrives(n) \/ SaveSettles(n) \/ SaveFails(n)
        PROVE  SavesGood' /\ commits' = commits
    <2>1. commits' = commits /\ commits' \in {commits, commits + 1}
      BY <1>6 DEF SaveArrives, SaveSettles, SaveFails, Quiet
    <2>2. ASSUME NEW pc \in {"listing", "orphan"}, pc = "orphan" => saves[n].pc = "sent",
                 saves' = [saves EXCEPT ![n] = [saves[n] EXCEPT !.pc = pc]]
          PROVE  SavesGood'
      <3> DEFINE save == [saves[n] EXCEPT !.pc = pc]
      <3>1. save \in Mutation /\ save.pc = pc /\ save.at = saves[n].at
        <4>0. saves[n] \in Mutation
          BY <1>2
        <4>1. save \in Mutation
          BY <4>0 DEF Mutation
        <4>2. save.pc = pc /\ save.at = saves[n].at
          BY <4>0 DEF Mutation
        <4> QED
          BY <4>1, <4>2
      <3>2. /\ save.op = saves[n].op /\ save.patch = saves[n].patch
            /\ save.pid = saves[n].pid /\ save.row = saves[n].row /\ save.wanted = saves[n].wanted
        BY <1>2 DEF Mutation
      <3>3. saves' = [saves EXCEPT ![n] = save]
        BY <2>2
      <3> HIDE DEF save
      <3>4. SaveSound(saves[n]) /\ saves[n].at <= commits'
        BY <1>2, <2>1
      <3>5. SaveSound(save) /\ save.at <= commits'
        BY <2>2, <3>1, <3>2, <3>4 DEF SaveSound
      <3> QED
        BY <1>1, <2>1, <3>1, <3>3, <3>5, OneSave
    <2>3. ASSUME saves' = [saves EXCEPT ![n] = Over(saves[n])]
          PROVE  SavesGood'
      <3>1. Over(saves[n]) \in Mutation /\ SaveSound(Over(saves[n])) /\ Over(saves[n]).at <= commits'
        BY <1>o, <2>1
      <3> QED
        BY <1>1, <2>1, <2>3, <3>1, OneSave
    <2>4. CASE SaveArrives(n)
      <3>1. saves' = [saves EXCEPT ![n] = [saves[n] EXCEPT !.pc = "listing"]]
        BY <1>0, <2>4 DEF SaveArrives
      <3> QED
        BY <2>1, <2>2, <3>1
    <2>5. CASE SaveSettles(n)
      BY <1>0, <2>1, <2>3, <2>5 DEF SaveSettles
    <2>6. CASE SaveFails(n)
      BY <1>0, <2>1, <2>2, <2>3, <2>6 DEF SaveFails
    <2> QED
      BY <1>6, <2>4, <2>5, <2>6
  <1>9. ASSUME NEW dialog, Show(dialog) PROVE saves' = saves /\ commits' = commits
    BY <1>9 DEF Show, Quiet
  <1>7. ASSUME handleSchedule \/ handleEdit \/ handleReplace \/ handleDelete
        PROVE  SavesGood' /\ commits' = commits
    BY <1>1, <1>3, <1>4, <1>7, <1>9, FormsSendWell
  <1>8. CASE ServeList \/ ListArrives \/ ListFails \/ Retry \/ OtherAdmin \/ Cron \/ Midnight
             \/ UNCHANGED pageVars
    BY <1>3, <1>8
    DEF ServeList, ListArrives, ListFails, Retry, OtherAdmin, Cron, Midnight, pageVars, Quiet
  <1>b. CASE \/ onEdit \/ onDelete \/ onReplace \/ needsReplacement \/ onCancel
             \/ \E d \in Dates : onSchedule(d) \/ onOpenDay(d)
    <2>1. \E dialog : Show(dialog)
      BY <1>b DEF onSchedule, onOpenDay, onEdit, onDelete, onReplace, needsReplacement, onCancel
    <2> QED
      BY <1>3, <1>9, <2>1
  <1> QED
    BY <1>5, <1>6, <1>7, <1>8, <1>b DEF PageNext

-----------------------------------------------------------------------------
(* The component *)

DialogGood(dialog) ==
  /\ dialog \in Dialog
  /\ dialog.row # None => dialog.pid \in Puzzles
  /\ dialog.kind \in {"update", "replace", "delete"} =>
       dialog.row \in PuzzleRow /\ Open(dialog.row) /\ dialog.pid \in Puzzles

SameList ==
  /\ ui'.list = ui.list /\ ui'.failed = ui.failed
  /\ ui'.at = ui.at /\ ui'.acked = ui.acked

LEMMA NoDialogGood == DialogGood(NoDialog)
  BY BoundsAssumption DEF NoDialog, DialogGood, Dialog, Dates

(* Opening, changing and closing dialogs leaves the list alone. *)
LEMMA DialogStep ==
  ASSUME ui \in Component, NEW dialog, DialogGood(dialog), ui' = [ui EXCEPT !.dialog = dialog]
  PROVE  ui' \in Component /\ DialogSound' /\ SameList
  <1>1. dialog \in Dialog
    BY DEF DialogGood
  <1>2. ui' \in Component
    BY <1>1 DEF Component
  <1>3. ui'.dialog = dialog /\ SameList
    BY DEF Component, SameList
  <1> QED
    BY <1>2, <1>3 DEF DialogGood, DialogSound

(* Every dialog the calendar opens is about a row it lists, as it lists it. *)
LEMMA DialogsOpen ==
  ASSUME PageShapes, DialogSound,
         \/ onEdit \/ onDelete \/ onReplace \/ needsReplacement \/ onCancel
         \/ \E d \in Dates : onSchedule(d) \/ onOpenDay(d)
  PROVE  \E dialog : DialogGood(dialog) /\ Show(dialog)
  <1>0. /\ ui \in Component /\ ui.dialog \in Dialog /\ today \in Dates
        /\ ui.list # None => ui.list \in Table
    BY DEF PageShapes, Component, today
  <1>1. ASSUME NEW d \in Dates, NEW kind \in {"schedule", "day"}
        PROVE  DialogGood([NoDialog EXCEPT !.kind = kind, !.date = d])
    BY <1>1 DEF NoDialog, DialogGood, Dialog
  <1>2. ASSUME NEW d \in Dates, NEW kind \in {"day", "replace"}, NEW p \in Listed(d),
               ui.list # None, kind = "replace" => Open(ui.list[p])
        PROVE  DialogGood([NoDialog EXCEPT !.kind = kind, !.pid = p, !.row = ui.list[p], !.date = d])
    <2>1. p \in Puzzles /\ ui.list[p] \in PuzzleRow
      BY <1>0, <1>2 DEF Listed, Table
    <2> QED
      BY <1>2, <2>1 DEF NoDialog, DialogGood, Dialog
  <1>3. ASSUME NEW kind \in {"update", "delete", "replace"}, editable \/ replaceable
        PROVE  DialogGood([ui.dialog EXCEPT !.kind = kind])
    <2>1. ui.dialog.row # None /\ Open(ui.dialog.row)
      BY <1>3 DEF editable, replaceable
    <2>2. ui.dialog.row \in PuzzleRow /\ ui.dialog.pid \in Puzzles
      BY <1>0, <2>1 DEF Dialog, DialogSound
    <2> DEFINE dialog == [ui.dialog EXCEPT !.kind = kind]
    <2>3. dialog \in Dialog
      BY <1>0 DEF Dialog
    <2>4. dialog.row = ui.dialog.row /\ dialog.pid = ui.dialog.pid
      BY <1>0 DEF Dialog
    <2> QED
      BY <2>1, <2>2, <2>3, <2>4 DEF DialogGood
  <1>4. ASSUME NEW d \in Dates, onSchedule(d) PROVE \E dialog : DialogGood(dialog) /\ Show(dialog)
    BY <1>1, <1>4 DEF onSchedule
  <1>5. ASSUME NEW d \in Dates, onOpenDay(d) PROVE \E dialog : DialogGood(dialog) /\ Show(dialog)
    <2>1. ui.list # None
      BY <1>5 DEF onOpenDay, Calendar
    <2>2. CASE Show([NoDialog EXCEPT !.kind = "day", !.date = d])
      BY <1>1, <2>2
    <2>3. ASSUME NEW p \in Listed(d),
                 Show([NoDialog EXCEPT !.kind = "day", !.date = d, !.pid = p, !.row = ui.list[p]])
          PROVE  \E dialog : DialogGood(dialog) /\ Show(dialog)
      <3> DEFINE dialog == [NoDialog EXCEPT !.kind = "day", !.date = d, !.pid = p, !.row = ui.list[p]]
      <3>1. p \in Puzzles /\ ui.list[p] \in PuzzleRow
        BY <1>0, <2>1 DEF Listed, Table
      <3>2. DialogGood(dialog)
        BY <3>1 DEF NoDialog, DialogGood, Dialog
      <3> QED
        BY <2>3, <3>2
    <2> QED
      BY <1>5, <2>2, <2>3 DEF onOpenDay
  <1>6. CASE needsReplacement
    BY <1>0, <1>2, <1>6 DEF needsReplacement
  <1>7. CASE onCancel
    BY <1>7, NoDialogGood DEF onCancel
  <1>8. CASE onEdit \/ onDelete \/ onReplace
    BY <1>3, <1>8 DEF onEdit, onDelete, onReplace
  <1> QED
    BY <1>4, <1>5, <1>6, <1>7, <1>8

(* A dialog stays, or closes, or remembers what it sent. *)
LEMMA UiStep ==
  ASSUME AdminInv, [PageNext]_pageVars
  PROVE  ui' \in Component /\ DialogSound'
  <1>0. /\ ui \in Component /\ PageShapes /\ DialogSound /\ DialogGood(ui.dialog)
    BY DEF AdminInv, PageShapes, Component, DialogSound, DialogGood
  <1>1. ASSUME NEW dialog, DialogGood(dialog), ui' = [ui EXCEPT !.dialog = dialog]
        PROVE  ui' \in Component /\ DialogSound'
    BY <1>0, <1>1, DialogStep
  <1>2. CASE UNCHANGED ui
    BY <1>0, <1>2 DEF DialogSound
  <1>3. ASSUME NEW dialog, DialogGood(dialog), Show(dialog) PROVE ui' \in Component /\ DialogSound'
    BY <1>1, <1>3 DEF Show
  <1>4. ASSUME NEW op, NEW patch, NEW wanted, Send(op, patch, wanted)
        PROVE  ui' \in Component /\ DialogSound'
    <2>1. PICK n \in Saves : ui' = [ui EXCEPT !.dialog.save = n]
      BY <1>4 DEF Send, Unsent
    <2> DEFINE dialog == [ui.dialog EXCEPT !.save = n]
    <2>2. ui' = [ui EXCEPT !.dialog = dialog]
      BY <1>0, <2>1 DEF Component
    <2>3. ui.dialog \in Dialog
      BY <1>0 DEF DialogGood
    <2>4. dialog \in Dialog
      BY <2>3 DEF Dialog
    <2>5. dialog.row = ui.dialog.row /\ dialog.pid = ui.dialog.pid /\ dialog.kind = ui.dialog.kind
      BY <2>3 DEF Dialog
    <2> HIDE DEF dialog
    <2>6. DialogGood(dialog)
      BY <1>0, <2>4, <2>5 DEF DialogGood
    <2> QED
      BY <1>1, <2>2, <2>6
  <1>5. CASE ListArrives
    <2>1. get.rows \in Table /\ get.at \in Nat
      BY <1>0, <1>5 DEF PageShapes, Request, ListArrives
    <2>2. ui' = [ui EXCEPT !.list = get.rows, !.failed = FALSE, !.at = get.at]
      BY <1>5 DEF ListArrives
    <2>3. ui' \in Component
      BY <1>0, <2>1, <2>2 DEF Component
    <2>4. ui'.dialog = ui.dialog
      BY <1>0, <2>2 DEF Component
    <2> QED
      BY <1>0, <2>3, <2>4 DEF DialogSound
  <1>6. CASE ListFails
    <2>1. ui' = [ui EXCEPT !.failed = TRUE]
      BY <1>6 DEF ListFails
    <2>2. ui' \in Component /\ ui'.dialog = ui.dialog
      BY <1>0, <2>1 DEF Component
    <2> QED
      BY <1>0, <2>2 DEF DialogSound
  <1>7. ASSUME NEW n \in Saves, SaveArrives(n)
        PROVE  ui' \in Component /\ DialogSound'
    <2>1. ui.acked \in Nat /\ saves[n].at \in Nat
      BY <1>0 DEF PageShapes, Component, Mutation
    <2>2. Later(ui.acked, saves[n].at) \in Nat
      BY <2>1 DEF Later
    <2>3. ui' = [ui EXCEPT !.acked = Later(ui.acked, saves[n].at)]
      BY <1>0, <1>7 DEF SaveArrives, Component
    <2> HIDE DEF Later
    <2>4. ui' \in Component /\ ui'.dialog = ui.dialog
      BY <1>0, <2>2, <2>3 DEF Component
    <2> QED
      BY <1>0, <2>4 DEF DialogSound
  <1>8. ASSUME NEW n \in Saves, SaveSettles(n)
        PROVE  ui' \in Component /\ DialogSound'
    <2>1. saves[n].gaps \in SUBSET Dates /\ ui.gaps \in SUBSET Dates
      BY <1>0 DEF PageShapes, Component, Mutation
    <2>2. PICK gaps \in SUBSET Dates, dialog \in {NoDialog, ui.dialog} :
            ui' = [ui EXCEPT !.gaps = gaps, !.dialog = dialog]
      BY <1>0, <1>8, <2>1 DEF SaveSettles, Component
    <2>3. DialogGood(dialog)
      BY <1>0, NoDialogGood
    <2>4. dialog \in Dialog
      BY <2>3 DEF DialogGood
    <2>5. ui' \in Component
      BY <1>0, <2>2, <2>4 DEF Component
    <2>6. ui'.dialog = dialog
      BY <1>0, <2>2 DEF Component
    <2> QED
      BY <2>3, <2>5, <2>6 DEF DialogSound, DialogGood
  <1>9. ASSUME NEW n \in Saves, SaveFails(n)
        PROVE  ui' \in Component /\ DialogSound'
    <2>1. PICK dialog \in {NoDialog, ui.dialog} : ui' = [ui EXCEPT !.dialog = dialog]
      BY <1>0, <1>9 DEF SaveFails, Component
    <2>2. DialogGood(dialog)
      BY <1>0, NoDialogGood
    <2> QED
      BY <1>1, <2>1, <2>2
  <1>10. CASE handleSchedule \/ handleEdit \/ handleReplace \/ handleDelete
    BY <1>0, <1>3, <1>4, <1>10, NoDialogGood, FormsSendWell
  <1>11. CASE \/ onEdit \/ onDelete \/ onReplace \/ needsReplacement \/ onCancel
              \/ \E d \in Dates : onSchedule(d) \/ onOpenDay(d)
    BY <1>0, <1>3, <1>11, DialogsOpen
  <1>12. CASE ServeList \/ Retry \/ OtherAdmin \/ Cron \/ Midnight \/ UNCHANGED pageVars
              \/ \E n \in Saves : ServeSave(n)
    BY <1>2, <1>12 DEF ServeList, Retry, OtherAdmin, Cron, Midnight, pageVars, ServeSave
  <1> QED
    BY <1>5, <1>6, <1>7, <1>8, <1>9, <1>10, <1>11, <1>12 DEF PageNext

-----------------------------------------------------------------------------
(* The list *)

LEMMA FetchType ==
  /\ Idle \in Request /\ Idle.pc = "none"
  /\ \A n \in Saves \cup {0} : Fetch(n) \in Request /\ Fetch(n).pc = "sent"
  <1>1. Idle \in Request /\ Idle.pc = "none"
    BY DEF Idle, Request
  <1>2. ASSUME NEW n \in Saves \cup {0} PROVE Fetch(n) \in Request /\ Fetch(n).pc = "sent"
    <2>1. Fetch(n) \in Request
      BY <1>1 DEF Fetch, Request
    <2>2. Fetch(n).pc = "sent"
      BY <1>1 DEF Fetch, Request
    <2> QED
      BY <2>1, <2>2
  <1> QED
    BY <1>1, <1>2

(* A list served now is as recent as anything the page was told of, and    *)
(* being told of a save drops every list request sent before.              *)
RequestGood ==
  /\ get \in Request /\ others \in Nat
  /\ get.pc = "answered" => get.rows \in Table /\ ui.acked <= get.at
  /\ ui.acked <= commits /\ ShowsAcknowledged

LEMMA RequestStep ==
  ASSUME TableInv, AdminInv, [PageNext]_pageVars
  PROVE  RequestGood'
  <1>0. /\ RequestGood /\ ui \in Component /\ PageShapes /\ DialogSound /\ commits \in Nat
        /\ dailyPuzzles \in Table
        /\ \A n \in Saves : saves[n].at <= commits
    BY DEF AdminInv, PageShapes, Recent, RequestGood, TableInv, TablesType, Table
  <1>a. ui.acked \in Nat /\ ui.at \in Nat /\ get.at \in Nat /\ commits' \in Nat
        /\ commits <= commits'
    <2>1. commits' \in {commits, commits + 1}
      BY SavesStep
    <2>2. ui.acked \in Nat /\ ui.at \in Nat /\ get.at \in Nat
      BY <1>0 DEF Component, RequestGood, Request
    <2> QED
      BY <1>0, <2>1, <2>2
  <1>1. ASSUME SameList, get' = get, others' \in Nat PROVE RequestGood'
    <2>1. ui'.acked <= commits'
      BY <1>0, <1>1, <1>a DEF RequestGood, SameList
    <2> QED
      BY <1>0, <1>1, <2>1 DEF RequestGood, SameList, ShowsAcknowledged, Calendar
  <1>2. others' = others => others' \in Nat
    BY <1>0 DEF RequestGood
  <1>3. UNCHANGED ui => SameList
    BY DEF SameList
  <1>4. ASSUME NEW dialog, DialogGood(dialog), ui' = [ui EXCEPT !.dialog = dialog] PROVE SameList
    BY <1>0, <1>4, DialogStep
  <1>5. CASE ServeList
    <2>1. /\ get' = [get EXCEPT !.pc = "answered", !.rows = dailyPuzzles, !.at = commits]
          /\ ui' = ui /\ others' = others /\ commits' = commits
      BY <1>5 DEF ServeList, Quiet
    <2>2. get \in Request
      BY <1>0 DEF RequestGood
    <2>3. get' \in Request
      BY <1>0, <2>1, <2>2 DEF Request
    <2>4. get'.pc = "answered"
      BY <2>1, <2>2 DEF Request
    <2>5. get'.rows = dailyPuzzles
      BY <2>1, <2>2 DEF Request
    <2>6. get'.at = commits
      BY <2>1, <2>2 DEF Request
    <2> QED
      BY <1>0, <1>2, <2>1, <2>3, <2>4, <2>5, <2>6 DEF RequestGood, ShowsAcknowledged
  <1>6. CASE ListArrives
    <2>1. /\ get.pc = "answered" /\ ui' = [ui EXCEPT !.list = get.rows, !.failed = FALSE, !.at = get.at]
          /\ get' = Idle /\ others' = others /\ commits' = commits
      BY <1>6 DEF ListArrives, Quiet
    <2>2. ui'.acked = ui.acked /\ ui'.at = get.at
      BY <1>0, <2>1 DEF Component
    <2> QED
      BY <1>0, <1>2, <2>1, <2>2, FetchType DEF RequestGood, ShowsAcknowledged
  <1>7. CASE ListFails
    <2>1. /\ ui' = [ui EXCEPT !.failed = TRUE]
          /\ get' = Idle /\ others' = others /\ commits' = commits
      BY <1>7 DEF ListFails, Quiet
    <2>2. ui'.acked = ui.acked /\ ui'.failed = TRUE
      BY <1>0, <2>1 DEF Component
    <2> QED
      BY <1>0, <1>2, <2>1, <2>2, FetchType DEF RequestGood, ShowsAcknowledged, Calendar
  <1>8. CASE Retry
    <2>1. /\ ui' = ui /\ get' = Fetch(0) /\ others' = others /\ commits' = commits
      BY <1>8 DEF Retry, Quiet
    <2>2. get' \in Request /\ get'.pc = "sent"
      BY <2>1, FetchType
    <2> QED
      BY <1>0, <1>2, <2>1, <2>2 DEF RequestGood, ShowsAcknowledged
  <1>9. ASSUME NEW n \in Saves, SaveArrives(n) PROVE RequestGood'
    <2>1. /\ ui' = [ui EXCEPT !.acked = Later(ui.acked, saves[n].at)]
          /\ get' = Fetch(n) /\ others' = others /\ commits' = commits
      BY <1>0, <1>9 DEF SaveArrives, Quiet, Component
    <2>2. ui'.acked = Later(ui.acked, saves[n].at)
      BY <1>0, <2>1 DEF Component
    <2>3. ui'.acked <= commits
      BY <1>0, <2>2 DEF Later, RequestGood
    <2>4. get' \in Request /\ get'.pc = "sent"
      BY <2>1, FetchType
    <2> QED
      BY <1>2, <2>1, <2>3, <2>4 DEF RequestGood, ShowsAcknowledged
  <1>10. ASSUME NEW n \in Saves, SaveSettles(n) PROVE RequestGood'
    <2>1. /\ get' = get /\ others' = others
          /\ \E gaps, dialog : ui' = [ui EXCEPT !.gaps = gaps, !.dialog = dialog]
      BY <1>10 DEF SaveSettles, Quiet
    <2>2. SameList
      BY <1>0, <2>1 DEF Component, SameList
    <2> QED
      BY <1>1, <1>2, <2>1, <2>2
  <1>11. ASSUME NEW n \in Saves, SaveFails(n) PROVE RequestGood'
    <2>1. /\ get' = get /\ others' = others
          /\ \E dialog : ui' = [ui EXCEPT !.dialog = dialog]
      BY <1>11 DEF SaveFails, Quiet
    <2>2. SameList
      BY <1>0, <2>1 DEF Component, SameList
    <2> QED
      BY <1>1, <1>2, <2>1, <2>2
  <1>12. ASSUME NEW dialog, Show(dialog) PROVE RequestGood'
    <2>1. /\ get' = get /\ others' = others /\ ui' = [ui EXCEPT !.dialog = dialog]
      BY <1>12 DEF Show, Quiet
    <2>2. SameList
      BY <1>0, <2>1 DEF Component, SameList
    <2> QED
      BY <1>1, <1>2, <2>1, <2>2
  <1>13. ASSUME NEW op, NEW patch, NEW wanted, Send(op, patch, wanted) PROVE RequestGood'
    <2>1. /\ get' = get /\ others' = others
          /\ \E n \in Saves : ui' = [ui EXCEPT !.dialog.save = n]
      BY <1>13 DEF Send, Unsent, Quiet
    <2>2. SameList
      BY <1>0, <2>1 DEF Component, SameList
    <2> QED
      BY <1>1, <1>2, <2>1, <2>2
  <1>14. CASE handleSchedule \/ handleEdit \/ handleReplace \/ handleDelete
    BY <1>0, <1>12, <1>13, <1>14, FormsSendWell
  <1>15. CASE \/ onEdit \/ onDelete \/ onReplace \/ needsReplacement \/ onCancel
              \/ \E d \in Dates : onSchedule(d) \/ onOpenDay(d)
    BY <1>0, <1>12, <1>15, DialogsOpen
  <1>16. CASE OtherAdmin
    BY <1>0, <1>1, <1>3, <1>16 DEF OtherAdmin, RequestGood
  <1>17. CASE Cron \/ Midnight \/ UNCHANGED pageVars \/ \E n \in Saves : ServeSave(n)
    BY <1>1, <1>2, <1>3, <1>17 DEF Cron, Midnight, pageVars, ServeSave
  <1> QED
    BY <1>5, <1>6, <1>7, <1>8, <1>9, <1>10, <1>11, <1>14, <1>15, <1>16, <1>17 DEF PageNext

-----------------------------------------------------------------------------
(* The invariant *)

LEMMA AdminInitInv == PageInit => TableInv /\ AdminInv
  <1> SUFFICES ASSUME PageInit PROVE TableInv /\ AdminInv
    OBVIOUS
  <1>1. TableInv
    BY TableInit DEF PageInit
  <1>2. 0 \in Dates /\ sqlToday = 0
    BY BoundsAssumption DEF PageInit, Init, sqlToday, ManilaDate, Dates
  <1>3. NoDialog \in Dialog /\ DialogGood(NoDialog)
    BY NoDialogGood DEF DialogGood
  <1>4. ui \in Component
    BY <1>2, <1>3 DEF PageInit, Component
  <1>5. ui.dialog = NoDialog /\ ui.acked = 0 /\ saves = [n \in Saves |-> NoSave] /\ commits = 0
        /\ get = Fetch(0) /\ others = 0
    BY DEF PageInit
  <1>6. get \in Request /\ get.pc = "sent"
    BY <1>5, FetchType
  <1>7. PageShapes
    BY <1>4, <1>5, <1>6, OverType DEF PageShapes
  <1>8. DialogSound
    BY <1>3, <1>5 DEF DialogGood, DialogSound
  <1>9. \A n \in Saves : SaveSound(saves[n]) /\ saves[n].at <= commits
    BY <1>5 DEF NoSave, SaveSound
  <1>10. Recent
    BY <1>5, <1>6, <1>9 DEF Recent, ShowsAcknowledged
  <1>11. RowsFilled
    <2> SUFFICES ASSUME NEW p \in Puzzles, IsRow(dailyPuzzles[p])
                 PROVE  dailyPuzzles[p].answer \in Answers /\ dailyPuzzles[p].hint \in Letters
      BY DEF RowsFilled
    <2>1. dailyPuzzles[p] = InitialRow(Seed[p])
      BY DEF PageInit, Init, InitialPuzzles
    <2>2. CASE Seed[p] = None
      BY <2>1, <2>2 DEF InitialRow, NoRow, EmptyRow, IsRow
    <2>3. CASE Seed[p] # None
      BY <2>1, <2>3, SeedAssumption DEF InitialRow, Scheduled
    <2> QED
      BY <2>2, <2>3
  <1> QED
    BY <1>1, <1>7, <1>8, <1>9, <1>10, <1>11 DEF AdminInv

(* The tables' invariant and the calendar page's are inductive together.   *)
LEMMA AdminInvStep == TableInv /\ AdminInv /\ [PageNext]_pageVars => TableInv' /\ AdminInv'
  <1> SUFFICES ASSUME TableInv, AdminInv, [PageNext]_pageVars PROVE TableInv' /\ AdminInv'
    OBVIOUS
  <1>1. [Next]_vars
    BY ServerStep
  <1>2. TableInv' /\ RowsFilled'
    BY <1>1, TableStep, FilledStep DEF AdminInv
  <1>3. SavesGood' /\ commits' \in {commits, commits + 1} /\ commits \in Nat
    BY SavesStep DEF AdminInv, PageShapes
  <1>4. ui' \in Component /\ DialogSound'
    BY UiStep
  <1>5. RequestGood'
    BY RequestStep
  <1>6. PageShapes'
    BY <1>3, <1>4, <1>5 DEF PageShapes, RequestGood, SavesGood
  <1>7. Recent'
    BY <1>3, <1>5 DEF Recent, RequestGood, SavesGood
  <1> QED
    BY <1>2, <1>3, <1>4, <1>6, <1>7 DEF AdminInv, SavesGood

-----------------------------------------------------------------------------
(* What holds of the calendar page *)

(* What every dialog, mutation and list request is, and how recent.        *)
THEOREM AdminCorrect == PageSpec => [](TableInv /\ AdminInv)
  <1> QED
    BY AdminInitInv, AdminInvStep, PTL DEF PageSpec

(* The server under the page is the daily contest: all that is proved of   *)
(* its tables holds beside the admins, whatever their forms send it.       *)
THEOREM AdminServerIsContest == PageSpec => Spec
  <1>1. PageInit => Init
    BY DEF PageInit
  <1>2. TableInv /\ AdminInv /\ [PageNext]_pageVars => [Next]_vars
    BY ServerStep
  <1> QED
    BY <1>1, <1>2, AdminCorrect, PTL DEF PageSpec, Spec

(* Types, and a form or confirmation only about a row that could be        *)
(* changed when the calendar showed it.                                    *)
THEOREM AdminTyped == PageSpec => []AdminTypeOK
  <1>1. AdminInv => AdminTypeOK
    BY DEF AdminInv, PageShapes, DialogSound, SaveSound, AdminTypeOK
  <1> QED
    BY <1>1, AdminCorrect, PTL

(* With no list request under way the calendar is at least as recent as    *)
(* every save the page was told of: invalidateQueries cancels the list     *)
(* requests that were on their way before it.                              *)
THEOREM CalendarIsRecent == PageSpec => []ShowsAcknowledged
  <1>1. AdminInv => ShowsAcknowledged
    BY DEF AdminInv, Recent
  <1> QED
    BY <1>1, AdminCorrect, PTL

(* An edit changes only the fields the admin changed, whatever has become  *)
(* of the row since the form was opened on it.                             *)
THEOREM EditsMinimal == PageSpec => EditsOnlyWhatChanged
  <1> DEFINE Minimal == \A n \in Saves : ServeSave(n) /\ saves[n].op = "update" =>
               LET s == saves[n]  old == dailyPuzzles[s.pid]  new == dailyPuzzles'[s.pid] IN
               /\ new.date # old.date => s.wanted.date # s.row.date
               /\ new.answer # old.answer => s.wanted.word # s.row.answer
               /\ new.hint # old.hint => s.wanted.hint # s.row.hint
  <1>1. TableInv /\ AdminInv /\ [PageNext]_pageVars => Minimal
    <2> SUFFICES ASSUME TableInv, AdminInv, NEW n \in Saves, ServeSave(n), saves[n].op = "update"
                 PROVE  LET s == saves[n]  old == dailyPuzzles[s.pid]  new == dailyPuzzles'[s.pid] IN
                        /\ new.date # old.date => s.wanted.date # s.row.date
                        /\ new.answer # old.answer => s.wanted.word # s.row.answer
                        /\ new.hint # old.hint => s.wanted.hint # s.row.hint
      OBVIOUS
    <2> DEFINE s == saves[n]
               old == dailyPuzzles[s.pid]
               new == dailyPuzzles'[s.pid]
    <2>1. /\ s.pc \in {"sent", "orphan"} /\ s.pid \in Puzzles /\ s.patch = PatchOf(s.row, s.wanted)
          /\ Update(s.pid, Patched(old, s.patch), now)
      BY DEF AdminInv, SaveSound, ServeSave, Perform
    <2>2. new = Patched(old, s.patch)
      BY <2>1 DEF Update, Put, TableInv, TablesType
    <2>3. /\ new.date = Or(s.patch.date, old.date) /\ new.answer = Or(s.patch.word, old.answer)
          /\ new.hint = Or(s.patch.hint, old.hint)
      BY <2>2 DEF Patched, Scheduled
    <2>4. /\ s.wanted.date = s.row.date => s.patch.date = None
          /\ s.wanted.word = s.row.answer => s.patch.word = None
          /\ s.wanted.hint = s.row.hint => s.patch.hint = None
      BY <2>1 DEF PatchOf
    <2> QED
      BY <2>3, <2>4 DEF Or
  <1> QED
    BY <1>1, AdminCorrect, PTL DEF PageSpec, EditsOnlyWhatChanged

-----------------------------------------------------------------------------
(* The puzzle form, for every number of texts and whatever they match *)

SearchQueries == [now: FormTexts, last: FormTexts \cup {Nothing}]
SearchCaches  == [FormTexts -> {"none", "sent", "data", "failed"}]
AnswerLists   == [open: BOOLEAN, active: Int]

FormInv ==
  /\ formQueryTimer \in FormTexts \cup {Nothing}
  /\ formQuery \in SearchQueries /\ formCache \in SearchCaches /\ formList \in AnswerLists
  /\ Form!HighlightOnList

(* What is shown is a list of matches, and the clamp puts a highlight on it. *)
LEMMA ShownIsList ==
  ASSUME Form!FormAssumption, NEW q \in SearchQueries, NEW c
  PROVE  Form!Shown(q, c) \in Seq(FormAnswers)
  <1>1. q.now \in FormTexts /\ (q.last = Nothing \/ q.last \in FormTexts)
    BY DEF SearchQueries
  <1>2. <<>> \in Seq(FormAnswers) /\ \A t \in FormTexts : FormMatches[t] \in Seq(FormAnswers)
    BY DEF Form!FormAssumption
  <1> QED
    BY <1>1, <1>2 DEF Form!Shown

LEMMA ClampedOnList ==
  ASSUME NEW active \in Int, NEW S, NEW shown \in Seq(S)
  PROVE  /\ Form!Clamped(active, shown) \in Int
         /\ shown # <<>> => Form!Clamped(active, shown) < Len(shown)
  <1>1. Len(shown) \in Nat
    OBVIOUS
  <1> QED
    BY <1>1 DEF Form!Clamped

(* Whatever query the list is left with, its effect has run. *)
LEMMA BecomesSound ==
  ASSUME Form!FormAssumption, FormInv, NEW open \in BOOLEAN, NEW q \in SearchQueries,
         Form!Becomes(open, q)
  PROVE  /\ formQuery' \in SearchQueries /\ formCache' \in SearchCaches
         /\ formList' \in AnswerLists /\ Form!HighlightOnList'
  <1> DEFINE wanted == Form!Wanted(open, q.now, formCache)
             last   == IF wanted[q.now] = "data" THEN q.now ELSE q.last
             new    == [q EXCEPT !.last = last]
             start  == IF open /\ ~formList.open THEN 0 ELSE formList.active
             shown  == Form!Shown(new, wanted)
  <1>1. formQuery' = new /\ formCache' = wanted
        /\ formList' = [open |-> open, active |-> Form!Clamped(start, shown)]
    BY DEF Form!Becomes
  <1>2. new \in SearchQueries
    BY DEF SearchQueries
  <1>3. wanted \in SearchCaches
    BY DEF SearchCaches, Form!Wanted, FormInv
  <1>4. start \in Int
    BY DEF FormInv, AnswerLists
  <1>5. shown \in Seq(FormAnswers)
    BY <1>2, ShownIsList
  <1>6. Form!results' = shown
    BY <1>1 DEF Form!results, Form!Shown
  <1> HIDE DEF new, wanted, start, shown
  <1>7. /\ Form!Clamped(start, shown) \in Int
        /\ shown # <<>> => Form!Clamped(start, shown) < Len(shown)
    BY <1>4, <1>5, ClampedOnList
  <1> QED
    BY <1>1, <1>2, <1>3, <1>6, <1>7 DEF AnswerLists, Form!HighlightOnList

LEMMA FormStep ==
  ASSUME Form!FormAssumption, FormInv, [Form!Next]_(Form!vars)
  PROVE  FormInv'
  <1>0. /\ formQueryTimer \in FormTexts \cup {Nothing}
        /\ formQuery \in SearchQueries /\ formCache \in SearchCaches /\ formList \in AnswerLists
        /\ Form!HighlightOnList /\ FormShaped \subseteq FormTexts /\ FormAnswers \subseteq FormTexts
        /\ FormBlank \in FormTexts
    BY DEF FormInv, Form!FormAssumption
  <1>r. Form!results \in Seq(FormAnswers) /\ Len(Form!results) \in Nat
    BY <1>0, ShownIsList DEF Form!results
  <1>1. ASSUME Form!QueryTimerFires PROVE FormInv'
    <2> DEFINE q == [formQuery EXCEPT !.now = formQueryTimer]
    <2>1. q \in SearchQueries /\ formList.open \in BOOLEAN
      BY <1>0, <1>1 DEF Form!QueryTimerFires, SearchQueries, AnswerLists
    <2>2. Form!Becomes(formList.open, q) /\ formQueryTimer' = Nothing
      BY <1>1 DEF Form!QueryTimerFires
    <2> QED
      BY <2>1, <2>2, BecomesSound DEF FormInv
  <1>2. ASSUME NEW t \in FormTexts, NEW outcome \in {"data", "failed"}, Form!SearchEnds(t, outcome)
        PROVE  FormInv'
    <2> DEFINE c == [formCache EXCEPT ![t] = outcome]
    <2>1. c \in SearchCaches /\ formCache' = c /\ formQueryTimer' = formQueryTimer
      BY <1>0, <1>2 DEF SearchCaches, Form!SearchEnds
    <2>2. CASE t = formQuery.now
      <3> DEFINE shown == Form!Shown(formQuery', c)
      <3>1. formQuery' \in SearchQueries
        BY <1>0, <1>2, <2>2 DEF Form!SearchEnds, SearchQueries
      <3>2. shown \in Seq(FormAnswers)
        BY <3>1, ShownIsList
      <3>3. formList' = [formList EXCEPT !.active = Form!Clamped(formList.active, shown)]
        BY <1>2, <2>2 DEF Form!SearchEnds
      <3>4. Form!results' = shown
        BY <2>1 DEF Form!results, Form!Shown
      <3> HIDE DEF shown, c
      <3>5. formList.active \in Int
        BY <1>0 DEF AnswerLists
      <3>6. /\ Form!Clamped(formList.active, shown) \in Int
            /\ shown # <<>> => Form!Clamped(formList.active, shown) < Len(shown)
        BY <3>2, <3>5, ClampedOnList
      <3> QED
        BY <1>0, <2>1, <3>1, <3>3, <3>4, <3>6 DEF FormInv, AnswerLists, Form!HighlightOnList
    <2>3. CASE t # formQuery.now
      <3>1. formQuery' = formQuery /\ formList' = formList
        BY <1>2, <2>3 DEF Form!SearchEnds
      <3>2. c[formQuery.now] = formCache[formQuery.now]
        BY <1>0, <2>3 DEF SearchCaches, SearchQueries
      <3>3. Form!results' = Form!results
        BY <2>1, <3>1, <3>2 DEF Form!results, Form!Shown
      <3> QED
        BY <1>0, <2>1, <3>1, <3>3 DEF FormInv, Form!HighlightOnList
    <2> QED
      BY <2>2, <2>3
  <1>3. ASSUME Form!openList PROVE FormInv'
    BY <1>0, <1>3, BecomesSound DEF Form!openList, Form!Elsewhere, FormInv
  <1>4. ASSUME formList' = [open |-> FALSE, active |-> -1],
               formQueryTimer' \in FormTexts \cup {Nothing}, UNCHANGED <<formQuery, formCache>>
        PROVE  FormInv'
    BY <1>0, <1>4 DEF FormInv, AnswerLists, Form!HighlightOnList
  <1>5. ASSUME Form!closeList PROVE FormInv'
    BY <1>0, <1>4, <1>5 DEF Form!closeList, Form!Elsewhere
  <1>6. ASSUME NEW w \in FormAnswers, Form!onWordSelect(w) PROVE FormInv'
    BY <1>0, <1>4, <1>6 DEF Form!onWordSelect, Form!Rearmed
  <1>7. ASSUME NEW active \in Int, Form!Highlight(active) PROVE FormInv'
    <2>1. /\ formList' = [formList EXCEPT !.active = Form!Clamped(active, Form!results)]
          /\ formQuery' = formQuery /\ formCache' = formCache /\ formQueryTimer' = formQueryTimer
      BY <1>7 DEF Form!Highlight, Form!Elsewhere
    <2>2. Form!results' = Form!results
      BY <2>1 DEF Form!results, Form!Shown
    <2>3. /\ Form!Clamped(active, Form!results) \in Int
          /\ Form!results # <<>> => Form!Clamped(active, Form!results) < Len(Form!results)
      BY <1>r, <1>7, ClampedOnList
    <2> QED
      BY <1>0, <2>1, <2>2, <2>3 DEF FormInv, AnswerLists, Form!HighlightOnList
  <1>8. ASSUME Form!ArrowDown \/ Form!ArrowUp \/ Form!Home \/ Form!End PROVE FormInv'
    <2>1. formList.active \in Int
      BY <1>0 DEF AnswerLists
    <2>2. \E active \in Int : Form!Highlight(active)
      BY <1>r, <1>8, <2>1 DEF Form!ArrowDown, Form!ArrowUp, Form!Home, Form!End, Form!Down
    <2> QED
      BY <1>7, <2>2
  <1>9. ASSUME NEW t \in FormTexts, Form!onWordInput(t) PROVE FormInv'
    BY <1>0, <1>9, BecomesSound DEF Form!onWordInput, Form!Rearmed, FormInv
  <1>10. ASSUME UNCHANGED <<formQueryTimer, formQuery, formCache, formList>> PROVE FormInv'
    <2>1. Form!results' = Form!results
      BY <1>10 DEF Form!results, Form!Shown
    <2> QED
      BY <1>0, <1>10, <2>1 DEF FormInv, Form!HighlightOnList
  <1>11. ASSUME \/ Form!onHintInput \/ Form!WordTimerFires \/ UNCHANGED Form!vars
                \/ \E w \in FormShaped : Form!ValidateArrives(w) \/ Form!ValidateFails(w)
         PROVE  UNCHANGED <<formQueryTimer, formQuery, formCache, formList>>
    BY <1>11
    DEF Form!onHintInput, Form!WordTimerFires, Form!vars, Form!ValidateArrives,
        Form!ValidateFails, Form!ValidateEnds
  <1>12. ASSUME NEW t \in FormTexts, Form!SearchArrives(t) \/ Form!SearchFails(t) PROVE FormInv'
    BY <1>2, <1>12 DEF Form!SearchArrives, Form!SearchFails
  <1> QED
    BY <1>1, <1>3, <1>5, <1>6, <1>8, <1>9, <1>10, <1>11, <1>12
    DEF Form!Next, Form!Types, Form!Timers, Form!Network

(* The highlighted answer is one of those on screen, whatever search comes *)
(* back, and whatever text it was for.                                     *)
THEOREM HighlightStays == Form!Spec => []HighlightOnList
  <1>1. Form!Init => FormInv
    BY PagesAssumption
    DEF Form!FormAssumption, Form!Init, FormInv, SearchQueries, SearchCaches, AnswerLists,
           Form!HighlightOnList
  <1>2. FormInv /\ [Form!Next]_(Form!vars) => FormInv'
    BY PagesAssumption, FormStep
  <1>3. FormInv => HighlightOnList
    BY DEF FormInv, HighlightOnList
  <1> QED
    BY <1>1, <1>2, <1>3, PTL DEF Form!Spec
=============================================================================
