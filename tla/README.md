# A verification project for leaderboard-wordle

leaderboard-wordle is a daily word game: one puzzle per Asia/Manila calendar day, one game per
player and puzzle, at most six guesses, and leaderboards over the days.  The server is a set of
short request handlers on Cloudflare Workers; everything that must hold together between
requests lives in PostgreSQL, and every page keeps a copy of some of it.  The hard part is
therefore not any single handler but what they do to one another: around midnight, when players
start and guess, the cron settles the day that ended, board reads settle it too, and an admin may
still be changing the puzzle of the day that begins; and in the browser, where answers arrive late,
out of order or not at all.  This directory models that as TLA+ modules, checks them with TLC and
proves with TLAPS what the server promises.

All source paths below are relative to the repository's `src/server` unless they start with
`routes/` or `shared/`, which are below `src/` and `src/lib/`.

## 1. The system

| Component | State | Operations | Works with |
|---|---|---|---|
| Rows and transactions (`db/schema.ts`, `db/client.ts`) | tables `daily_puzzles`, `games`, `guesses`; row locks; open transactions; the clock | `BEGIN`, `SELECT ... FOR UPDATE`, `COMMIT`, `ROLLBACK` | every service |
| Manila calendar (`puzzle/manila.ts`) | none | date of an instant, end of a date | every service |
| Game service (`game/service.ts`) | none of its own | `startGame`, `submitGuess`, `getCurrentGame` | locks puzzle, then game; activates lazily |
| Finalization (`puzzle/finalize.ts`) | none of its own | `finalizePuzzle` | locks the puzzle, then its ACTIVE games |
| Settlement (`puzzle/settlement.ts`, `puzzle/scheduled-entry.ts`) | the queue of one run | `finalizeExpired`, `activateToday`, `runSettlement` | the daily cron; week and month board reads run `finalizeExpired` |
| Admin schedule (`admin/service.ts`, `admin/validation.ts`, `admin/handlers.ts`) | none of its own | `schedulePuzzle`, `updatePuzzle`, `deletePuzzle`, `replaceTodayPuzzle`; list, validate, search only read | locks the puzzle row; UNIQUE(date), UNIQUE(answer) |
| Guess evaluation (`game/evaluate.ts`, `shared/lib/wordle-ux.ts`) | none (pure) | `evaluateGuess`, `computeKeyStates` | `submitGuess`; the keyboard of the play page |
| Leaderboards (`leaderboard/*`) | none of its own | `getBoard` for four periods | reads frozen days and today's games; runs the sweep first |
| Profile (`profile/*`, `middleware/auth.ts`) | columns of `user` | `getMe`, `updateProfile`, the admin bootstrap | check then write, UNIQUE(name) |
| Play page and API client (`routes/play`, `shared/api/game.ts`) | cached current game, typed letters, pending request | start, guess, reload; 15 s timeout and resubmission | the game service over HTTP |
| Profile page (`routes/profile`) | the form of each tab, the cached profile | open, type, save | the profile service over HTTP |
| Calendar page and puzzle form (`routes/admin`, `shared/api/admin.ts`) | cached month, dialog, mutations; word, hint, chip, search list | schedule, edit, replace, delete; type, pick | the admin service over HTTP |
| Leaderboard page and result block (`routes/leaderboard`, `routes/play`, `app/query-client.ts`) | the board queries of the browser, whether it is online | select a tab, come and go, refetch, retry | the board reads over HTTP |
| Request-scoped clients (`db/memo.ts`, `hooks.server.ts`, `routes.ts`) | the clients of each request scope | `withDbScope`, `getDb`, `getAuth` | every handler |
| Middleware (`middleware/*`, `lib/*`), auth, telemetry | none of their own | checks in front of the handlers | platform rate limiter, Better Auth |

**What is hard.**  The handlers are transactions of several statements under READ COMMITTED.
Between two statements any other transaction may commit; a `FOR UPDATE` may wait long enough for
the day to change, and its WHERE clause is then evaluated again on a row that is no longer the
one found; `transaction_timestamp()` stays what it was at BEGIN; the sweep's `SKIP LOCKED` leaves
rows out; a cron run can be missed, fail on one puzzle, die half way or overlap with another; the
admin's pre-checks and the profile's name check lock nothing.  A page acts on what it last read,
gives up on requests that the server still carries out, and may receive the older of two answers
last.  A database client on Workers belongs to one invocation, whose timeout may answer while the
handler goes on.  `PROJECT.json` lists each hazard at its line with the properties that would catch
it.

**What makes each component correct.**
Game service: one game per player and puzzle, never restarted or reopened; guesses are numbered
1..n without loss or repetition under concurrency; status follows from guesses and answer;
everything that counts happened within the day.  Finalization and settlement: at most one
finalization writes; the frozen average is that of the COMPLETED games; no game is left running;
every expired ACTIVE puzzle is finally settled.  Admin schedule: dates, answers, hints and expiries
stay consistent under concurrent edits; a started puzzle is immutable.  Together: each transaction
takes effect as if it ran alone, and none deadlock.
Feedback: what counting letters demands; keys say what is known of the answer.
Boards: ranks without gaps and equal exactly for ties, scores by the definition, results never taken
back; a week or month read counts the days its own sweep settled.
Profiles: names unique whatever two requests checked first; onboarding complete or not at all; an edit
leaves alone what it was not about.
Pages: what is shown was once true on the server; an attempt is spent only by a submission and every
answer is accounted for; typed input is not lost; a board is of the period of its tab; an edit sends
what the admin changed.
Clients: one per URL, used by the invocation that owns them and by no other, and ended whatever
becomes of it.

## 2. The modules

| Module | Models | Holds |
|---|---|---|
| `Rows` | `db/schema.ts`, `puzzle/manila.ts`, and what each operation computes from a row | constants and their assumptions, row types, `Opened`, `StartedGame`, `GuessedGame`, `Finalized`, `FrozenOf`, ... |
| `Database` | PostgreSQL as the services use it | the variables, `Begin`, `LockPuzzle`, `End`, `Init`, `Tick` |
| `GameService` | `game/service.ts` | `StartBegin` ... `StartWrite`, `GuessBegin` ... `GuessWrite`, `ReadPuzzle` ... `ReadReturn` |
| `Settlement` | `puzzle/settlement.ts`, `puzzle/finalize.ts` | `SweepSelect`, `FinalizeBegin` ... `FinalizeWrite`, `FinalizeFails`, `ActivateBegin` ... `ActivateWrite` |
| `AdminService` | `admin/service.ts`, `admin/validation.ts` | `ScheduleBegin` ... `ScheduleWrite`, `EditBegin`, `EditLock`, `EditWrite`, `DeleteWrite` |
| `DailyPuzzle` | the services together, crashes, fairness | `Next`, `Spec`, `FairSpec`, the type invariant, the properties |
| `DailyContest` | what the services promise: every operation is one step | `Start`, `Guess`, `Settle`, `Activate`, `Schedule`, `Update`, `ReplaceToday`, `Delete`, and the properties of the tables |
| `Evaluate` | `game/evaluate.ts`, `shared/lib/wordle-ux.ts` | `evaluateGuess`, `computeKeyStates` as recursive functions |
| `Board` | one game as its player sees it | `submitGuess` with stored tiles, the keyboard |
| `Leaderboard` | `leaderboard/service.ts` over the tables of `DailyContest` | the day boards, the week and month boards, ranks, cutoffs, qualification |
| `BoardRead` | `getBoard` as a request on `DailyPuzzle` | `Reconcile`, `ReadBoard`, `ReadViewer`, `BoardCrash` |
| `Accounts` | `profile/service.ts`, `middleware/auth.ts` | `updateProfile` statement by statement, the admin bootstrap |
| `PlayPage` | `routes/play/+page.svelte`, `shared/api/game.ts` over `DailyContest` | query, start and guess mutations, the 15 s timer, reload |
| `AdminPage` | `routes/admin/+page.svelte`, `day-detail.svelte`, `shared/api/admin.ts` over `DailyContest` | list query, dialogs, the four mutations, gap report, another admin, the cron |
| `PuzzleForm` | `routes/admin/puzzle-form.svelte`, `answer-search.svelte` | word, hint, chip, debounce timers, list |
| `ProfilePage` | `routes/profile/+page.svelte` | query and form of each tab, save |
| `BoardCache` | the board queries of both pages | which queryFn a query has, freshness, fetches, the retry, offline pauses |
| `DbScope` | `db/memo.ts`, `auth/auth.ts`, `hooks.server.ts`, `routes.ts`, `puzzle/scheduled-entry.ts` | invocations, their stores, client creation and end, the 30 s timeout |
| `Pages` | the four pages above that share no state, put side by side | an instance of each, their assumptions, the properties checked and proved of them |
| `MC*` | small instances for TLC | section 3 |
| `RowsTypes`, `DailyContestProofs`, `DailyPuzzleProofs`, `LeaderboardProofs`, `AccountsProofs`, `PlayPageProofs`, `AdminPageProofs`, `DbScopeProofs` | proofs | section 5 |

**How they are put together.**  `DailyPuzzle` composes the three services on one `Database` and
implements `DailyContest`.  `BoardRead` composes board reads with `DailyPuzzle`, since the sweep is
part of them; `Leaderboard` is a function of the tables and is composed with `DailyContest`, whose
behaviours include the server's.  `PlayPage` and `AdminPage` are composed with `DailyContest` for the
same reason: a page sees committed tables only.  `Accounts`, `DbScope`, `ProfilePage`, `PuzzleForm`
and `BoardCache` share no state with the others.

**How state and actions correspond to the code: the server.**
`dailyPuzzles[p]` is a row with its columns; `frozen[p]` holds the two columns written at
finalization; `games[p][u]` is the row with that unique pair, status `NONE` when there is none;
`guesses[p][u]` is the set of guess rows of that game.  `tx[t]` is what a running handler has:
its position `pc`, `ts` for `transaction_timestamp()`, the puzzle it is about, and the copies
`row` and `seen` it read under the locks.  `req[t]` is the request, `sweep[s]` the loop of
`finalizePuzzleRows`, `view[r]` the locals of `getCurrentGame`.

A handler is split where another transaction can matter: BEGIN; the statement's snapshot of the
row it is about (where the row is searched by date); the moment the lock is granted, with the
WHERE clause evaluated again and every check the handler makes on the locked row; further locks;
and the commit, in which all its writes appear.  Writes of one transaction are invisible to the
others until then, so they are put into the committing step.  Where a check fails, the step that
would have taken the lock ends the transaction instead (`StartRefused`, `GuessExpired`,
`EditRefused`, ...): the code takes the lock, throws and rolls back with nothing written in
between.

`board[s]` in `BoardRead` is the response being built by settler `s`: who is on the board as read
by the first statement, and the viewer's own line as read by the second.  In `Accounts`, `users[u]`
is the part of the row that matters and `req[t]` a running PATCH with the row it read; there is no
transaction, so each statement is a step on the committed row, and UNIQUE decides at the UPDATE.
In `DbScope`, `invocations[i]` is one call of the Worker: its kind (page, API call, sign-in,
cron), its `AsyncLocalStorage` store with the clients it knows and owns, and what it awaits;
`clients[c]` says who created a client and whether it has been ended.

**The pages.**  A page module has the cached data of its query (`page.data`, `query[k]`), the state of
its runes, and one record per request on the wire with `pc` "none", "sent", "answered" (the server has
taken the step, the answer travels).  The server's step and the arrival of the answer are separate
actions, so an answer may be overtaken; a failure may come before or after the server's step.  The
callbacks of a mutation (`onSuccess`, `onError`, `invalidateQueries`) are part of the arrival.  A
Svelte effect runs before the next event and is therefore part of the action that triggers it.
The timer of a guess (`page.timer` in `PlayPage`) is cleared when the headers of an OK are in
(`HeadersArrive`), as `finally` does; from then on only a broken connection or a reload ends the wait.
A start that the page gave up on, or that another tab sent, is still served (`LateStart`).

In `BoardCache`, `query[k].reads` is the `queryFn` the query of period `k` was last given: that of the
play page asks for "today", that of the leaderboard page for whatever tab is selected when it *runs*
(`routes/leaderboard/+page.svelte:51`).  It runs when a fetch starts, when it is retried and when a fetch
that was paused offline goes on, so the period asked for (`asks`) is fixed only then (`Asked`), and the
answer goes under the key `k` whatever was asked.

`DbScope`'s `MaxClients`, `PlayPage`'s `MaxSubmits`, `AdminPage`'s `MaxSaves` and `MaxOthers` and
`PuzzleForm`'s `MaxInputs` bound counters and nothing else.

## 3. What is checked

Runs are `tlc -config X.cfg M`; the module is given with each.

| Run (module, cfg) | Instance | What it shows |
|---|---|---|
| `race` (MCCasts, MCRace) | casts `duel`, `read`, `sweep` | `GuessesExplainStatus`, `PlayedWithinTheDay`, `FinalizedIsOver`, `FrozenMatchesGames`, `ReadsStayCurrent`, `NumberFree`, `NoLockCycle`, `CurrentGameNotBehind`, `FinalizedForever`, `GamesNeverGoBack`, and `ImplementsContest`: whatever interleaves, each transaction is one atomic step of `DailyContest` |
| `schedule` (MCCasts, MCSchedule) | casts `midnight`, `admins` | `SoundSchedule` under concurrent scheduling, moving, editing and deleting; `NotBeforeItsDay`, `PlayedPuzzleKept`, `LockedPuzzleFixed` when an edit, a start and an activation contend for one row |
| `live` (MCCasts, MCLive) | casts `late`, `queue` | `ExpiredActiveSettles`, past late players and crashes, alone or behind another day |
| `leaderboard` (MCLeaderboard) | casts `day`, `period` | `RanksAreDense`, `ScoresByDefinition`, `DayRankOnlyWorsens`, `QualificationKept` |
| `board_read` (MCBoardRead) | one player, two settlers, a period of three days | `SweptDaysCount`; `CompletedDaysQualify` in the end, however many settlements are missed, fail or die |
| `accounts` (MCAccounts) | two users, two requests at once, four spellings of three names | `NamesUnique`, `OnboardedIsComplete`, `EditsDoNotClobber` |
| `play_page` (MCPlayPage) | one player, two days, two submissions | `ShowsAPastState`, `AttemptsAccounted`, `LettersKept` |
| `db_scope` (MCDbScope) | two invocations of every kind, three clients, on Workers | `NoForeignIO`, `OneClientPerUrl`, `ClientsEnd` (but for a client created late, section 6) |
| `admin_page` (MCAdminPage) | casts `alone`, `rival`, `midnight` | `ShowsAcknowledged`, `EditsOnlyWhatChanged` |
| `pages` (MCPages) | scenes `game`, `profile`, `form`, `cache` | `FeedbackCounts`, `KeysTellTheTruth`; `FormEditsKept`; `HighlightOnList`, `ChipSettles`, `ListCatchesUp`; `BoardIsOfItsTab` (but for a fetch paused offline, section 6) |
| `missed_day` (MCGame, MCMissedDay) | no crashes | violation: see section 6 |
| `stale_delete` (MCGame, MCStaleDelete) | an admin, a player, a settlement | violation: see section 6 |

**Casts and scenes.**  Several small systems are explored in one run: the initial state names a cast
(in `MCPages`, a scene), which says who takes part and how far the clock and the counters may go; the
rest stays idle.  A cast restricts the next-state relation of the specification and adds nothing to
it, so an invariant or action property violated in a cast is violated in the specification.

**Deadlock** is checked, except in `leaderboard`, `db_scope`, `admin_page` and `pages`: there nothing is
left to do when the clock, the invocations, the saves or the inputs have reached their bounds.

**Bounds.**  `MaxGuesses` is a constant (6 in the code, 1 or 2 in the runs).

- `race`: a day has two ticks, so that a transaction can begin within the day and write either before
  or after its end, and the clock goes on to 3 for a settlement that comes later.  Two guesses are
  the least for a wrong guess to be followed by a last one; two requests are the least for any pairwise
  race.  `sweep` has two sweeps over the games of two players with one guess each, so that one player
  completes and the other is forfeited.
- `schedule`: three ids, two answers, three dates: the least for two admins to collide while a third row
  stands.  Two answers with a common letter and one letter of their own each make a hint valid for one,
  the other or both.  Admin casts have no players or one, since locks and guards only see whether a
  row was started.
- `leaderboard`: three players with up to two misses each on one day give ties on time, on guesses and on
  neither, and a cutoff (`Limit = 1`) that keeps a tie; two players over a period of two days and into
  the next give missed days, penalties, and today's game beside finalized ones.  The penalty is 3 ticks: it
  is only added.
- `board_read`: the clock stays within the period of three days, so that the board must come to be
  right; one settler serves requests, the other may be a cron or a request.
- `accounts`: two requests at once, of one user or two, with two spellings of one name, another name and a
  reserved one; a curated avatar and one that is not.
- `play_page`: two submissions and two guesses are the least for a guess that timed out to be followed by
  one that overtakes it; two one-tick days let a page survive midnight.
- `db_scope`: two invocations, of a page, an API call, a sign-in or the cron, are the least for one to
  use the client of the other; one client more than they need, so that the pool of identities is no
  bound.
- `admin_page`: two saves alone, or one save beside another admin or midnight.  The word this admin types is
  always `z`, an answer no row has: which free answer it is makes no difference.
- `pages`: all answers of four letters over an alphabet of two, with every three guesses: letters occur twice
  in guess and answer with a place to spare, or are in one of them only, and a key is coloured by several
  guesses in any order.  The theorems take words and alphabets of any size (section 5);
  one tab with two values per field; two inputs into the form.  The cache needs no bound: its states are
  finite, with two of the four tabs.

**Symmetry.**  Users, players, settlers and admins are interchangeable in the safety runs, and so are
puzzle ids that are not seeded.  Casts are not permuted; two reachable states that a permutation maps to
each other have the same cast, and whoever is not in it is idle in both.  Runs that check liveness
(`live`, `board_read`, `db_scope`, `pages`) use no symmetry.

**Fairness.**

- `DailyPuzzle` (`Fairness`).  A handler whose next statement can run goes on, or its transaction is
  rolled back (weak fairness of its steps together with a crash): Workers and PostgreSQL do not leave an
  open transaction idle for ever.  Sweeps keep being started: the cron fires daily and every week or
  month board read sweeps too.  A sweep that could select the puzzle again and again does so once while
  the puzzle is not locked (strong fairness), a finalization tried again and again gets its lock
  (PostgreSQL queues waiters in order) and is not broken off every time.  Nothing is assumed of players
  starting or guessing, of the clock, or of any single run succeeding.
- `BoardRead` (`ReadFairness`).  The same, with the sweeps supplied by board reads alone: those of the
  settlers in `Served` keep coming, while the cron and the others may stop for good.
- `DbScope` (`FairSpec`).  The runtime schedules what can run, statements and rate limiter answer, and a
  client told to end ends.  Nothing is assumed of the timeout.
- `PlayPage`, `BoardCache`, `ProfilePage`, `AdminPage`.  None: a body may stall for ever, and no liveness is
  claimed of these pages.
- `PuzzleForm`.  Timers fire and requests are answered or fail.

The types of every variable are stated in its module (`TypeOK`, `PageTypeOK`, ...).  Those of the server,
the accounts, the clients, the play page and the calendar page are proved (section 5); those of the
profile page, the form and the cache are conjuncts of the invariants proved there or document the state.

## 4. What the abstractions leave out

- The clock of PostgreSQL is monotone, and `transaction_timestamp()` is the instant of the first
  statement.
- A refused request holds its puzzle lock for no step of its own; a sweep that would skip the row
  in just that moment is covered by one that finds it locked by a request that is not refused.
- The pre-checks of an edit run with the re-read of its row; the unique indexes decide at its
  write.  Of two inserts in conflict the second fails when the first has committed.
- Words outside the dictionary are `None`; unknown game and puzzle ids are answered at once and
  change nothing.  Game ids are known to clients only once the game is committed.
- In `DailyPuzzle` evaluation is reduced to whether the word is the answer (the tiles are in `Board`);
  serialization, messages, counts in reports and logging are left out.
- The conflict branch of `submitGuess` on UNIQUE(game_id, guess_number) is not an action: `NumberFree`
  shows that it is never reached.
- `FinalizeForfeit` takes the locks of all ACTIVE games in one step, where the UPDATE takes them row by row.
  A guess holds the puzzle row before it locks a game, and the finalization holds that row already, so
  nobody can hold one of the games meanwhile.
- NULL is `None`, of `completion_time_ms` too; the comparisons of the boards put it last (`Before`).
- A patch that changes no column rewrites the row as it is.
- `FinalizeFails` and `Crash` may end any transaction at any point; there is no other failure of
  the database.
- A week or a month is a period of `PeriodDays` consecutive dates; which dates those are is the
  calendar's arithmetic.  Names, avatars and the frozen display columns are left out of boards.
- `Leaderboard` runs over `DailyContest`; what it shows of all tables the contest can reach holds of the
  server's, which reaches no others (`RefinementCorrect`).
- Display names are reduced to a constant function from what is typed to the canonical name, with a set
  of reserved ones; its Unicode rules are not modelled.
- `Pool.end()` and the drivers of `@neondatabase/serverless`, TanStack Query (staleness, deduplication,
  cancelled fetches), Better Auth's session query and the browser's `AbortController` are external and
  modelled from how the code uses them.
- In `DbScope` the runtime is the constant `Runtime`: the run takes Workers, the proofs take both; the
  warm memo of Node is covered by the theorem `WarmClients` only.
- `PlayPage` has one page; a second tab may start the game (`LateStart`), but guesses are this page's only:
  those of another tab are counted by the server as the late requests of this one are.
- `AdminPage` shows one month, its `today` is fixed when it is loaded, and dates before it are not opened.
- `PuzzleForm`: the dictionary's verdict on a word does not change while the form is open.  Validations in
  flight are counted per word, since two of one word may both be on the wire.
- `BoardCache`: one browser, one player, the today and yesterday tabs.  Of a board only its period is kept,
  not the day or the game it was computed for, and a fetch whose page is left goes on to its end.

## 5. What is proved

Every safety invariant and action property of the passing runs is a theorem.  TLAPS checks them for
every value of the constants that satisfies the named assumptions of the modules: bounds are naturals,
`None` is none of the names, the seeded schedule is sound, the kinds of processes are disjoint.  Nothing
is assumed finite except in `Leaderboard` (`FiniteAssumption`: tables have finitely many users and puzzles,
so that a rank and a sum are numbers).  `Board`, `PuzzleForm`, `ProfilePage` and `BoardCache` state their
assumptions as definitions, which `Pages` assumes of its instances; the theorems about them are about
these instances, whose constants are those of `Pages` and arbitrary.

**The server.**

- `DailyPuzzleProofs`, *types*: `TypeCorrect == Spec => []TypeOK`.  `TypeOK` alone is not inductive: that a
  guess keeps `guess_count` within `MaxGuesses` needs that the copy of the game row it decided on
  has room, and that the steps of a handler find in `req` and `tx` what its phase promises.
  `PhasesOK` says so for every `pc`; `TypeInv == TypeOK /\ PhasesOK` is inductive
  (`PhasesCorrect`).  One lemma per operator gives its result type (`RowsTypes`), one per kind of
  process has a step for each action.
- *Locks*: `LocksCorrect == Spec => []LockInv`, the locking discipline.  `HoldsRow` says
  that a handler past its re-read holds its puzzle row and its copy is current, `RowHolder` the
  converse; `HoldsGame`, `HoldsActive` and `GameHolder` say the same of game rows for the guess about to
  be written and for the games a finalization forfeits.  The three lemmas `OutsideLocks`, `TakeLocks`
  and `EndLocks` cover nearly all actions: a handler acts without a lock, takes a free row, or writes
  rows it holds and ends.  From `LockInv` follow `ReadsCurrent` (no handler ever writes on the strength
  of a stale row) and `DeadlockFree` (who holds a game row holds its puzzle row too, so a holder of
  anything waits for nobody, and no circle can close).
- `DailyContestProofs`: `TablesCorrect == Spec => []TableInv` for the contest, where every operation is one
  step.  `TableInv` joins the types of the tables, `ScheduleInv` (dates, answers, expiries, what each status
  says of the clock and of `locked_at`), `GameInv` (games against their guesses, their times within the
  day, no game without a started puzzle) and `FinalInv` (a finalized puzzle is over, its frozen columns are
  those of its games).  None of the parts is inductive alone: that a guess finds the answer the earlier
  guesses were compared with needs that the puzzle of a started game is locked, that a settlement freezes
  the right average needs that games have ended consistently.
- *Refinement* (`DailyPuzzleProofs`): `RefinementCorrect == Spec => ImplementsContest`.  `RefInv` strengthens
  `LockInv` with `Checked`: what a handler has checked on the row it holds, phase by phase.  Because the
  copy is current when it writes, the check is true of the committed row in that step, which is the guard
  of the contest's action; every other step stutters.
- *Properties of the server*: by the refinement the contest's properties are the server's:
  `ServerFinalizedOver`, `ServerFrozenCorrect`, `ServerStatusExplained`, `ServerWithinTheDay`,
  `ServerPlayedKept`, `ServerScheduleSound`, `ServerNotBeforeItsDay`, and of steps `ServerLockedFixed`,
  `ServerFinalForever`, `ServerNeverGoBack`.  Two are about the handlers themselves: `ServerNumberFree`, from
  the current copy of the game row, and `ServerNotBehind`, from an invariant of the three unlocked reads of
  `getCurrentGame` (`ViewsSound`).
- *Board reads*: `SweptDaysSettled == ReadSpec => []SweptDaysCount`.  The property speaks of the moment the
  board is taken; `DueSettled` says where each day the sweep selected is until then: finalized, still in
  its queue, or in the transaction of the moment.  A finalization ends with its puzzle ACTIVE
  (it failed, and the day is `due` no more) or FINALIZED, by itself or by another settler: `RefInv` says
  that the row it was begun for was over and one of the two, and a FINALIZED day stays so.

**The boards** (`LeaderboardProofs`, over the contest's `TableInv`).

- `DenseBoards`.  Each ORDER BY is a strict weak order (`DayOrdered`, `PeriodOrdered`), built from
  comparisons by a number (`ValueOrder`), by a ratio compared crosswise (`RatioOrder`) and
  lexicographically (`ThenOrder`).  In any such order on a finite set the number of *levels* ahead, a level
  being a class of ties, is a dense rank (`RankOrder`, `DenseRanks`).  The comparison by averages needs that
  a qualified score has sums that are integers and more than no days (`ScoreType`), which rests on what
  finalization froze (`FrozenType`).
- `RankOnlyWorsens`.  A result stays and stays the same (`ResultKept`), and a larger set of results has at
  least as many levels ahead of it (`RankWorsens`).
- `OnceQualified`.  Completed days of the frame are kept: the row of a finalized day never changes, and a
  settlement adds to them only (`CompletedDaysKept`).
- `ScoresAreDefined`.  The frame of the query is the set of eligible days of the definition
  (`FrameIsEligible`), each adds the same number (`DayScores`), and the first completion is the same although
  the query also looks at today's game: completions lie within the day of their puzzle
  (`CompletedOnItsDay`), so today's comes after those of finalized days, and a game has a completion time
  only when completed (`TimedWhenCompleted`, an invariant of its own, `BoardCorrect`).

**Accounts and clients.**

- `AccountsProofs`: `NamesAreUnique`, `OnboardingIsAtomic`, `AccountsTypes`, and `EditsAreKept` for the action
  property `EditsDoNotClobber`, from the invariant that joins the types, what a request has checked when it
  reaches its UPDATE (`RequestSound`), and the two properties.
- `DbScopeProofs`: `NoForeignClients` (no invocation on Workers ever holds the client of another),
  `ClientsAreShared` for `OneClientPerUrl` (the hook, Better Auth and the services have one client per URL), `ScopeTypes`, and
  `WarmClients` for Node (what a handler uses there is never ended).  `ScopeInv` ties the two sides
  together: a client created is the one its creator's store knows for its URL.

**The pages.**

- `PlayPageProofs`: `ServerIsContest` (the tables below the page behave as the contest, so `TableInv` holds
  of them), `PageTyped`, `BoardIsPast`, `AttemptsCounted`, `LettersStay`, from
  `PageCorrect == PageSpec => [](TableInv /\ PageInv)`.  `AnswersPast` says of every answer held anywhere, in the
  cache or on the wire, that it shows a past state (`Past`: some prefix of the guess rows); it
  survives the server's steps because games only grow (`GameEvolves`, `GameGrows`).  `PostsSound` ties an
  accepted submission to its guess row, which is why letters may then go.  `TallyCounts` compares sizes of
  sets: counted attempts are no more than accepted submissions, and those the page is done with and were not
  refused no more than the tally.
- `AdminPageProofs`: `AdminServerIsContest`, `AdminTyped`, `CalendarIsRecent`, `EditsMinimal`, from
  `AdminCorrect`.  `Recent` extends `ShowsAcknowledged` to list requests under way: one that was answered is at
  least as recent as every save the page was told of, because `invalidateQueries` drops the request
  sent before.  `DialogSound` and `SaveSound` say what a form and a request may be about.
- Profile form (`AccountsProofs`): `TypedIsKept`; an answer seeds the form of a tab only while it has
  none, so nothing edited is replaced (`PageSound`).
- Puzzle form (`AdminPageProofs`): `HighlightStays`; the highlight is put back whenever the results change,
  whichever query they come from (`FormInv`).
- Cached boards (`LeaderboardProofs`): `TabsKeepApart`.  That a `queryFn` reads the tab when it runs does no
  harm to a fetch that asks at once or is retried: a query has the queryFn of the leaderboard page only
  when that page looks at it, and then the tab is its own, or after the page has left it, and then nothing
  retries it.  `QuerySound` says so query by query: what it holds and what it asks for is of its period
  unless the fetch was paused, and `ReadsAre` what its queryFn would ask for now.
- Tiles and keyboard (`PlayPageProofs`): `TilesAreCounted` and `KeysAreTrue`, for words of any length over any
  alphabet and any number of guesses.  `TilesSound` is what holds of tiles and remaining letters after the
  second pass has reached a position: yellow tiles so far and letters remaining add up to the letters
  pass 1 left, and a gray tile means none remained.  `KeysSound` says that a key has the highest colour its
  letter was shown in.  With at least one yellow tile for a letter that is in the answer but was
  never placed (`YellowShown`), that leaves each key one colour.

**Recursion without induction rules.**  The library's induction theorems take an operator, which the
provers cannot instantiate.  What recursions need here is proved with sets instead: if 0 is in a set
and n - 1 in it puts n there, it has all numbers up to a bound (`Upwards`); the function a LET defines by
recursion exists since its steps can be collected as data (`RunExists`); and a claim about all subsets of a
finite set is proved by a least counterexample (`LeastSubset`, used by `SumExists`, `SumType`).

**Only model-checked**: what rests on fairness, `ExpiredActiveSettles`, `CompletedDaysQualify`,
`ClientsEnd`, `ChipSettles` and `ListCatchesUp`.  Liveness and ENABLED are out of the
prover's reach.  That the frozen average is the mean is by definition of the fold both sides use: the
theorem says that it is that of the games the puzzle has and stays so.

## 6. Where code and documents disagree

Two disagreements have a run of their own.

- **A missed day is never settled** (`missed_day`).  `Architecture-v3.md:657` lets the settlement
  "Find any expired non-finalized puzzles → finalize them".  `puzzle/settlement.ts:141` selects
  ACTIVE rows only, and `activateToday` looks at today only; a puzzle nobody started on a day the
  cron did not run stays SCHEDULED for ever.  The docstring at `puzzle/settlement.ts:124` describes
  this half: such puzzles are "untouched".
- **A puzzle of the current date can be deleted** (`stale_delete`).  `Architecture-v3.md:744`: "A
  current-date puzzle can never be plain-deleted."  `deletePuzzle` compares with the date at the
  start of its transaction, before it waits for the row lock, so a deletion begun before midnight
  can commit after it.  Players then find no puzzle for the day until an admin acts.

Others were met while modelling.  Each is a behaviour of a module here, so the properties checked are
those that hold in spite of it, and a property that holds but for one of these says so in its formula.

- `leaderboard/service.ts:322` (`ReadBoard`, `ReadViewer`): the board and the viewer's own line are two
  statements.  A viewer who qualifies in between is reported as qualified with no rank, which the comment at
  `leaderboard/service.ts:64` excludes.
- `profile/service.ts:141`: `onboarding_completed_at` is to be "set ONLY when first completing", but the
  decision is made on the row read two statements earlier, so a second tab moves it.
- `shared/api/game.ts:69` bounds the guess request, since "a guess response that never arrives used to pin"
  the keyboard.  But `return res.json()` (`:90`) is not awaited inside the `try`, so `finally` (`:110`) clears
  the timer once the headers are in: a body that stalls after them leaves `guessMutation` pending and the
  keyboard blocked until the connection breaks or the page is loaded anew (`HeadersArrive`).  That a
  guess always gives the keyboard back is therefore not a property here.
- `routes/leaderboard/+page.svelte:51`: the `queryFn` reads the tab selected when it runs.  A fetch begun
  offline on one tab is paused; if a cached board lets the query outlive the change of tab, it runs when the
  browser is back, asks for the tab selected then, and its answer is stored under the tab it was begun
  for, which the comment at `:47` ("Per-period query") does not expect (`GoOnline`).
- `db/memo.ts:80` ends "every client the scope created", but a handler left behind by the 30 s timeout may
  create one after `finally` has taken the clients to end (`db/memo.ts:94`), and nothing ends that one.  The
  408 of `routes.ts:104` leaves only when the pools have ended, hence after the statement that was too slow.
- `routes/profile/+page.svelte:33`: a field the user did not touch is sent when the cached profile has
  changed since the form was seeded; a GET sent before a PATCH and answered after it puts the older
  profile back (`:41`).
- `routes/play/+page.svelte:74`: `expired` is never reset, so a page that outlives its puzzle and starts the
  next one keeps the flag (`docs/contradictions-and-gaps.md:219`: it is "local ephemeral state", meant for the game that ended).
- `routes/play/+page.svelte:42` and `:67`: the position in the result block is that of a board cached under
  "today", which nothing invalidates: after midnight it belongs to another day, fetched before the last
  guess it may not have the player, and when the fetch failed it does not come.
- `routes/admin/+page.svelte:58`: a dialog closed during its request frees the page for a second mutation while
  the first is in flight, and the completion of the first closes the dialog of the second
  (`routes/admin/puzzle-form.svelte:146`).  The gap warning (`:114`) stays after the gap has been filled.
- `routes/admin/puzzle-form.svelte:76`: between a keystroke and the next validation the chip speaks of another
  word; `routes/admin/answer-search.svelte:67` says "No matching approved answers" while the answers for
  the text typed have not come.

## 7. What is left

**Not modelled.**

- The middleware chain, sessions and rate limits: each check is a function of one request in front of the
  handlers and changes no state of this program; the counters are the platform's, the sessions Better
  Auth's.  What of it touches shared state is modelled elsewhere: the admin bootstrap in `Accounts`, the
  timeout and the limiter's wait in `DbScope`.
- Authentication: configuration of the Better Auth library.
- Telemetry: a filter in front of an external writer; nothing reads it back.
- Other pages and shared UI: presentation of what the API returns.
- Dictionaries and generated data: of about 47,000 lines of implementation, 36,700 are generated or literal
  lists (`shared/config/avatar-emojis.generated.ts`, `data/valid-guesses.generated.ts`,
  `data/avatar-emojis.ts`).  A word or an emoji is a model value; there is no behaviour in them to model.
- Build, migration and operations scripts: one-shot tooling outside the running system.

**Next.**  The week and month tabs in `BoardCache`.  Month navigation in `AdminPage`.  A second admin's page
instead of the rival's steps.  The boards stated over the server's own variables by the refinement, and the
safety halves of the liveness properties (what each step of a settlement leaves to be done).
