------------------------------ MODULE PlayPage ------------------------------
(***************************************************************************)
(* The play page of one player (routes/play/+page.svelte, shared/api/      *)
(* game.ts) over a server that behaves as DailyContest.  Requests and      *)
(* answers travel on their own: a GET overtaken by a guess arrives after   *)
(* it, and a guess the page has given up on may still be counted.          *)
(***************************************************************************)
EXTENDS DailyContest

CONSTANTS
  Me,           \* the player
  MaxSubmits    \* bound: the submissions of one behaviour

Submits == 1..MaxSubmits

ASSUME PageAssumption == Me \in Users /\ MaxSubmits \in Nat \ {0}

VARIABLES
  page,     \* the cached game and the state of the component
  get,      \* GET /api/game/current in flight
  start,    \* POST /api/game/start in flight
  posts,    \* the guesses submitted so far
  tally     \* history: submissions the page saw accepted, and gave up on

pageVars == <<vars, page, get, start, posts, tally>>

(* The body of an answer: the game of a puzzle, the puzzle before it is    *)
(* started, or neither.                                                    *)
NoPuzzle == [pid |-> None, game |-> None, guesses |-> {}]

GameOf(ps, gs, p) ==
  [pid |-> p, game |-> IF ps[p][Me].status = "NONE" THEN None ELSE ps[p][Me], guesses |-> gs[p][Me]]

(* `timer': the one that bounds the guess waited for is armed.             *)
Fresh == [data |-> None, input |-> None, expired |-> FALSE, waiting |-> 0, timer |-> FALSE]

Quiet       == [pc |-> "none", answer |-> None]
Sent        == [pc |-> "sent", answer |-> None]
Answered(a) == [pc |-> "answered", answer |-> a]

NoPost == [pc |-> "none", pid |-> None, word |-> None, sentAt |-> 0, code |-> "", answer |-> None]

PageInit ==
  /\ Init
  /\ page = Fresh
  /\ get = Sent
  /\ start = Quiet
  /\ posts = [n \in Submits |-> NoPost]
  /\ tally = [accepted |-> 0, givenUp |-> 0]

ServerUnchanged == UNCHANGED vars
WireUnchanged   == UNCHANGED <<get, start, posts>>

-----------------------------------------------------------------------------
(* The server *)

TodaysPuzzles == {p \in Puzzles : IsRow(dailyPuzzles[p]) /\ dailyPuzzles[p].date = ManilaDate(now)}

CurrentGame ==
  IF TodaysPuzzles = {} THEN NoPuzzle
  ELSE GameOf(games, guesses, CHOOSE p \in TodaysPuzzles : TRUE)

(* getCurrentGame runs outside a transaction: the game row is read first,  *)
(* the guesses in a later statement.                                       *)
ReadGame ==
  /\ get.pc = "sent"
  /\ get' = [pc |-> IF CurrentGame.game = None THEN "answered" ELSE "read", answer |-> CurrentGame]
  /\ ServerUnchanged /\ UNCHANGED <<page, start, posts, tally>>

ReadGuesses ==
  /\ get.pc = "read"
  /\ get' = Answered([get.answer EXCEPT !.guesses = guesses[get.answer.pid][Me]])
  /\ ServerUnchanged /\ UNCHANGED <<page, start, posts, tally>>

ServeStart ==
  /\ start.pc = "sent"
  /\ \E p \in Puzzles : Start(Me, p, now) /\ start' = Answered(GameOf(games', guesses', p))
  /\ UNCHANGED <<page, get, posts, tally>>

(* A start nobody waits for is served: the page gave up on it or was       *)
(* reloaded, or it came from another tab.                                  *)
LateStart ==
  /\ \E p \in Puzzles : Start(Me, p, now)
  /\ UNCHANGED <<page, get, start, posts, tally>>

(* The transaction began at some moment since the guess was sent. *)
ServeGuess(n) ==
  /\ posts[n].pc = "sent"
  /\ \E ts \in posts[n].sentAt..now : Guess(Me, posts[n].pid, posts[n].word, ts)
  /\ posts' = [posts EXCEPT ![n].pc = "answered", ![n].code = "OK",
                            ![n].answer = GameOf(games', guesses', posts[n].pid)]
  /\ UNCHANGED <<page, get, start, tally>>

RefuseGuess(n) ==
  LET row == dailyPuzzles[posts[n].pid] IN
  /\ posts[n].pc = "sent"
  /\ \/ /\ (row.status # "ACTIVE" \/ row.expiresAt <= now)
        /\ posts' = [posts EXCEPT ![n].pc = "answered", ![n].code = "GAME_EXPIRED"]
     \/ /\ row.status = "ACTIVE"
        /\ games[posts[n].pid][Me].status # "ACTIVE"
        /\ posts' = [posts EXCEPT ![n].pc = "answered", ![n].code = "GAME_NOT_ACTIVE"]
  /\ ServerUnchanged /\ UNCHANGED <<page, get, start, tally>>

(* The rest of the server: time passes, an expired puzzle is settled. *)
Background ==
  /\ Tick \/ \E p \in Puzzles : Settle(p, now)
  /\ UNCHANGED <<page, get, start, posts, tally>>

-----------------------------------------------------------------------------
(* currentQuery: fetched on mount, and again on a reconnect or `Try again' *)

Refetch ==
  /\ get.pc = "none"
  /\ get' = Sent
  /\ ServerUnchanged /\ UNCHANGED <<page, start, posts, tally>>

GetArrives ==
  /\ get.pc = "answered"
  /\ page' = [page EXCEPT !.data = get.answer]
  /\ get' = Quiet
  /\ ServerUnchanged /\ UNCHANGED <<start, posts, tally>>

GetFails ==
  /\ get.pc # "none"
  /\ get' = Quiet
  /\ ServerUnchanged /\ UNCHANGED <<page, start, posts, tally>>

-----------------------------------------------------------------------------
(* Starting, typing, guessing *)

handleStart ==
  /\ page.data # None /\ page.data.pid # None /\ page.data.game = None
  /\ start.pc = "none"
  /\ start' = Sent
  /\ ServerUnchanged /\ UNCHANGED <<page, get, posts, tally>>

StartArrives ==
  /\ start.pc = "answered"
  /\ page' = [page EXCEPT !.data = start.answer, !.input = None]
  /\ start' = Quiet
  /\ ServerUnchanged /\ UNCHANGED <<get, posts, tally>>

StartFails ==
  /\ start.pc # "none"
  /\ start' = Quiet
  /\ ServerUnchanged /\ UNCHANGED <<page, get, posts, tally>>

(* A wrong variant: typing goes on while a guess is pending. *)
AlwaysEditing ==
  /\ page.data # None /\ page.data.game # None
  /\ page.data.game.status = "ACTIVE" /\ ~page.expired

editing ==
  /\ page.waiting = 0 /\ start.pc = "none" /\ ~page.expired
  /\ page.data # None /\ page.data.game # None
  /\ page.data.game.status = "ACTIVE"

(* handleKey and handleBackspace, up to a whole word. *)
Type(w) ==
  /\ editing
  /\ page' = [page EXCEPT !.input = w]
  /\ ServerUnchanged /\ WireUnchanged /\ UNCHANGED tally

Unused == {n \in Submits : posts[n].pc = "none"}
NextPost == CHOOSE n \in Unused : TRUE

Post(n, p, w) ==
  posts' = [posts EXCEPT ![n] = [NoPost EXCEPT !.pc = "sent", !.pid = p, !.word = w, !.sentAt = now]]

(* A wrong variant: the page draws the guess before the server has it. *)
EnterOptimistically ==
  /\ editing /\ page.input # None /\ Unused # {}
  /\ Post(NextPost, page.data.pid, page.input)
  /\ page' = [page EXCEPT !.waiting = NextPost, !.timer = TRUE, !.data.game.guessCount = @ + 1]
  /\ ServerUnchanged /\ UNCHANGED <<get, start, tally>>

handleEnter ==
  /\ editing /\ page.input # None /\ Unused # {}
  /\ Post(NextPost, page.data.pid, page.input)
  /\ page' = [page EXCEPT !.waiting = NextPost, !.timer = TRUE]
  /\ ServerUnchanged /\ UNCHANGED <<get, start, tally>>

(* The headers of an OK are in: `return res.json()' leaves the try block,  *)
(* and `finally' clears the timer before the body has come.                *)
HeadersArrive ==
  /\ page.timer /\ posts[page.waiting].pc = "answered" /\ posts[page.waiting].code = "OK"
  /\ page' = [page EXCEPT !.timer = FALSE]
  /\ ServerUnchanged /\ WireUnchanged /\ UNCHANGED tally

GuessArrives ==
  LET post == posts[page.waiting] IN
  /\ page.waiting # 0 /\ ~page.timer /\ post.pc = "answered" /\ post.code = "OK"
  /\ page' = [page EXCEPT !.waiting = 0, !.data = post.answer, !.input = None]
  /\ tally' = [tally EXCEPT !.accepted = @ + 1]
  /\ ServerUnchanged /\ UNCHANGED <<get, start, posts>>

(* An error keeps what was typed; its body is awaited under the timer. *)
RefusalArrives ==
  LET post == posts[page.waiting] IN
  /\ page.waiting # 0 /\ post.pc = "answered" /\ post.code # "OK"
  /\ page' = [page EXCEPT !.waiting = 0, !.timer = FALSE,
                          !.expired = @ \/ post.code = "GAME_EXPIRED"]
  /\ ServerUnchanged /\ WireUnchanged /\ UNCHANGED tally

(* A wrong variant: the client sends a timed-out guess again by itself. *)
TimeoutRetry ==
  /\ page.timer /\ Unused # {}
  /\ Post(NextPost, posts[page.waiting].pid, posts[page.waiting].word)
  /\ page' = [page EXCEPT !.waiting = NextPost]
  /\ ServerUnchanged /\ UNCHANGED <<get, start, tally>>

(* The page gives up, and the server may not. *)
GiveUp ==
  /\ page.waiting # 0
  /\ page' = [page EXCEPT !.waiting = 0, !.timer = FALSE]
  /\ tally' = [tally EXCEPT !.givenUp = @ + 1]
  /\ ServerUnchanged /\ WireUnchanged

(* GUESS_REQUEST_TIMEOUT_MS passed without the headers of an answer. *)
Timeout == page.timer /\ GiveUp

(* The browser reports a broken connection, before the headers or after. *)
ConnectionLost == GiveUp

Reload ==
  /\ page' = Fresh
  /\ get' = Sent
  /\ start' = Quiet
  /\ tally' = [tally EXCEPT !.givenUp = @ + IF page.waiting = 0 THEN 0 ELSE 1]
  /\ ServerUnchanged /\ UNCHANGED posts

(* A guess never reaches the server, or dies with its worker. *)
PostLost(n) ==
  /\ posts[n].pc = "sent"
  /\ posts' = [posts EXCEPT ![n].pc = "lost"]
  /\ ServerUnchanged /\ UNCHANGED <<page, get, start, tally>>

-----------------------------------------------------------------------------
PageNext ==
  \/ ReadGame \/ ReadGuesses \/ ServeStart \/ LateStart \/ Background
  \/ \E n \in Submits : ServeGuess(n) \/ RefuseGuess(n) \/ PostLost(n)
  \/ Refetch \/ GetArrives \/ GetFails
  \/ handleStart \/ StartArrives \/ StartFails
  \/ \E w \in Words \cup {None} : Type(w)
  \/ handleEnter \/ HeadersArrive \/ GuessArrives \/ RefusalArrives
  \/ Timeout \/ ConnectionLost \/ Reload

PageSpec == PageInit /\ [][PageNext]_pageVars

-----------------------------------------------------------------------------
(* Properties *)

Shown  == {row \in GameRow : row.status # "NONE"}
Answer == [pid: Puzzles \cup {None}, game: Shown \cup {None}, guesses: SUBSET GuessRow]
Wire   == [pc: {"none", "sent", "read", "answered"}, answer: Answer \cup {None}]

Component ==
  [data: Answer \cup {None}, input: Words \cup {None}, expired: BOOLEAN, waiting: Submits \cup {0},
   timer: BOOLEAN]

Submission ==
  [pc: {"none", "sent", "answered", "lost"}, pid: Puzzles \cup {None}, word: Words \cup {None},
   sentAt: Time, code: {"", "OK", "GAME_EXPIRED", "GAME_NOT_ACTIVE"}, answer: Answer \cup {None}]

(* Types; a game not begun is never shown as one, a guess is only ever     *)
(* submitted to a game, and the timer is armed for one waited for.         *)
PageTypeOK ==
  /\ page \in Component /\ (page.timer => page.waiting # 0)
  /\ get \in Wire /\ start \in Wire
  /\ posts \in [Submits -> Submission]
  /\ \A n \in Submits : posts[n].pc # "none" => posts[n].pid # None /\ posts[n].word # None
  /\ tally \in [accepted: 0..MaxSubmits, givenUp: 0..MaxSubmits]

(* The board is never made up or ahead of the server: whatever order the   *)
(* answers arrived in, the rows it draws are the first guesses of the      *)
(* game, at least as many as the game it shows had, and the outcome it     *)
(* announces is the real one.                                              *)
ShowsAPastState ==
  page.data # None /\ page.data.game # None =>
    LET shown == page.data.game
        real == games[page.data.pid][Me]
        rows == guesses[page.data.pid][Me]
    IN
    /\ \E k \in shown.guessCount..real.guessCount :
         page.data.guesses = {g \in rows : g.number <= k}
    /\ shown.startedAt = real.startedAt
    /\ shown.status # "ACTIVE" => shown = real

(* "<= 1 extra attempt lost per timeout": the attempts the server counts   *)
(* are those the page saw accepted, and at most one for each submission it *)
(* waits for or gave up on.                                                *)
CountedAttempts ==
  {a \in Puzzles \X (1..MaxGuesses) : a[2] <= games[a[1]][Me].guessCount}

AttemptsAccounted ==
  Cardinality(CountedAttempts)
    <= tally.accepted + tally.givenUp + (IF page.waiting = 0 THEN 0 ELSE 1)

(* Letters disappear only by the player's own hand, when another game is   *)
(* begun, or when the word they spelled has been counted: not on an error  *)
(* or a timeout, and not letters typed since.                              *)
LettersKept ==
  [][page.input # None /\ page'.input = None =>
       \/ Type(None) \/ Reload \/ StartArrives
       \/ \E p \in Puzzles : \E g \in guesses[p][Me] : g.word = page.input]_pageVars
=============================================================================
