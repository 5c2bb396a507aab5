--------------------------- MODULE PlayPageProofs ---------------------------
(***************************************************************************)
(* The safety properties of the play page hold in every behaviour of       *)
(* PlayPage, for every value of its constants: whatever order the answers  *)
(* arrive in, and however many are given up on.  The second part is about  *)
(* what the page shows of its guesses, over the Board of Pages: the tiles  *)
(* of evaluateGuess and the colours of the keyboard.                       *)
(***************************************************************************)
EXTENDS PlayPage, DailyContestProofs, Pages, FiniteSetTheorems, Sequences

(* The game shown in `a' is an earlier state of the one in the tables.     *)
PastIn(a, gs, rs) ==
  a.game # None =>
    LET real == gs[a.pid][Me]
        rows == rs[a.pid][Me]
    IN
    /\ a.pid \in Puzzles /\ real.status # "NONE"
    /\ \E k \in a.game.guessCount..real.guessCount : a.guesses = {g \in rows : g.number <= k}
    /\ a.game.startedAt = real.startedAt
    /\ a.game.status # "ACTIVE" => a.game = real

Past(a) == PastIn(a, games, guesses)

(* The shapes of the page's state, its counters unbounded. *)
PageShapes ==
  /\ page \in Component /\ (page.timer => page.waiting # 0)
  /\ get \in Wire /\ start \in Wire
  /\ posts \in [Submits -> Submission]
  /\ tally \in [accepted: Nat, givenUp: Nat]

(* Every answer held anywhere, arrived or on its way, shows a past state.  *)
AnswersPast ==
  /\ page.data # None => page.data \in Answer /\ Past(page.data)
  /\ get.pc \in {"read", "answered"} => get.answer \in Answer /\ Past(get.answer)
  /\ get.pc = "read" => get.answer.game # None
  /\ start.pc \in {"read", "answered"} => start.answer \in Answer /\ Past(start.answer)
  /\ \A n \in Submits : posts[n].code = "OK" => posts[n].answer \in Answer /\ Past(posts[n].answer)

(* A submission was made to a game, and one accepted has its row there.    *)
PostsSound ==
  \A n \in Submits :
    /\ posts[n].pc \in {"none", "sent"} => posts[n].code = ""
    /\ posts[n].pc = "answered" => posts[n].code # ""
    /\ posts[n].pc # "none" => posts[n].pid \in Puzzles /\ posts[n].word \in Words
    /\ posts[n].pc # "none" => posts[n].pid # None /\ posts[n].word # None
    /\ posts[n].code = "OK" =>
         posts[n].pc # "none" /\ \E g \in guesses[posts[n].pid][Me] : g.word = posts[n].word

(* While the page waits, the row it draws is the word it sent. *)
WaitsForItsWord ==
  page.waiting # 0 =>
    /\ posts[page.waiting].pc # "none"
    /\ page.input # None => posts[page.waiting].word = page.input

Refusals == {"GAME_EXPIRED", "GAME_NOT_ACTIVE"}

Counts    == {n \in Submits : posts[n].code = "OK"}
LetGo     == {n \in Submits : posts[n].pc # "none" /\ n # page.waiting}
Unrefused == {n \in LetGo : posts[n].code \notin Refusals}

(* An attempt costs a submission; a submission the page is done with was   *)
(* refused, or is in the tally.                                            *)
TallyCounts ==
  /\ IsFiniteSet(CountedAttempts)
  /\ Cardinality(CountedAttempts) <= Cardinality(Counts)
  /\ Cardinality(Unrefused) <= tally.accepted + tally.givenUp
  /\ tally.accepted + tally.givenUp <= Cardinality(LetGo)

PageInv == PageShapes /\ AnswersPast /\ PostsSound /\ WaitsForItsWord /\ TallyCounts

-----------------------------------------------------------------------------
(* The server under the page *)

(* Every step of the page is a step of the contest, or leaves it alone.    *)
LEMMA ServerStep ==
  ASSUME TableInv, PageInv, [PageNext]_pageVars
  PROVE  [Next]_vars
  <1>0. now \in Time /\ now \in Int /\ MaxTime \in Nat
    BY BoundsAssumption DEF TableInv, TablesType, Time
  <1>1. CASE ServeStart \/ LateStart
    BY <1>0, <1>1, PageAssumption DEF ServeStart, LateStart, Next, Step
  <1>2. ASSUME NEW n \in Submits, ServeGuess(n) PROVE Next
    <2>1. posts[n].pid \in Puzzles /\ posts[n].word \in Words /\ posts[n].sentAt \in Time
      BY <1>2 DEF PageInv, PageShapes, Submission, PostsSound, ServeGuess
    <2>2. PICK ts \in posts[n].sentAt..now : Guess(Me, posts[n].pid, posts[n].word, ts)
      BY <1>2 DEF ServeGuess
    <2>3. ts \in Time /\ ts <= now
      BY <1>0, <2>1, <2>2 DEF Time
    <2> QED
      BY <2>1, <2>2, <2>3, PageAssumption DEF Next, Step
  <1>3. CASE Background
    BY <1>0, <1>3 DEF Background, Next, Step
  <1>4. CASE UNCHANGED vars
    BY <1>4
  <1> QED
    BY <1>1, <1>2, <1>3, <1>4
    DEF PageNext, pageVars, ServerUnchanged, ReadGame, ReadGuesses, RefuseGuess, PostLost, Refetch,
        GetArrives, GetFails, handleStart, StartArrives, StartFails, Type, handleEnter,
        HeadersArrive, GuessArrives, RefusalArrives, Timeout, ConnectionLost, GiveUp, Reload

(* What was a past state stays one, whatever the server does next.         *)
LEMMA PastStays ==
  ASSUME TableInv, [Next]_vars, NEW a \in Answer, PastIn(a, games, guesses)
  PROVE  PastIn(a, games', guesses')
  <1> SUFFICES ASSUME a.game # None PROVE PastIn(a, games', guesses')
    BY DEF PastIn
  <1> DEFINE real == games[a.pid][Me]
             next == games'[a.pid][Me]
  <1>1. /\ a.pid \in Puzzles /\ real.status # "NONE" /\ a.game.startedAt = real.startedAt
        /\ a.game.status # "ACTIVE" => a.game = real
    BY DEF PastIn
  <1>2. PICK k \in a.game.guessCount..real.guessCount :
          a.guesses = {g \in guesses[a.pid][Me] : g.number <= k}
    BY DEF PastIn
  <1>3. real.guessCount \in Nat /\ a.game.guessCount \in Nat
    BY <1>1, PageAssumption, BoundsAssumption DEF TableInv, TablesType, Answer, Shown, GameRow
  <1>4. next.guessCount \in Nat
    <2>1. TableInv'
      BY TableStep
    <2> QED
      BY <1>1, <2>1, PageAssumption, BoundsAssumption DEF TableInv, TablesType, GameRow
  <1>5. /\ next.status # "NONE" /\ next.startedAt = real.startedAt
        /\ real.status # "ACTIVE" => next = real
        /\ real.guessCount <= next.guessCount
        /\ \A m \in 0..real.guessCount :
             {g \in guesses'[a.pid][Me] : g.number <= m} = {g \in guesses[a.pid][Me] : g.number <= m}
    BY <1>1, GameGrows, PageAssumption
  <1>6. k \in 0..real.guessCount /\ k \in a.game.guessCount..next.guessCount
    BY <1>2, <1>3, <1>4, <1>5
  <1>7. a.guesses = {g \in guesses'[a.pid][Me] : g.number <= k}
    BY <1>2, <1>5, <1>6
  <1> HIDE DEF real, next
  <1> QED
    BY <1>1, <1>5, <1>6, <1>7 DEF PastIn, real, next

(* The answer the server gives about a game shows its present state. *)
LEMMA PresentIsPast ==
  ASSUME TableInv, NEW p \in Puzzles
  PROVE  /\ GameOf(games, guesses, p) \in Answer
         /\ Past(GameOf(games, guesses, p))
         /\ GameOf(games, guesses, p).pid = p
  <1> DEFINE real == games[p][Me]
             rows == guesses[p][Me]
             a == GameOf(games, guesses, p)
  <1>1. real \in GameRow /\ rows \in SUBSET GuessRow /\ real.guessCount \in Nat
    BY PageAssumption, BoundsAssumption DEF TableInv, TablesType, GameRow
  <1>2. \A g \in rows : g.number <= real.guessCount
    BY PageAssumption DEF TableInv, GameInv, GuessesExplainStatus
  <1>3. a.pid = p /\ a.guesses = rows /\ a.game = IF real.status = "NONE" THEN None ELSE real
    BY DEF GameOf
  <1>4. a \in Answer
    BY <1>1 DEF GameOf, Answer, Shown
  <1>5. ASSUME a.game # None PROVE PastIn(a, games, guesses)
    <2>1. real.status # "NONE" /\ a.game = real
      BY <1>3, <1>5
    <2>2. rows = {g \in rows : g.number <= real.guessCount}
      BY <1>2
    <2>3. real.guessCount \in real.guessCount..real.guessCount
      BY <1>1
    <2> HIDE DEF a
    <2> QED
      BY <1>3, <2>1, <2>2, <2>3 DEF PastIn
  <1>6. Past(a)
    BY <1>5 DEF Past, PastIn
  <1> QED
    BY <1>3, <1>4, <1>6

(* So is what GET /api/game/current reads. *)
LEMMA CurrentIsPast ==
  ASSUME TableInv
  PROVE  /\ CurrentGame \in Answer /\ Past(CurrentGame)
         /\ CurrentGame.game # None => CurrentGame.pid \in Puzzles
  <1>1. CASE TodaysPuzzles = {}
    BY <1>1 DEF CurrentGame, NoPuzzle, Answer, Past, PastIn
  <1>2. CASE TodaysPuzzles # {}
    <2> DEFINE p == CHOOSE q \in TodaysPuzzles : TRUE
    <2>1. p \in Puzzles
      BY <1>2 DEF TodaysPuzzles
    <2>2. CurrentGame = GameOf(games, guesses, p)
      BY <1>2 DEF CurrentGame
    <2> HIDE DEF p
    <2> QED
      BY <2>1, <2>2, PresentIsPast
  <1> QED
    BY <1>1, <1>2

-----------------------------------------------------------------------------
(* The guesses read last are all of them, and fit the game read first. *)
LEMMA ReadLaterIsPast ==
  ASSUME TableInv, NEW a \in Answer, Past(a), a.game # None
  PROVE  LET b == [a EXCEPT !.guesses = guesses[a.pid][Me]] IN b \in Answer /\ Past(b)
  <1> DEFINE real == games[a.pid][Me]
             rows == guesses[a.pid][Me]
             b == [a EXCEPT !.guesses = rows]
  <1>1. /\ a.pid \in Puzzles /\ real.status # "NONE" /\ a.game.startedAt = real.startedAt
        /\ a.game.status # "ACTIVE" => a.game = real
        /\ \E k \in a.game.guessCount..real.guessCount : TRUE
    BY DEF Past, PastIn
  <1>2. /\ real.guessCount \in Nat /\ a.game.guessCount \in Nat /\ rows \in SUBSET GuessRow
        /\ \A g \in rows : g.number <= real.guessCount
    BY <1>1, PageAssumption, BoundsAssumption
    DEF TableInv, TablesType, GameInv, GuessesExplainStatus, Answer, Shown, GameRow
  <1>3. b \in Answer /\ b.pid = a.pid /\ b.game = a.game /\ b.guesses = rows
    BY <1>2 DEF Answer
  <1>4. rows = {g \in rows : g.number <= real.guessCount}
    BY <1>2
  <1>5. real.guessCount \in a.game.guessCount..real.guessCount
    BY <1>1, <1>2
  <1> HIDE DEF b
  <1>6. PastIn(b, games, guesses)
    BY <1>1, <1>3, <1>4, <1>5 DEF PastIn
  <1> QED
    BY <1>3, <1>6 DEF Past, b

-----------------------------------------------------------------------------
(* Steps of the page *)

PresentShown ==
  \A p \in Puzzles : GameOf(games, guesses, p) \in Answer /\ Past(GameOf(games, guesses, p))

(* An answer made in a state shows that state. *)
LEMMA PresentIsShown == TableInv => PresentShown
  BY PresentIsPast DEF PresentShown

(* An answer made in a step shows the state the step leaves. *)
LEMMA PresentShownNext ==
  ASSUME TableInv, TableInv'
  PROVE  \A p \in Puzzles : /\ GameOf(games', guesses', p) \in Answer
                            /\ PastIn(GameOf(games', guesses', p), games', guesses')
  <1>1. TableInv' => PresentShown'
    BY PresentIsShown, PTL
  <1> QED
    BY <1>1 DEF PresentShown, Past

(* What becomes of a submission in a step. *)
Served(n) ==
  /\ ServeGuess(n) /\ posts[n].pc = "sent"
  /\ posts'[n] = [posts[n] EXCEPT !.pc = "answered", !.code = "OK",
                                  !.answer = GameOf(games', guesses', posts[n].pid)]

Refused(n) ==
  /\ posts[n].pc = "sent" /\ UNCHANGED page /\ UNCHANGED tally /\ UNCHANGED games
  /\ \E c \in {"GAME_EXPIRED", "GAME_NOT_ACTIVE"} :
       posts'[n] = [posts[n] EXCEPT !.pc = "answered", !.code = c]

Lost(n) ==
  /\ posts[n].pc = "sent" /\ UNCHANGED page /\ UNCHANGED tally /\ UNCHANGED games
  /\ posts'[n] = [posts[n] EXCEPT !.pc = "lost"]

Posted(n) ==
  /\ handleEnter /\ posts[n].pc = "none" /\ n = NextPost
  /\ posts'[n] = [NoPost EXCEPT !.pc = "sent", !.pid = page.data.pid, !.word = page.input,
                                !.sentAt = now]

OnlyPost(n) == \A m \in Submits \ {n} : posts'[m] = posts[m]

(* A step touches at most one submission. *)
LEMMA PostsWrites ==
  ASSUME PageShapes, [PageNext]_pageVars
  PROVE  /\ posts' = [n \in Submits |-> posts'[n]]
         /\ \/ UNCHANGED posts /\ ~handleEnter
            \/ \E n \in Submits : OnlyPost(n) /\ (Served(n) \/ Refused(n) \/ Lost(n) \/ Posted(n))
  <1>1. posts = [n \in Submits |-> posts[n]]
    BY DEF PageShapes
  <1>2. ASSUME NEW n \in Submits, ServeGuess(n)
        PROVE  posts' = [m \in Submits |-> posts'[m]] /\ OnlyPost(n) /\ Served(n)
    BY <1>1, <1>2 DEF ServeGuess, OnlyPost, Served
  <1>3. ASSUME NEW n \in Submits, RefuseGuess(n)
        PROVE  posts' = [m \in Submits |-> posts'[m]] /\ OnlyPost(n) /\ Refused(n)
    <2>1. PICK c \in {"GAME_EXPIRED", "GAME_NOT_ACTIVE"} :
            posts' = [posts EXCEPT ![n].pc = "answered", ![n].code = c]
      BY <1>3 DEF RefuseGuess
    <2>2. posts'[n] = [posts[n] EXCEPT !.pc = "answered", !.code = c]
      BY <1>1, <2>1
    <2>3. posts' = [m \in Submits |-> posts'[m]] /\ OnlyPost(n)
      BY <1>1, <2>1 DEF OnlyPost
    <2>4. /\ posts[n].pc = "sent" /\ UNCHANGED page /\ UNCHANGED tally /\ UNCHANGED games
      BY <1>3 DEF RefuseGuess, ServerUnchanged, vars
    <2> QED
      BY <2>2, <2>3, <2>4 DEF Refused
  <1>4. ASSUME NEW n \in Submits, PostLost(n)
        PROVE  posts' = [m \in Submits |-> posts'[m]] /\ OnlyPost(n) /\ Lost(n)
    BY <1>1, <1>4 DEF PostLost, OnlyPost, Lost, ServerUnchanged, vars
  <1>5. CASE handleEnter
    <2>1. NextPost \in Submits /\ posts[NextPost].pc = "none"
      BY <1>5 DEF handleEnter, NextPost, Unused
    <2>2. /\ posts' = [m \in Submits |-> posts'[m]] /\ OnlyPost(NextPost)
          /\ posts'[NextPost] = [NoPost EXCEPT !.pc = "sent", !.pid = page.data.pid,
                                               !.word = page.input, !.sentAt = now]
      BY <1>1, <1>5, <2>1 DEF handleEnter, Post, OnlyPost
    <2> QED
      BY <1>5, <2>1, <2>2 DEF Posted
  <1>6. CASE UNCHANGED posts
    BY <1>1, <1>5, <1>6
  <1> QED
    BY <1>2, <1>3, <1>4, <1>5, <1>6
    DEF PageNext, pageVars, ReadGame, ReadGuesses, ServeStart, LateStart, Background, Refetch,
        GetArrives, GetFails, handleStart, StartArrives, StartFails, Type, HeadersArrive,
        GuessArrives, RefusalArrives, Timeout, ConnectionLost, GiveUp, Reload, WireUnchanged

(* Where what the page holds after a step comes from. *)
LEMMA PageDataStep ==
  ASSUME PageInv, [PageNext]_pageVars
  PROVE  \/ page'.data = page.data \/ page'.data = None
         \/ get.pc = "answered" /\ page'.data = get.answer
         \/ start.pc = "answered" /\ page'.data = start.answer
         \/ /\ page.waiting \in Submits /\ posts[page.waiting].code = "OK"
            /\ page'.data = posts[page.waiting].answer
  <1>1. page \in Component
    BY DEF PageInv, PageShapes
  <1>2. CASE GetArrives \/ StartArrives
    BY <1>1, <1>2 DEF Component, GetArrives, StartArrives
  <1>3. CASE GuessArrives
    BY <1>1, <1>3 DEF Component, GuessArrives
  <1>4. CASE RefusalArrives
    BY <1>1, <1>4 DEF Component, RefusalArrives
  <1>7. CASE HeadersArrive \/ Timeout \/ ConnectionLost
    BY <1>1, <1>7 DEF Component, HeadersArrive, Timeout, ConnectionLost, GiveUp
  <1>8. CASE handleEnter
    BY <1>1, <1>8 DEF Component, handleEnter
  <1>9. CASE Reload
    BY <1>1, <1>9 DEF Component, Reload, Fresh
  <1>5. ASSUME NEW w, Type(w) PROVE page'.data = page.data
    BY <1>1, <1>5 DEF Component, Type
  <1>6. CASE UNCHANGED page
    BY <1>6
  <1> QED
    BY <1>2, <1>3, <1>4, <1>5, <1>6, <1>7, <1>8, <1>9
    DEF PageNext, pageVars, ReadGame, ReadGuesses, ServeStart, ServeGuess, RefuseGuess, PostLost,
        Background, Refetch, GetFails, handleStart, StartFails, LateStart

(* Where the answers on their way after a step come from. *)
LEMMA WireStep ==
  ASSUME PageInv, [PageNext]_pageVars
  PROVE  /\ \/ get' = get \/ get' = Sent \/ get' = Quiet \/ ReadGame \/ ReadGuesses
         /\ \/ start' = start \/ start' = Sent \/ start' = Quiet
            \/ \E p \in Puzzles : start' = Answered(GameOf(games', guesses', p))
         /\ \A n \in Submits : posts'[n].code = "OK" =>
              \/ posts[n].code = "OK" /\ posts'[n].answer = posts[n].answer
              \/ posts[n].pid \in Puzzles /\ posts'[n].answer = GameOf(games', guesses', posts[n].pid)
  <1>1. /\ \/ get' = get \/ get' = Sent \/ get' = Quiet \/ ReadGame \/ ReadGuesses
        /\ \/ start' = start \/ start' = Sent \/ start' = Quiet
           \/ \E p \in Puzzles : start' = Answered(GameOf(games', guesses', p))
    BY DEF PageNext, pageVars, ReadGame, ReadGuesses, ServeStart, ServeGuess, RefuseGuess, PostLost,
           LateStart, Background, Refetch, GetArrives, GetFails, handleStart, StartArrives, StartFails,
           Type, handleEnter, HeadersArrive, GuessArrives, RefusalArrives, Timeout, ConnectionLost,
           GiveUp, Reload, WireUnchanged
  <1>2. PageShapes /\ PostsSound
    BY DEF PageInv
  <1>3. ASSUME NEW n \in Submits, posts'[n].code = "OK"
        PROVE  \/ posts[n].code = "OK" /\ posts'[n].answer = posts[n].answer
               \/ /\ posts[n].pid \in Puzzles
                  /\ posts'[n].answer = GameOf(games', guesses', posts[n].pid)
    <2>0. posts[n] \in Submission
      BY <1>2 DEF PageShapes
    <2>1. CASE posts'[n] = posts[n]
      BY <1>3, <2>1
    <2>2. CASE Served(n)
      BY <1>2, <2>0, <2>2 DEF Served, Submission, PostsSound
    <2>3. CASE Refused(n)
      BY <1>3, <2>0, <2>3 DEF Refused, Submission
    <2>4. CASE Lost(n)
      BY <1>3, <2>0, <2>4 DEF Lost, Submission
    <2>5. CASE Posted(n)
      BY <1>3, <2>5 DEF Posted, NoPost
    <2> QED
      BY <1>2, <2>1, <2>2, <2>3, <2>4, <2>5, PostsWrites DEF OnlyPost
  <1> QED
    BY <1>1, <1>3

(* Every answer held after a step shows a past state again. *)
LEMMA AnswersStep ==
  ASSUME TableInv, PageInv, [PageNext]_pageVars
  PROVE  AnswersPast'
  <1>1. [Next]_vars /\ TableInv'
    BY ServerStep, TableStep
  <1>2. \A a \in Answer : Past(a) => PastIn(a, games', guesses')
    BY <1>1, PastStays DEF Past
  <1>3. \A p \in Puzzles : /\ GameOf(games', guesses', p) \in Answer
                           /\ PastIn(GameOf(games', guesses', p), games', guesses')
    BY <1>1, PresentShownNext
  <1>4. AnswersPast
    BY DEF PageInv
  <1>5. page'.data # None => page'.data \in Answer /\ PastIn(page'.data, games', guesses')
    <2>1. \/ page'.data = page.data \/ page'.data = None
          \/ get.pc = "answered" /\ page'.data = get.answer
          \/ start.pc = "answered" /\ page'.data = start.answer
          \/ /\ page.waiting \in Submits /\ posts[page.waiting].code = "OK"
             /\ page'.data = posts[page.waiting].answer
      BY PageDataStep
    <2> QED
      BY <1>2, <1>4, <2>1 DEF AnswersPast
  <1>6. /\ get'.pc \in {"read", "answered"} =>
             get'.answer \in Answer /\ PastIn(get'.answer, games', guesses')
        /\ get'.pc = "read" => get'.answer.game # None
    <2>1. CASE get' = get
      BY <1>2, <1>4, <2>1 DEF AnswersPast
    <2>2. CASE get' = Sent \/ get' = Quiet
      BY <2>2 DEF Sent, Quiet
    <2>3. CASE ReadGame
      BY <1>2, <2>3, CurrentIsPast DEF ReadGame
    <2>4. CASE ReadGuesses
      <3>1. get.answer \in Answer /\ Past(get.answer) /\ get.answer.game # None
        BY <1>4, <2>4 DEF AnswersPast, ReadGuesses
      <3> QED
        BY <1>2, <2>4, <3>1, ReadLaterIsPast DEF ReadGuesses, Answered
    <2> QED
      BY <2>1, <2>2, <2>3, <2>4, WireStep
  <1>7. start'.pc \in {"read", "answered"} =>
          start'.answer \in Answer /\ PastIn(start'.answer, games', guesses')
    <2>1. CASE start' = start
      BY <1>2, <1>4, <2>1 DEF AnswersPast
    <2>2. CASE start' = Sent \/ start' = Quiet
      BY <2>2 DEF Sent, Quiet
    <2>3. CASE \E p \in Puzzles : start' = Answered(GameOf(games', guesses', p))
      BY <1>3, <2>3 DEF Answered
    <2> QED
      BY <2>1, <2>2, <2>3, WireStep
  <1>8. ASSUME NEW n \in Submits, posts'[n].code = "OK"
        PROVE  posts'[n].answer \in Answer /\ PastIn(posts'[n].answer, games', guesses')
    <2>1. \/ posts[n].code = "OK" /\ posts'[n].answer = posts[n].answer
          \/ posts[n].pid \in Puzzles /\ posts'[n].answer = GameOf(games', guesses', posts[n].pid)
      BY <1>8, WireStep
    <2>2. CASE posts[n].pid \in Puzzles /\ posts'[n].answer = GameOf(games', guesses', posts[n].pid)
      BY <1>3, <2>2
    <2>3. CASE posts[n].code = "OK" /\ posts'[n].answer = posts[n].answer
      BY <1>2, <1>4, <2>3 DEF AnswersPast
    <2> QED
      BY <2>1, <2>2, <2>3
  <1> QED
    BY <1>5, <1>6, <1>7, <1>8 DEF AnswersPast, Past

(* The timer is armed for the guess waited for only. *)
LEMMA TimerStep ==
  ASSUME PageShapes, [PageNext]_pageVars
  PROVE  page'.timer => page'.waiting # 0
  <1>1. page \in Component /\ (page.timer => page.waiting # 0)
    BY DEF PageShapes
  <1>2. CASE handleEnter
    BY <1>1, <1>2 DEF Component, handleEnter, NextPost, Unused, Submits
  <1>3. CASE GetArrives \/ StartArrives \/ GuessArrives \/ RefusalArrives
    BY <1>1, <1>3 DEF Component, GetArrives, StartArrives, GuessArrives, RefusalArrives
  <1>4. CASE HeadersArrive \/ Timeout \/ ConnectionLost
    <2>1. HeadersArrive => page'.timer = FALSE
      BY <1>1 DEF Component, HeadersArrive
    <2>2. Timeout \/ ConnectionLost => page'.timer = FALSE
      BY <1>1 DEF Component, Timeout, ConnectionLost, GiveUp
    <2> QED
      BY <1>4, <2>1, <2>2
  <1>7. CASE Reload
    <2>1. page'.timer = FALSE
      BY <1>7 DEF Reload, Fresh
    <2> QED
      BY <2>1
  <1>5. ASSUME NEW w, Type(w) PROVE page'.timer => page'.waiting # 0
    BY <1>1, <1>5 DEF Component, Type
  <1>6. CASE UNCHANGED page
    BY <1>1, <1>6
  <1> QED
    BY <1>2, <1>3, <1>4, <1>5, <1>6, <1>7
    DEF PageNext, pageVars, ReadGame, ReadGuesses, ServeStart, ServeGuess, RefuseGuess, PostLost,
        Background, Refetch, GetFails, handleStart, StartFails, LateStart

(* The shapes are kept. *)
LEMMA ShapesStep ==
  ASSUME TableInv, PageInv, [PageNext]_pageVars
  PROVE  PageShapes'
  <1>1. /\ page \in Component /\ get \in Wire /\ start \in Wire /\ posts \in [Submits -> Submission]
        /\ tally \in [accepted: Nat, givenUp: Nat]
    BY DEF PageInv, PageShapes
  <1>0. now \in Time /\ 0 \in Time
    BY BoundsAssumption DEF TableInv, TablesType, Time
  <1>2. AnswersPast' /\ AnswersPast /\ PostsSound
    BY AnswersStep DEF PageInv
  <1>3. page' \in Component
    <2>0. page'.data \in Answer \cup {None}
      BY <1>2 DEF AnswersPast
    <2>1. CASE GetArrives \/ StartArrives
      BY <1>1, <2>0, <2>1 DEF Component, GetArrives, StartArrives
    <2>2. CASE GuessArrives
      BY <1>1, <2>0, <2>2 DEF Component, GuessArrives
    <2>3. CASE RefusalArrives
      BY <1>1, <2>3 DEF Component, RefusalArrives
    <2>4. CASE HeadersArrive \/ Timeout \/ ConnectionLost
      BY <1>1, <2>4 DEF Component, HeadersArrive, Timeout, ConnectionLost, GiveUp
    <2>5. CASE handleEnter
      BY <1>1, <2>5 DEF Component, handleEnter, NextPost, Unused
    <2>6. CASE Reload
      BY <1>1, <2>6 DEF Component, Reload, Fresh
    <2>7. ASSUME NEW w \in Words \cup {None}, Type(w) PROVE page' \in Component
      BY <1>1, <2>7 DEF Component, Type
    <2>8. CASE UNCHANGED page
      BY <1>1, <2>8
    <2> QED
      BY <2>1, <2>2, <2>3, <2>4, <2>5, <2>6, <2>7, <2>8
      DEF PageNext, pageVars, ReadGame, ReadGuesses, ServeStart, ServeGuess, RefuseGuess, PostLost,
          Background, Refetch, GetFails, handleStart, StartFails, LateStart
  <1>4. get' \in Wire
    <2>1. CASE get' = get
      BY <1>1, <2>1
    <2>4. CASE get' = Sent \/ get' = Quiet
      BY <2>4 DEF Sent, Quiet, Wire
    <2>2. CASE ReadGame
      BY <2>2, CurrentIsPast DEF ReadGame, Wire
    <2>3. CASE ReadGuesses
      <3>1. get'.pc = "answered" /\ get' = [pc |-> "answered", answer |-> get'.answer]
        BY <2>3 DEF ReadGuesses, Answered
      <3> QED
        BY <1>2, <3>1 DEF AnswersPast, Wire
    <2> QED
      BY <2>1, <2>2, <2>3, <2>4, WireStep
  <1>5. start' \in Wire
    <2>1. CASE start' = start
      BY <1>1, <2>1
    <2>3. CASE start' = Sent \/ start' = Quiet
      BY <2>3 DEF Sent, Quiet, Wire
    <2>2. CASE \E p \in Puzzles : start' = Answered(GameOf(games', guesses', p))
      <3>1. start'.pc = "answered" /\ start' = [pc |-> "answered", answer |-> start'.answer]
        BY <2>2 DEF Answered
      <3> QED
        BY <1>2, <3>1 DEF AnswersPast, Wire
    <2> QED
      BY <2>1, <2>2, <2>3, WireStep
  <1>6. posts' \in [Submits -> Submission]
    <2> SUFFICES ASSUME NEW n \in Submits PROVE posts'[n] \in Submission
      BY <1>1, PostsWrites DEF PageInv
    <2>0. posts[n] \in Submission
      BY <1>1
    <2>1. CASE Served(n)
      <3>1. posts'[n].code = "OK" /\ posts'[n].answer = GameOf(games', guesses', posts[n].pid)
        BY <2>0, <2>1 DEF Served, Submission
      <3>2. GameOf(games', guesses', posts[n].pid) \in Answer
        BY <1>2, <3>1 DEF AnswersPast
      <3> QED
        BY <2>0, <2>1, <3>2 DEF Served, Submission
    <2>2. CASE Refused(n)
      BY <2>0, <2>2 DEF Refused, Submission
    <2>3. CASE Lost(n)
      BY <2>0, <2>3 DEF Lost, Submission
    <2>4. CASE Posted(n)
      <3>1. page.data \in Answer /\ page.data.game # None /\ page.data.pid \in Puzzles
        BY <1>2, <2>4 DEF Posted, handleEnter, editing, AnswersPast, Past, PastIn
      <3> QED
        BY <1>0, <1>1, <2>4, <3>1 DEF Posted, NoPost, Submission, Component
    <2> QED
      BY <2>0, <2>1, <2>2, <2>3, <2>4, PostsWrites DEF PageInv, OnlyPost
  <1>7. tally' \in [accepted: Nat, givenUp: Nat]
    <2>1. CASE GuessArrives
      BY <1>1, <2>1 DEF GuessArrives
    <2>2. CASE Timeout \/ ConnectionLost
      BY <1>1, <2>2 DEF Timeout, ConnectionLost, GiveUp
    <2>3. CASE Reload
      BY <1>1, <2>3 DEF Reload
    <2>4. CASE UNCHANGED tally
      BY <1>1, <2>4
    <2> QED
      BY <2>1, <2>2, <2>3, <2>4
      DEF PageNext, pageVars, ReadGame, ReadGuesses, ServeStart, LateStart, ServeGuess, RefuseGuess,
          PostLost, Background, Refetch, GetArrives, GetFails, handleStart, StartArrives, StartFails,
          Type, handleEnter, HeadersArrive, RefusalArrives
  <1>8. page'.timer => page'.waiting # 0
    BY <1>1, TimerStep DEF PageInv, PageShapes
  <1> QED
    BY <1>3, <1>4, <1>5, <1>6, <1>7, <1>8 DEF PageShapes

(* A guess row stays, so the word of an accepted submission keeps it. *)
LEMMA RowsKept ==
  ASSUME TableInv, [Next]_vars, NEW p \in Puzzles
  PROVE  guesses[p][Me] \subseteq guesses'[p][Me]
  <1>1. games[p][Me].status = "NONE" => guesses[p][Me] = {}
    BY PageAssumption DEF TableInv, GameInv, NotBegun
  <1> QED
    BY <1>1, GameGrows, PageAssumption

(* Submissions stay sound. *)
LEMMA PostsStep ==
  ASSUME TableInv, PageInv, [PageNext]_pageVars
  PROVE  PostsSound'
  <1>1. PageShapes /\ AnswersPast /\ PostsSound
    BY DEF PageInv
  <1>2. \A p \in Puzzles : guesses[p][Me] \subseteq guesses'[p][Me]
    BY ServerStep, RowsKept
  <1> SUFFICES ASSUME NEW n \in Submits
               PROVE  /\ posts'[n].pc \in {"none", "sent"} => posts'[n].code = ""
                      /\ posts'[n].pc = "answered" => posts'[n].code # ""
                      /\ posts'[n].pc # "none" => posts'[n].pid \in Puzzles /\ posts'[n].word \in Words
                      /\ posts'[n].pc # "none" => posts'[n].pid # None /\ posts'[n].word # None
                      /\ posts'[n].code = "OK" =>
                           /\ posts'[n].pc # "none"
                           /\ \E g \in guesses'[posts'[n].pid][Me] : g.word = posts'[n].word
    BY DEF PostsSound
  <1>0. posts[n] \in Submission
    BY <1>1 DEF PageShapes
  <1>3. CASE posts'[n] = posts[n]
    <2>1. /\ posts[n].pc \in {"none", "sent"} => posts[n].code = ""
          /\ posts[n].pc = "answered" => posts[n].code # ""
          /\ posts[n].pc # "none" => posts[n].pid \in Puzzles /\ posts[n].word \in Words
          /\ posts[n].pc # "none" => posts[n].pid # None /\ posts[n].word # None
      BY <1>1 DEF PostsSound
    <2>2. ASSUME posts[n].code = "OK"
          PROVE  /\ posts[n].pc # "none"
                 /\ \E g \in guesses'[posts[n].pid][Me] : g.word = posts[n].word
      BY <1>1, <1>2, <2>1, <2>2 DEF PostsSound
    <2> QED
      BY <1>3, <2>1, <2>2
  <1>4. CASE Served(n)
    <2>1. PICK ts : Guess(Me, posts[n].pid, posts[n].word, ts)
      BY <1>4 DEF Served, ServeGuess
    <2>2. /\ posts[n].pid \in Puzzles /\ posts[n].word \in Words
          /\ posts[n].pid # None /\ posts[n].word # None
      BY <1>1, <1>4 DEF PostsSound, Served
    <2>3. \E g \in guesses'[posts[n].pid][Me] : g.word = posts[n].word
      <3> DEFINE p == posts[n].pid
                 g == [number |-> games[p][Me].guessCount + 1, word |-> posts[n].word, at |-> ts]
      <3>1. guesses' = [guesses EXCEPT ![p][Me] = @ \cup {g}]
        BY <2>1 DEF Guess
      <3>2. g.word = posts[n].word
        OBVIOUS
      <3> HIDE DEF g
      <3>3. g \in guesses'[p][Me]
        BY <2>2, <3>1, PageAssumption DEF TableInv, TablesType
      <3> QED
        BY <3>2, <3>3
    <2>4. /\ posts'[n].pc = "answered" /\ posts'[n].code = "OK"
          /\ posts'[n].pid = posts[n].pid /\ posts'[n].word = posts[n].word
      BY <1>0, <1>4 DEF Submission, Served
    <2> QED
      BY <2>2, <2>3, <2>4
  <1>5. CASE Refused(n)
    BY <1>0, <1>1, <1>5 DEF Submission, PostsSound, Refused
  <1>6. CASE Lost(n)
    BY <1>0, <1>1, <1>6 DEF Submission, PostsSound, Lost
  <1>7. CASE Posted(n)
    <2>1. /\ page.data \in Answer /\ page.data.game # None /\ page.data.pid \in Puzzles
          /\ page.input \in Words /\ page.input # None /\ None \notin Puzzles
      BY <1>1, <1>7, NamesAssumption
      DEF Posted, handleEnter, editing, AnswersPast, Past, PastIn, PageShapes, Component
    <2> QED
      BY <1>7, <2>1 DEF Posted, NoPost
  <1> QED
    BY <1>1, <1>3, <1>4, <1>5, <1>6, <1>7, PostsWrites DEF OnlyPost

(* The page keeps waiting for the word it draws. *)
LEMMA WaitsStep ==
  ASSUME TableInv, PageInv, [PageNext]_pageVars
  PROVE  WaitsForItsWord'
  <1>1. PageShapes /\ WaitsForItsWord /\ page \in Component /\ posts \in [Submits -> Submission]
    BY DEF PageInv, PageShapes
  <1>2. CASE page'.waiting = 0
    BY <1>2 DEF WaitsForItsWord
  <1>3. CASE handleEnter
    <2>1. NextPost \in Submits /\ page'.waiting = NextPost /\ page'.input = page.input
      BY <1>1, <1>3 DEF Component, handleEnter, NextPost, Unused
    <2>2. posts'[NextPost].pc = "sent" /\ posts'[NextPost].word = page.input
      BY <1>1, <1>3, <2>1 DEF handleEnter, Post, NoPost
    <2> QED
      BY <2>1, <2>2 DEF WaitsForItsWord
  <1>4. ASSUME ~handleEnter
        PROVE  \A n \in Submits : posts[n].pc # "none" =>
                 posts'[n].pc # "none" /\ posts'[n].word = posts[n].word
    <2> SUFFICES ASSUME NEW n \in Submits, posts[n].pc # "none"
                 PROVE  posts'[n].pc # "none" /\ posts'[n].word = posts[n].word
      OBVIOUS
    <2>0. posts[n] \in Submission
      BY <1>1
    <2>1. CASE Served(n)
      BY <2>0, <2>1 DEF Served, Submission
    <2>2. CASE Refused(n)
      BY <2>0, <2>2 DEF Refused, Submission
    <2>3. CASE Lost(n)
      BY <2>0, <2>3 DEF Lost, Submission
    <2> QED
      BY <1>1, <1>4, <2>1, <2>2, <2>3, PostsWrites DEF OnlyPost, Posted
  <1>5. ASSUME ~handleEnter, page'.waiting = page.waiting, page'.input \in {page.input, None}
        PROVE  WaitsForItsWord'
    BY <1>1, <1>4, <1>5 DEF WaitsForItsWord, Component
  <1>6. ASSUME NEW w, Type(w) PROVE page'.waiting = 0
    BY <1>1, <1>6 DEF Component, Type, editing
  <1>7. CASE GuessArrives \/ RefusalArrives \/ Timeout \/ ConnectionLost \/ Reload
    <2>1. GuessArrives => page'.waiting = 0
      BY <1>1 DEF Component, GuessArrives
    <2>2. RefusalArrives => page'.waiting = 0
      BY <1>1 DEF Component, RefusalArrives
    <2>3. Timeout \/ ConnectionLost => page'.waiting = 0
      BY <1>1 DEF Component, Timeout, ConnectionLost, GiveUp
    <2>4. Reload => page'.waiting = 0
      BY DEF Reload, Fresh
    <2> QED
      BY <1>2, <1>7, <2>1, <2>2, <2>3, <2>4
  <1>8. CASE GetArrives \/ StartArrives \/ HeadersArrive
    BY <1>1, <1>3, <1>5, <1>8 DEF Component, GetArrives, StartArrives, HeadersArrive
  <1>9. CASE UNCHANGED page
    BY <1>3, <1>5, <1>9
  <1> QED
    BY <1>2, <1>3, <1>6, <1>7, <1>8, <1>9
    DEF PageNext, pageVars, ReadGame, ReadGuesses, ServeStart, ServeGuess, RefuseGuess, PostLost,
        Background, Refetch, GetFails, handleStart, StartFails, LateStart

-----------------------------------------------------------------------------
(* Counting attempts *)

(* Sets of submissions are finite. *)
LEMMA SubmitsFinite ==
  ASSUME NEW S \in SUBSET Submits
  PROVE  IsFiniteSet(S) /\ Cardinality(S) \in Nat /\ Cardinality(S) <= MaxSubmits
  <1>1. MaxSubmits \in Int /\ 1 \in Int /\ MaxSubmits >= 1
    BY PageAssumption
  <1>2. IsFiniteSet(Submits) /\ Cardinality(Submits) = MaxSubmits
    BY <1>1, FS_Interval DEF Submits
  <1> QED
    BY <1>2, FS_Subset, FS_CardinalityType

(* A larger set of submissions has no fewer of them, and one more has at   *)
(* most one more.                                                          *)
LEMMA SubmitsGrow ==
  ASSUME NEW S \in SUBSET Submits, NEW T \in SUBSET Submits, NEW n
  PROVE  /\ S \subseteq T => Cardinality(S) <= Cardinality(T)
         /\ T \subseteq S \cup {n} => Cardinality(T) <= Cardinality(S) + 1
         /\ T = S \cup {n} /\ n \notin S => Cardinality(T) = Cardinality(S) + 1
  <1>1. IsFiniteSet(S) /\ IsFiniteSet(T) /\ Cardinality(S) \in Nat /\ Cardinality(T) \in Nat
    BY SubmitsFinite
  <1>2. S \subseteq T => Cardinality(S) <= Cardinality(T)
    BY <1>1, FS_Subset
  <1>3. /\ IsFiniteSet(S \cup {n})
        /\ Cardinality(S \cup {n}) = IF n \in S THEN Cardinality(S) ELSE Cardinality(S) + 1
    BY <1>1, FS_AddElement
  <1>4. T \subseteq S \cup {n} => Cardinality(T) <= Cardinality(S \cup {n})
    BY <1>3, FS_Subset
  <1> QED
    BY <1>1, <1>2, <1>3, <1>4

(* An attempt is counted only when a guess is served. *)
LEMMA AttemptsStep ==
  ASSUME TableInv, PageInv, [PageNext]_pageVars
  PROVE  IsFiniteSet(CountedAttempts)' /\ Cardinality(CountedAttempts') <= Cardinality(Counts')
  <1>1. /\ PageShapes /\ PostsSound /\ IsFiniteSet(CountedAttempts)
        /\ Cardinality(CountedAttempts) <= Cardinality(Counts)
    BY DEF PageInv, TallyCounts
  <1>2. Cardinality(CountedAttempts) \in Nat
    BY <1>1, FS_CardinalityType
  <1>3. Counts \in SUBSET Submits /\ Counts' \in SUBSET Submits
    BY DEF Counts
  <1>4. /\ Cardinality(Counts) \in Nat /\ Cardinality(Counts') \in Nat
        /\ \A n \in Submits : posts[n] \in Submission
    BY <1>1, <1>3, SubmitsFinite DEF PageShapes
  <1>5. \A n \in Submits : posts[n].pc \in {"none", "sent"} => posts[n].code = ""
    BY <1>1 DEF PostsSound
  <1>6. CASE \E n \in Submits : OnlyPost(n) /\ Served(n)
    <2>1. PICK n \in Submits : OnlyPost(n) /\ Served(n)
      BY <1>6
    <2> DEFINE p == posts[n].pid
    <2>2. p \in Puzzles /\ posts[n].word \in Words /\ posts[n].pc = "sent"
      BY <1>1, <2>1 DEF PostsSound, Served
    <2>3. posts'[n].code = "OK" /\ n \notin Counts
      BY <1>4, <1>5, <2>1, <2>2 DEF Served, Submission, Counts
    <2>4. Counts' = Counts \cup {n}
      BY <2>1, <2>3 DEF Counts, OnlyPost
    <2>5. Cardinality(Counts') = Cardinality(Counts) + 1
      BY <1>3, <2>3, <2>4, SubmitsGrow
    <2>6. PICK ts \in posts[n].sentAt..now : Guess(Me, p, posts[n].word, ts)
      BY <2>1 DEF Served, ServeGuess
    <2>7. ts \in Time
      <3>1. posts[n].sentAt \in Time /\ now \in Time
        BY <1>4 DEF Submission, TableInv, TablesType
      <3> QED
        BY <2>6, <3>1, BoundsAssumption DEF Time
    <2>8. /\ games'[p][Me].guessCount = games[p][Me].guessCount + 1
          /\ games[p][Me].guessCount + 1 \in 1..MaxGuesses
          /\ \A q \in Puzzles \ {p} : games'[q][Me] = games[q][Me]
      <3> DEFINE k == games[p][Me].guessCount + 1
                 solved == posts[n].word = dailyPuzzles[p].answer
      <3>1. /\ k \in 1..MaxGuesses /\ games'[p][Me] = GuessedGame(games[p][Me], k, solved, ts)
            /\ \A q \in Puzzles \ {p} : games'[q][Me] = games[q][Me]
        BY <2>2, <2>6, <2>7, GuessWrites, PageAssumption DEF TableInv
      <3>2. solved \in BOOLEAN /\ games[p][Me] \in GameRow
        BY <2>2, PageAssumption DEF TableInv, TablesType
      <3> HIDE DEF solved, k
      <3>3. games'[p][Me].guessCount = k
        BY <2>7, <3>1, <3>2, GuessedType
      <3> QED
        BY <3>1, <3>3 DEF k
    <2> HIDE DEF p
    <2>9. CountedAttempts' = CountedAttempts \cup {<<p, games[p][Me].guessCount + 1>>}
      <3>1. \A q \in Puzzles : games[q][Me].guessCount \in Nat
        BY PageAssumption, BoundsAssumption DEF TableInv, TablesType, GameRow
      <3>2. ASSUME NEW q \in Puzzles, NEW k \in 1..MaxGuesses
            PROVE  k <= games'[q][Me].guessCount <=>
                     k <= games[q][Me].guessCount \/ <<q, k>> = <<p, games[p][Me].guessCount + 1>>
        <4>1. k \in Nat
          BY BoundsAssumption
        <4>2. CASE q = p
          BY <2>2, <2>8, <3>1, <4>1, <4>2
        <4>3. CASE q # p
          BY <2>8, <4>3
        <4> QED
          BY <4>2, <4>3
      <3> QED
        BY <2>2, <2>8, <3>2 DEF CountedAttempts
    <2>10. /\ IsFiniteSet(CountedAttempts')
           /\ Cardinality(CountedAttempts') <= Cardinality(CountedAttempts) + 1
      <3> DEFINE x == <<p, games[p][Me].guessCount + 1>>
      <3>1. CountedAttempts' = CountedAttempts \cup {x}
        BY <2>9
      <3> HIDE DEF x
      <3>2. /\ IsFiniteSet(CountedAttempts \cup {x})
            /\ Cardinality(CountedAttempts \cup {x}) =
                 IF x \in CountedAttempts THEN Cardinality(CountedAttempts)
                 ELSE Cardinality(CountedAttempts) + 1
        BY <1>1, FS_AddElement
      <3> QED
        BY <1>2, <3>1, <3>2
    <2>11. Cardinality(CountedAttempts') \in Nat
      BY <2>10, FS_CardinalityType
    <2> QED
      BY <1>1, <1>2, <1>4, <2>5, <2>10, <2>11
  <1>7. CASE ~\E n \in Submits : OnlyPost(n) /\ Served(n)
    <2>1. Counts \subseteq Counts'
      <3> SUFFICES ASSUME NEW n \in Submits, posts[n].code = "OK" PROVE posts'[n].code = "OK"
        BY DEF Counts
      <3>1. posts[n].pc \notin {"none", "sent"}
        BY <1>5
      <3> QED
        BY <1>1, <3>1, PostsWrites DEF OnlyPost, Served, Refused, Lost, Posted
    <2>2. \A p \in Puzzles : games'[p][Me].guessCount = games[p][Me].guessCount
      <3> SUFFICES ASSUME NEW p \in Puzzles
                   PROVE  games'[p][Me].guessCount = games[p][Me].guessCount
        OBVIOUS
      <3>0. now \in Time /\ games[p][Me] \in GameRow /\ TablesType
        BY PageAssumption DEF TableInv, TablesType
      <3>1. ASSUME NEW q \in Puzzles, Start(Me, q, now)
            PROVE  games'[p][Me].guessCount = games[p][Me].guessCount
        <4>1. CASE p = q
          <5>1. games'[p][Me] = StartedGame(games[p][Me], now)
            BY <3>0, <3>1, <4>1, StartWrites, PageAssumption
          <5>2. games[p][Me].status = "NONE" => games[p][Me].guessCount = 0
            BY PageAssumption DEF TableInv, GameInv, NotBegun
          <5> QED
            BY <5>1, <5>2 DEF StartedGame, NewGame
        <4>2. CASE p # q
          BY <3>0, <3>1, <4>2, StartWrites, PageAssumption
        <4> QED
          BY <4>1, <4>2
      <3>2. ASSUME NEW q \in Puzzles, Settle(q, now)
            PROVE  games'[p][Me].guessCount = games[p][Me].guessCount
        BY <3>0, <3>2, SettleWrites, ForfeitedType, PageAssumption
      <3>3. CASE UNCHANGED games
        BY <3>3
      <3>4. CASE UNCHANGED posts /\ ~(\E n \in Submits : ServeGuess(n))
        BY <3>1, <3>2, <3>3, <3>4
        DEF PageNext, pageVars, vars, ServerUnchanged, ReadGame, ReadGuesses, ServeStart, LateStart,
            RefuseGuess, PostLost, Background, Tick, Refetch, GetArrives, GetFails, handleStart,
            StartArrives, StartFails, Type, handleEnter, HeadersArrive, GuessArrives,
            RefusalArrives, Timeout, ConnectionLost, GiveUp, Reload
      <3>5. ASSUME NEW n \in Submits, ServeGuess(n) PROVE FALSE
        <4>1. posts'[n].code = "OK" /\ posts[n].code # "OK" /\ \A m \in Submits \ {n} : posts'[m] = posts[m]
          BY <1>1, <1>5, <3>5 DEF PageShapes, Submission, ServeGuess
        <4>2. posts[n].pc = "sent"
          BY <3>5 DEF ServeGuess
        <4>3. OnlyPost(n) /\ Served(n)
          BY <1>1, <3>5, <4>2 DEF PageShapes, ServeGuess, OnlyPost, Served
        <4> QED
          BY <1>7, <4>3
      <3>6. CASE \E n \in Submits : Refused(n) \/ Lost(n)
        BY <3>3, <3>6 DEF Refused, Lost
      <3>7. CASE handleEnter
        BY <3>3, <3>7 DEF handleEnter, ServerUnchanged, vars
      <3> QED
        BY <1>1, <1>7, <3>4, <3>5, <3>6, <3>7, PostsWrites DEF Posted
    <2>3. CountedAttempts' = CountedAttempts
      BY <2>2 DEF CountedAttempts
    <2> QED
      BY <1>1, <1>2, <1>3, <1>4, <2>1, <2>3, SubmitsGrow
  <1> QED
    BY <1>6, <1>7

(* Letting a submission go is what the tally counts, unless it was refused. *)
LEMMA TallyStep ==
  ASSUME TableInv, PageInv, [PageNext]_pageVars
  PROVE  TallyCounts'
  <1> DEFINE total == tally.accepted + tally.givenUp
  <1>1. /\ PageShapes /\ PostsSound /\ WaitsForItsWord
        /\ Cardinality(Unrefused) <= total /\ total <= Cardinality(LetGo)
    BY DEF PageInv, TallyCounts
  <1>2. /\ \A n \in Submits : posts[n] \in Submission
        /\ \A n \in Submits : posts[n].pc \in {"none", "sent"} => posts[n].code = ""
    BY <1>1 DEF PageShapes, PostsSound
  <1>3. /\ page \in Component /\ page.waiting \in Submits \cup {0} /\ 0 \notin Submits
        /\ tally \in [accepted: Nat, givenUp: Nat] /\ total \in Nat
    BY <1>1 DEF PageShapes, Component, Submits
  <1>4. /\ Unrefused \in SUBSET Submits /\ Unrefused' \in SUBSET Submits
        /\ LetGo \in SUBSET Submits /\ LetGo' \in SUBSET Submits
    BY DEF Unrefused, LetGo
  <1>5. /\ Cardinality(Unrefused) \in Nat /\ Cardinality(Unrefused') \in Nat
        /\ Cardinality(LetGo) \in Nat /\ Cardinality(LetGo') \in Nat
    BY <1>4, SubmitsFinite
  <1>6. ASSUME total' = total, Unrefused' \subseteq Unrefused, LetGo \subseteq LetGo'
        PROVE  Cardinality(Unrefused') <= total' /\ total' <= Cardinality(LetGo')
    <2>1. /\ Cardinality(Unrefused') <= Cardinality(Unrefused)
          /\ Cardinality(LetGo) <= Cardinality(LetGo')
      BY <1>4, <1>6, SubmitsGrow
    <2> QED
      BY <1>1, <1>3, <1>5, <1>6, <2>1
  <1>7. ASSUME total' = total + 1, UNCHANGED posts, page.waiting # 0, page'.waiting = 0
        PROVE  Cardinality(Unrefused') <= total' /\ total' <= Cardinality(LetGo')
    <2>1. page.waiting \in Submits /\ posts[page.waiting].pc # "none" /\ 0 \notin Submits
      BY <1>1, <1>3, <1>7 DEF WaitsForItsWord
    <2>2. LetGo' = LetGo \cup {page.waiting} /\ page.waiting \notin LetGo
      BY <1>7, <2>1 DEF LetGo
    <2>3. Unrefused' \subseteq Unrefused \cup {page.waiting}
      BY <1>7, <2>1, <2>2 DEF Unrefused
    <2>4. Cardinality(LetGo') = Cardinality(LetGo) + 1
      BY <1>4, <2>2, SubmitsGrow
    <2>5. Cardinality(Unrefused') <= Cardinality(Unrefused) + 1
      BY <1>4, <2>3, SubmitsGrow
    <2> QED
      BY <1>1, <1>3, <1>5, <1>7, <2>4, <2>5
  <1>8. ASSUME UNCHANGED tally, page'.waiting = page.waiting, ~handleEnter
        PROVE  Unrefused' \subseteq Unrefused /\ LetGo \subseteq LetGo'
    <2> SUFFICES ASSUME NEW n \in Submits
                 PROVE  /\ posts[n].pc # "none" => posts'[n].pc # "none"
                        /\ posts'[n].pc # "none" => posts[n].pc # "none"
                        /\ posts'[n].code \notin Refusals => posts[n].code \notin Refusals
      BY <1>8 DEF Unrefused, LetGo
    <2>0. posts[n] \in Submission
      BY <1>2
    <2>1. CASE Served(n)
      BY <1>2, <2>0, <2>1 DEF Served, Submission, Refusals
    <2>2. CASE Refused(n)
      BY <1>2, <2>0, <2>2 DEF Refused, Submission, Refusals
    <2>3. CASE Lost(n)
      BY <1>2, <2>0, <2>3 DEF Lost, Submission, Refusals
    <2> QED
      BY <1>1, <1>8, <2>1, <2>2, <2>3, PostsWrites DEF OnlyPost, Posted
  <1>9. Cardinality(Unrefused') <= total' /\ total' <= Cardinality(LetGo')
    <2>1. CASE handleEnter
      <3>1. /\ page.waiting = 0 /\ page'.waiting = NextPost /\ UNCHANGED tally
            /\ NextPost \in Submits /\ posts[NextPost].pc = "none"
        BY <1>3, <2>1 DEF Component, handleEnter, editing, NextPost, Unused
      <3>2. posts'[NextPost].pc = "sent" /\ \A m \in Submits \ {NextPost} : posts'[m] = posts[m]
        BY <1>1, <2>1, <3>1 DEF PageShapes, handleEnter, Post, NoPost
      <3>4. LetGo' = LetGo
        BY <1>3, <3>1, <3>2 DEF LetGo
      <3>5. Unrefused' = Unrefused
        BY <3>1, <3>2, <3>4 DEF Unrefused, LetGo
      <3> QED
        BY <1>6, <3>1, <3>4, <3>5
    <2>2. CASE GuessArrives
      <3>1. UNCHANGED posts /\ page.waiting # 0 /\ page'.waiting = 0
        BY <1>3, <2>2 DEF Component, GuessArrives
      <3>2. tally' = [tally EXCEPT !.accepted = @ + 1]
        BY <2>2 DEF GuessArrives
      <3>3. total' = total + 1
        BY <1>3, <3>2
      <3> QED
        BY <1>7, <3>1, <3>3
    <2>3. CASE Timeout \/ ConnectionLost
      <3>1. UNCHANGED posts /\ page.waiting # 0 /\ page'.waiting = 0
        BY <1>3, <2>3 DEF Component, Timeout, ConnectionLost, GiveUp, WireUnchanged
      <3>2. tally' = [tally EXCEPT !.givenUp = @ + 1]
        BY <2>3 DEF Timeout, ConnectionLost, GiveUp
      <3>3. total' = total + 1
        BY <1>3, <3>2
      <3> QED
        BY <1>7, <3>1, <3>3
    <2>4. CASE Reload /\ page.waiting # 0
      <3>1. UNCHANGED posts /\ page'.waiting = 0 /\ tally' = [tally EXCEPT !.givenUp = @ + 1]
        BY <2>4 DEF Reload, Fresh
      <3>2. total' = total + 1
        BY <1>3, <3>1
      <3> QED
        BY <1>7, <2>4, <3>1, <3>2
    <2>5. CASE Reload /\ page.waiting = 0
      <3>1. UNCHANGED posts /\ page'.waiting = 0 /\ tally' = [tally EXCEPT !.givenUp = @ + 0]
        BY <2>5 DEF Reload, Fresh
      <3>2. total' = total
        BY <1>3, <3>1
      <3>3. LetGo' = LetGo /\ Unrefused' = Unrefused
        BY <2>5, <3>1 DEF LetGo, Unrefused
      <3> QED
        BY <1>6, <3>2, <3>3
    <2>6. CASE RefusalArrives
      <3>1. /\ UNCHANGED posts /\ UNCHANGED tally /\ page.waiting # 0 /\ page'.waiting = 0
            /\ posts[page.waiting].pc = "answered" /\ posts[page.waiting].code # "OK"
        BY <1>3, <2>6 DEF Component, RefusalArrives, WireUnchanged
      <3>2. page.waiting \in Submits /\ posts[page.waiting].code \in Refusals
        BY <1>1, <1>2, <1>3, <3>1 DEF PostsSound, Submission, Refusals
      <3>3. LetGo \subseteq LetGo'
        BY <1>3, <3>1 DEF LetGo
      <3>4. Unrefused' \subseteq Unrefused
        BY <3>1, <3>2 DEF LetGo, Unrefused
      <3> QED
        BY <1>6, <3>1, <3>3, <3>4
    <2>7. ASSUME NEW w, Type(w)
          PROVE  UNCHANGED tally /\ page'.waiting = page.waiting /\ UNCHANGED posts
      BY <1>3, <2>7 DEF Component, Type, WireUnchanged
    <2>8. ASSUME GetArrives \/ StartArrives \/ HeadersArrive
          PROVE  UNCHANGED tally /\ page'.waiting = page.waiting /\ UNCHANGED posts
      BY <1>3, <2>8 DEF Component, GetArrives, StartArrives, HeadersArrive, WireUnchanged
    <2>9. CASE UNCHANGED tally /\ page'.waiting = page.waiting /\ ~handleEnter
      BY <1>6, <1>8, <2>9
    <2> QED
      BY <2>1, <2>2, <2>3, <2>4, <2>5, <2>6, <2>7, <2>8, <2>9
      DEF PageNext, pageVars, ReadGame, ReadGuesses, ServeStart, ServeGuess, RefuseGuess, PostLost,
          Background, Refetch, GetArrives, StartArrives, GetFails, handleStart, StartFails, LateStart
  <1> QED
    BY <1>9, AttemptsStep DEF TallyCounts

-----------------------------------------------------------------------------
(* What is true in every state *)

(* The page as it is opened. *)
LEMMA PageInitInv == PageInit => TableInv /\ PageInv
  <1> SUFFICES ASSUME PageInit PROVE TableInv /\ PageInv
    OBVIOUS
  <1>1. TableInv
    BY TableInit DEF PageInit
  <1>2. PageShapes
    <2>1. NoPost \in Submission
      BY BoundsAssumption DEF NoPost, Submission, Time
    <2>2. Fresh \in Component /\ Sent \in Wire /\ Quiet \in Wire
      BY DEF Fresh, Component, Sent, Quiet, Wire
    <2>3. Fresh.timer = FALSE
      BY DEF Fresh
    <2>4. page.timer => page.waiting # 0
      BY <2>3 DEF PageInit
    <2> QED
      BY <2>1, <2>2, <2>4 DEF PageInit, PageShapes
  <1>3. AnswersPast /\ PostsSound /\ WaitsForItsWord
    BY DEF PageInit, Fresh, Sent, Quiet, NoPost, AnswersPast, PostsSound, WaitsForItsWord
  <1>4. CountedAttempts = {} /\ Counts = {} /\ Unrefused = {} /\ LetGo = {}
    <2>1. \A p \in Puzzles, k \in 1..MaxGuesses : ~(k <= games[p][Me].guessCount)
      BY PageAssumption, BoundsAssumption DEF PageInit, Init, InitialGames, NoGame
    <2>2. CountedAttempts = {}
      BY <2>1 DEF CountedAttempts
    <2>3. \A n \in Submits : posts[n].pc = "none" /\ posts[n].code = ""
      BY DEF PageInit, NoPost
    <2> QED
      BY <2>2, <2>3 DEF Counts, Unrefused, LetGo
  <1>5. TallyCounts
    BY <1>4, FS_EmptySet DEF PageInit, TallyCounts
  <1> QED
    BY <1>1, <1>2, <1>3, <1>5 DEF PageInv

(* The tables' invariant and the page's are inductive together. *)
LEMMA PageStep == TableInv /\ PageInv /\ [PageNext]_pageVars => TableInv' /\ PageInv'
  <1> SUFFICES ASSUME TableInv, PageInv, [PageNext]_pageVars PROVE TableInv' /\ PageInv'
    OBVIOUS
  <1>1. TableInv'
    BY ServerStep, TableStep
  <1> QED
    BY <1>1, ShapesStep, AnswersStep, PostsStep, WaitsStep, TallyStep DEF PageInv

(* What every answer shows, and what every submission is.                  *)
THEOREM PageCorrect == PageSpec => [](TableInv /\ PageInv)
  <1> QED
    BY PageInitInv, PageStep, PTL DEF PageSpec

(* The server under the page is the daily contest: all that is proved of   *)
(* its tables holds beside a page, whatever the page sends it.             *)
THEOREM ServerIsContest == PageSpec => Spec
  <1>1. PageInit => Init
    BY DEF PageInit
  <1>2. TableInv /\ PageInv /\ [PageNext]_pageVars => [Next]_vars
    BY ServerStep
  <1> QED
    BY <1>1, <1>2, PageCorrect, PTL DEF PageSpec, Spec

(* The tally and the wait account for the submissions made. *)
LEMMA TallyBounded ==
  PageInv => /\ PageTypeOK
             /\ AttemptsAccounted
  <1> SUFFICES ASSUME PageInv PROVE PageTypeOK /\ AttemptsAccounted
    OBVIOUS
  <1>1. PageShapes /\ PostsSound /\ WaitsForItsWord /\ TallyCounts
    BY DEF PageInv
  <1>2. /\ page \in Component /\ tally.accepted \in Nat /\ tally.givenUp \in Nat
        /\ tally \in [accepted: Nat, givenUp: Nat] /\ MaxSubmits \in Nat
    BY <1>1, PageAssumption DEF PageShapes
  <1>3. LetGo \in SUBSET Submits /\ Unrefused \in SUBSET Submits /\ Counts \in SUBSET Submits
    BY DEF LetGo, Unrefused, Counts
  <1>4. /\ Cardinality(LetGo) \in Nat /\ Cardinality(LetGo) <= MaxSubmits
        /\ Cardinality(Unrefused) \in Nat /\ Cardinality(Counts) \in Nat
        /\ Cardinality(CountedAttempts) \in Nat
    BY <1>1, <1>3, SubmitsFinite, FS_CardinalityType DEF TallyCounts
  <1>5. tally.accepted \in 0..MaxSubmits /\ tally.givenUp \in 0..MaxSubmits
    BY <1>1, <1>2, <1>4 DEF TallyCounts
  <1>6. PageTypeOK
    BY <1>1, <1>2, <1>5 DEF PageShapes, PostsSound, PageTypeOK
  <1>7. Counts \subseteq Unrefused \cup {page.waiting}
    BY <1>1 DEF Counts, Unrefused, LetGo, PostsSound, Refusals
  <1>8. page.waiting = 0 => Counts \subseteq Unrefused
    BY <1>7 DEF Counts, Submits
  <1>9. Cardinality(Counts) <= Cardinality(Unrefused) + (IF page.waiting = 0 THEN 0 ELSE 1)
    BY <1>3, <1>4, <1>7, <1>8, SubmitsGrow
  <1>10. AttemptsAccounted
    BY <1>1, <1>2, <1>4, <1>9 DEF TallyCounts, AttemptsAccounted
  <1> QED
    BY <1>6, <1>10

(* Types, the bounds of the tally included. *)
THEOREM PageTyped == PageSpec => []PageTypeOK
  <1> QED
    BY TallyBounded, PageCorrect, PTL

(* A timeout costs at most one attempt: the server counts no attempt that  *)
(* the page has not seen accepted, given up on or still waits for.         *)
THEOREM AttemptsCounted == PageSpec => []AttemptsAccounted
  <1> QED
    BY TallyBounded, PageCorrect, PTL

(* Whatever order answers arrive in, the board drawn is made of the first  *)
(* guesses of the game the server has, and the outcome is the real one.    *)
THEOREM BoardIsPast == PageSpec => []ShowsAPastState
  <1>1. PageInv => ShowsAPastState
    BY DEF PageInv, AnswersPast, Past, PastIn, ShowsAPastState
  <1> QED
    BY <1>1, PageCorrect, PTL

(* Letters go by the player's hand, by starting a game or because the word *)
(* they spelled is among the guesses.                                      *)
THEOREM LettersStay == PageSpec => LettersKept
  <1> DEFINE Kept == page.input # None /\ page'.input = None =>
               \/ Type(None) \/ Reload \/ StartArrives
               \/ \E p \in Puzzles : \E g \in guesses[p][Me] : g.word = page.input
  <1>1. PageInv /\ [PageNext]_pageVars => [Kept]_pageVars
    <2> SUFFICES ASSUME PageInv, PageNext, page.input # None, page'.input = None
                 PROVE  \/ Type(None) \/ Reload \/ StartArrives
                        \/ \E p \in Puzzles : \E g \in guesses[p][Me] : g.word = page.input
      OBVIOUS
    <2>1. PageShapes /\ PostsSound /\ WaitsForItsWord
      BY DEF PageInv
    <2>2. CASE GuessArrives
      <3>1. page.waiting \in Submits /\ page.waiting # 0 /\ posts[page.waiting].code = "OK"
        BY <2>1, <2>2 DEF PageShapes, Component, GuessArrives
      <3>2. posts[page.waiting].pid \in Puzzles /\ posts[page.waiting].word = page.input
        BY <2>1, <3>1 DEF PostsSound, WaitsForItsWord
      <3> QED
        BY <2>1, <3>1, <3>2 DEF PostsSound
    <2>3. ASSUME NEW w, Type(w) PROVE w = None
      BY <2>1, <2>3 DEF PageShapes, Component, Type
    <2>4. CASE GetArrives \/ RefusalArrives \/ HeadersArrive \/ Timeout \/ ConnectionLost \/ handleEnter
      BY <2>1, <2>4
      DEF PageShapes, Component, GetArrives, RefusalArrives, HeadersArrive, Timeout, ConnectionLost,
          GiveUp, handleEnter
    <2>5. CASE UNCHANGED page
      BY <2>5
    <2> QED
      BY <2>2, <2>3, <2>4, <2>5
      DEF PageNext, ReadGame, ReadGuesses, ServeStart, ServeGuess, RefuseGuess, PostLost,
          Background, Refetch, GetFails, handleStart, StartFails, LateStart
  <1> QED
    BY <1>1, PageCorrect, PTL DEF PageSpec, LettersKept

-----------------------------------------------------------------------------
(* The tiles and the keyboard, for every alphabet, length of words and     *)
(* number of guesses                                                       *)

LEMMA SameCardinality == ASSUME NEW S PROVE Game!Cardinality(S) = Cardinality(S)
  BY DEF Game!Cardinality, Cardinality, Game!IsFiniteSet, IsFiniteSet

(* Induction up to a number, of a set: what is shown of n is that it is in *)
(* G.  Otherwise a least number would be missing.                          *)
LEMMA Upwards ==
  ASSUME NEW N \in Nat, NEW G, 0 \in G, \A n \in 1..N : n - 1 \in G => n \in G
  PROVE  0..N \subseteq G
  <1> DEFINE B == (0..N) \ G
  <1> SUFFICES ASSUME B # {} PROVE FALSE
    OBVIOUS
  <1>1. B \subseteq Nat
    OBVIOUS
  <1> HIDE DEF B
  <1>2. PICK m \in B : \A n \in B : ~(<<n, m>> \in OpToRel(<, Nat))
    BY <1>1, NatLessThanWellFounded, WFMin
  <1> USE DEF B
  <1>3. m \in 1..N /\ m \notin G
    <2>1. m \in 0..N /\ m \notin G /\ m # 0
      BY <1>2
    <2> QED
      BY <2>1
  <1>4. m - 1 \in 0..N /\ m - 1 \in Nat /\ m \in Nat /\ m - 1 < m
    BY <1>3
  <1>5. <<m - 1, m>> \in OpToRel(<, Nat)
    BY <1>4 DEF OpToRel
  <1>6. m - 1 \in G
    BY <1>2, <1>4, <1>5
  <1> QED
    BY <1>3, <1>6

(* What a recursion over 0..N runs through exists: the steps are data here. *)
Runs(f, s, step, n) ==
  f[0] = s /\ \A i \in 1..n : f[i] = step[i][f[i - 1]]

LEMMA RunExists ==
  ASSUME NEW S, NEW s \in S, NEW N \in Nat, NEW step \in [1..N -> [S -> S]]
  PROVE  \E f \in [0..N -> S] : Runs(f, s, step, N)
  <1> DEFINE G == {n \in 0..N : \E f \in [0..n -> S] : Runs(f, s, step, n)}
  <1>1. 0 \in G
    <2> DEFINE f == [i \in 0..0 |-> s]
    <2>1. f \in [0..0 -> S] /\ Runs(f, s, step, 0)
      BY DEF Runs
    <2> HIDE DEF f
    <2> QED
      BY <2>1
  <1>2. ASSUME NEW n \in 1..N, n - 1 \in G PROVE n \in G
    <2>1. PICK f \in [0..(n - 1) -> S] : Runs(f, s, step, n - 1)
      BY <1>2
    <2> DEFINE g == [i \in 0..n |-> IF i = n THEN step[n][f[n - 1]] ELSE f[i]]
    <2>2. n - 1 \in 0..(n - 1) /\ f[n - 1] \in S /\ step[n] \in [S -> S]
      BY <2>1
    <2>3. g \in [0..n -> S]
      BY <2>1, <2>2
    <2>4. g[0] = s
      BY <2>1 DEF Runs
    <2>5. ASSUME NEW i \in 1..n PROVE g[i] = step[i][g[i - 1]]
      <3>1. CASE i = n
        BY <3>1
      <3>2. CASE i # n
        <4>1. i \in 1..(n - 1) /\ i \in 0..n /\ i - 1 \in 0..n /\ i - 1 # n
          BY <3>2
        <4>2. f[i] = step[i][f[i - 1]]
          BY <2>1, <4>1 DEF Runs
        <4> QED
          BY <3>2, <4>1, <4>2
      <3> QED
        BY <3>1, <3>2
    <2> HIDE DEF g
    <2>6. Runs(g, s, step, n)
      BY <2>4, <2>5 DEF Runs
    <2> QED
      BY <2>3, <2>6
  <1>3. N \in 0..N
    OBVIOUS
  <1> HIDE DEF G
  <1>4. N \in G
    BY <1>1, <1>2, <1>3, Upwards
  <1> QED
    BY <1>4 DEF G

-----------------------------------------------------------------------------
(* The second pass of evaluateGuess *)

PassState == [remaining: [GameLetters -> Int], tiles: Seq(Game!Tile)]

Tile(guess, i, status) == [letter |-> guess[i], status |-> status]

FirstState(answer, guess) == [remaining |-> Game!AfterGreens(answer, guess), tiles |-> <<>>]

PassStep(answer, guess, i, done) ==
  IF i \in Game!Greens(answer, guess)
    THEN [done EXCEPT !.tiles = Append(done.tiles, Tile(guess, i, "green"))]
  ELSE IF done.remaining[guess[i]] > 0
    THEN [remaining |-> Game!Take(done.remaining, guess[i]),
          tiles |-> Append(done.tiles, Tile(guess, i, "yellow"))]
  ELSE [done EXCEPT !.tiles = Append(done.tiles, Tile(guess, i, "gray"))]

Pass(answer, guess, pass) ==
  pass = [i \in 0..GameLength |->
            IF i = 0 THEN FirstState(answer, guess)
            ELSE PassStep(answer, guess, i, pass[i - 1])]

LEMMA PassIsPass ==
  ASSUME NEW answer, NEW guess
  PROVE  Game!evaluateGuess(answer, guess) =
           (CHOOSE pass : Pass(answer, guess, pass))[GameLength].tiles
  BY DEF Game!evaluateGuess, Pass, PassStep, FirstState, Tile

(* A word has a letter at each position, and each letter some positions.   *)
LEMMA WordFacts ==
  ASSUME Game!WordsAssumption, NEW answer \in Game!AllWords, NEW guess \in Game!AllWords
  PROVE  /\ GameLength \in Nat /\ DOMAIN guess = 1..GameLength
         /\ \A i \in 1..GameLength : guess[i] \in GameLetters
         /\ IsFiniteSet(1..GameLength)
         /\ \A letter \in GameLetters :
              /\ Game!PositionsOf(answer, letter) \subseteq 1..GameLength
              /\ Game!AfterGreens(answer, guess)[letter] =
                   Cardinality(Game!PositionsOf(answer, letter) \ Game!Greens(answer, guess))
              /\ Game!AfterGreens(answer, guess)[letter] \in Nat
         /\ Game!Greens(answer, guess) \subseteq 1..GameLength
         /\ FirstState(answer, guess) \in PassState
  <1>1. GameLength \in Nat /\ DOMAIN guess = 1..GameLength /\ DOMAIN answer = 1..GameLength
        /\ \A i \in 1..GameLength : guess[i] \in GameLetters
    BY DEF Game!WordsAssumption, Game!AllWords
  <1>2. IsFiniteSet(1..GameLength)
    BY <1>1, FS_Interval
  <1>3. Game!Greens(answer, guess) \subseteq 1..GameLength
    BY <1>1 DEF Game!Greens
  <1>4. ASSUME NEW letter \in GameLetters
        PROVE  /\ Game!PositionsOf(answer, letter) \subseteq 1..GameLength
               /\ Game!AfterGreens(answer, guess)[letter] =
                    Cardinality(Game!PositionsOf(answer, letter) \ Game!Greens(answer, guess))
               /\ Game!AfterGreens(answer, guess)[letter] \in Nat
    <2> DEFINE left == Game!PositionsOf(answer, letter) \ Game!Greens(answer, guess)
    <2>1. Game!PositionsOf(answer, letter) \subseteq 1..GameLength
      BY <1>1 DEF Game!PositionsOf
    <2>2. left \subseteq 1..GameLength
      BY <2>1
    <2>3. Game!AfterGreens(answer, guess)[letter] = Cardinality(left)
      BY SameCardinality DEF Game!AfterGreens
    <2> HIDE DEF left
    <2>4. Cardinality(left) \in Nat
      BY <1>2, <2>2, FS_Subset, FS_CardinalityType
    <2> QED
      BY <2>1, <2>3, <2>4 DEF left
  <1>5. Game!AfterGreens(answer, guess) \in [GameLetters -> Int]
    <2>1. Game!AfterGreens(answer, guess) =
            [letter \in GameLetters |-> Game!AfterGreens(answer, guess)[letter]]
      BY DEF Game!AfterGreens
    <2>2. \A letter \in GameLetters : Game!AfterGreens(answer, guess)[letter] \in Int
      <3> DEFINE left == Game!AfterGreens(answer, guess)
      <3>1. \A letter \in GameLetters : left[letter] \in Nat
        BY <1>4
      <3> HIDE DEF left
      <3>2. \A letter \in GameLetters : left[letter] \in Int
        BY <3>1
      <3> QED
        BY <3>2 DEF left
    <2> QED
      BY <2>1, <2>2
  <1>6. <<>> \in Seq(Game!Tile)
    OBVIOUS
  <1>7. FirstState(answer, guess) \in PassState
    BY <1>5, <1>6 DEF FirstState, PassState
  <1> QED
    BY <1>1, <1>2, <1>3, <1>4, <1>7

LEMMA PassStepType ==
  ASSUME Game!WordsAssumption, NEW answer \in Game!AllWords, NEW guess \in Game!AllWords,
         NEW i \in 1..GameLength, NEW done \in PassState
  PROVE  PassStep(answer, guess, i, done) \in PassState
  <1>1. guess[i] \in GameLetters
    BY WordFacts
  <1>2. \A status \in Game!Statuses : Tile(guess, i, status) \in Game!Tile
    BY <1>1 DEF Game!Tile, Tile
  <1>3. \A status \in Game!Statuses : Append(done.tiles, Tile(guess, i, status)) \in Seq(Game!Tile)
    BY <1>2 DEF PassState
  <1>4. Game!Take(done.remaining, guess[i]) \in [GameLetters -> Int]
    BY <1>1 DEF Game!Take, PassState
  <1> QED
    BY <1>3, <1>4 DEF PassStep, PassState, Game!Statuses

LEMMA PassExists ==
  ASSUME Game!WordsAssumption, NEW answer \in Game!AllWords, NEW guess \in Game!AllWords
  PROVE  \E pass : Pass(answer, guess, pass)
  <1> DEFINE step == [i \in 1..GameLength |-> [done \in PassState |-> PassStep(answer, guess, i, done)]]
             first == FirstState(answer, guess)
  <1>1. step \in [1..GameLength -> [PassState -> PassState]]
    BY PassStepType
  <1>2. first \in PassState /\ GameLength \in Nat
    BY WordFacts
  <1>3. \A i \in 1..GameLength, done \in PassState :
          step[i][done] = PassStep(answer, guess, i, done)
    OBVIOUS
  <1> HIDE DEF step, first
  <1>4. PICK pass \in [0..GameLength -> PassState] : Runs(pass, first, step, GameLength)
    BY <1>1, <1>2, RunExists
  <1>5. \A i \in 1..GameLength : pass[i] = PassStep(answer, guess, i, pass[i - 1])
    <2> SUFFICES ASSUME NEW i \in 1..GameLength
                 PROVE  pass[i] = PassStep(answer, guess, i, pass[i - 1])
      OBVIOUS
    <2>1. i - 1 \in 0..GameLength
      BY <1>2
    <2>2. pass[i - 1] \in PassState
      BY <1>4, <2>1
    <2> QED
      BY <1>3, <1>4, <2>2 DEF Runs
  <1>6. pass = [i \in 0..GameLength |-> pass[i]]
    BY <1>4
  <1>7. \A i \in 0..GameLength :
          pass[i] = IF i = 0 THEN first ELSE PassStep(answer, guess, i, pass[i - 1])
    BY <1>2, <1>4, <1>5 DEF Runs
  <1> QED
    BY <1>6, <1>7 DEF Pass, first

(* The tiles so far: greens at the exact positions; each yellow has used   *)
(* up one of the letters that pass 1 left, a gray one found none left.     *)
Yellows(guess, tiles, i, letter) == {j \in 1..i : guess[j] = letter /\ tiles[j].status = "yellow"}

TilesSound(answer, guess, i, s) ==
  /\ s \in PassState /\ Len(s.tiles) = i
  /\ \A j \in 1..i :
       /\ s.tiles[j].letter = guess[j] /\ s.tiles[j].status \in Game!Statuses
       /\ s.tiles[j].status = "green" <=> j \in Game!Greens(answer, guess)
  /\ \A letter \in GameLetters :
       /\ s.remaining[letter] = Game!AfterGreens(answer, guess)[letter]
                                  - Cardinality(Yellows(guess, s.tiles, i, letter))
       /\ s.remaining[letter] >= 0
  /\ \A j \in 1..i : s.tiles[j].status = "gray" =>
       /\ s.remaining[guess[j]] = 0
       /\ \A k \in 1..i : guess[k] = guess[j] /\ s.tiles[k].status = "yellow" => k < j

(* One more tile, of any colour. *)
LEMMA YellowsGrow ==
  ASSUME Game!WordsAssumption, NEW guess, NEW i \in 1..GameLength, NEW tiles \in Seq(Game!Tile),
         Len(tiles) = i - 1, NEW tile, NEW letter
  PROVE  /\ \A j \in 1..(i - 1) : Append(tiles, tile)[j] = tiles[j]
         /\ Append(tiles, tile)[i] = tile /\ Len(Append(tiles, tile)) = i
         /\ Cardinality(Yellows(guess, tiles, i - 1, letter)) \in Nat
         /\ Cardinality(Yellows(guess, Append(tiles, tile), i, letter)) =
              Cardinality(Yellows(guess, tiles, i - 1, letter))
                + IF guess[i] = letter /\ tile.status = "yellow" THEN 1 ELSE 0
  <1> DEFINE old == Yellows(guess, tiles, i - 1, letter)
             new == Yellows(guess, Append(tiles, tile), i, letter)
  <1>0. GameLength \in Nat /\ i \in Nat
    BY DEF Game!WordsAssumption
  <1>1. /\ \A j \in 1..(i - 1) : Append(tiles, tile)[j] = tiles[j]
        /\ Append(tiles, tile)[i] = tile /\ Len(Append(tiles, tile)) = i
    BY <1>0
  <1>2. IsFiniteSet(old) /\ i \notin old
    <2>1. IsFiniteSet(1..(i - 1))
      <3>1. 1 \in Int /\ i - 1 \in Int
        BY <1>0
      <3> QED
        BY <3>1, FS_Interval
    <2>a. old \in SUBSET (1..(i - 1))
      BY DEF Yellows
    <2>2. i \notin 1..(i - 1)
      BY <1>0
    <2> HIDE DEF old
    <2> QED
      BY <2>1, <2>a, <2>2, FS_Subset
  <1>3. CASE guess[i] = letter /\ tile.status = "yellow"
    <2>1. new = old \cup {i}
      BY <1>0, <1>1, <1>3 DEF Yellows
    <2> HIDE DEF old, new
    <2>2. Cardinality(new) = Cardinality(old) + 1 /\ Cardinality(old) \in Nat
      BY <1>2, <2>1, FS_AddElement, FS_CardinalityType
    <2> QED
      BY <1>1, <1>3, <2>2 DEF old, new
  <1>4. CASE ~(guess[i] = letter /\ tile.status = "yellow")
    <2>1. new = old
      BY <1>0, <1>1, <1>4 DEF Yellows
    <2> HIDE DEF old, new
    <2>2. Cardinality(new) = Cardinality(old) /\ Cardinality(old) \in Nat
      BY <1>2, <2>1, FS_CardinalityType
    <2>3. Cardinality(new) = Cardinality(old) + 0
      BY <2>2
    <2> QED
      BY <1>1, <1>4, <2>2, <2>3 DEF old, new
  <1> QED
    BY <1>3, <1>4

LEMMA TileAdded ==
  ASSUME Game!WordsAssumption, NEW answer \in Game!AllWords, NEW guess \in Game!AllWords,
         NEW i \in 1..GameLength, NEW s, TilesSound(answer, guess, i - 1, s)
  PROVE  TilesSound(answer, guess, i, PassStep(answer, guess, i, s))
  <1> DEFINE new == PassStep(answer, guess, i, s)
             old == s.tiles
             mine == guess[i]
  <1>0. /\ s \in PassState /\ new \in PassState /\ s.tiles \in Seq(Game!Tile) /\ Len(s.tiles) = i - 1
        /\ s.remaining \in [GameLetters -> Int] /\ mine \in GameLetters
        /\ i \in Nat /\ GameLength \in Nat
    <2>1. s \in PassState /\ Len(s.tiles) = i - 1
      BY DEF TilesSound
    <2>2. new \in PassState
      BY <2>1, PassStepType
    <2>3. mine \in GameLetters /\ GameLength \in Nat /\ i \in Nat
      BY WordFacts
    <2> HIDE DEF new, mine
    <2> QED
      BY <2>1, <2>2, <2>3 DEF PassState
  <1> DEFINE status == IF i \in Game!Greens(answer, guess) THEN "green"
                       ELSE IF s.remaining[mine] > 0 THEN "yellow" ELSE "gray"
             tile == Tile(guess, i, status)
  <1>1. new.tiles = Append(s.tiles, tile)
    BY <1>0 DEF PassStep, PassState
  <1>2. \A letter \in GameLetters :
          new.remaining[letter] = s.remaining[letter]
            - IF letter = mine /\ status = "yellow" THEN 1 ELSE 0
    BY <1>0 DEF PassStep, PassState, Game!Take
  <1>3. tile.letter = mine /\ tile.status = status
    BY DEF Tile
  <1>4. /\ \A j \in 1..(i - 1) : new.tiles[j] = s.tiles[j]
        /\ new.tiles[i] = tile /\ Len(new.tiles) = i
    BY <1>0, <1>1, YellowsGrow
  <1>5. 1..i = (1..(i - 1)) \cup {i}
    BY <1>0
  <1>6. /\ status \in Game!Statuses
        /\ status = "green" <=> i \in Game!Greens(answer, guess)
        /\ status = "yellow" => s.remaining[mine] > 0
        /\ status = "gray" => ~(s.remaining[mine] > 0)
    BY DEF Game!Statuses
  <1> HIDE DEF new, status, tile, mine
  <1>7. \A j \in 1..i :
          /\ new.tiles[j].letter = guess[j] /\ new.tiles[j].status \in Game!Statuses
          /\ new.tiles[j].status = "green" <=> j \in Game!Greens(answer, guess)
    BY <1>3, <1>4, <1>5, <1>6 DEF TilesSound, mine
  <1>8. ASSUME NEW letter \in GameLetters
        PROVE  /\ new.remaining[letter] = Game!AfterGreens(answer, guess)[letter]
                                            - Cardinality(Yellows(guess, new.tiles, i, letter))
               /\ new.remaining[letter] >= 0
    <2> DEFINE used == Cardinality(Yellows(guess, s.tiles, i - 1, letter))
               uses == Cardinality(Yellows(guess, new.tiles, i, letter))
               had == Game!AfterGreens(answer, guess)[letter]
    <2>1. used \in Nat /\ uses = used + IF letter = mine /\ status = "yellow" THEN 1 ELSE 0
      BY <1>0, <1>1, <1>3, YellowsGrow DEF mine
    <2>2. s.remaining[letter] = had - used /\ s.remaining[letter] >= 0 /\ had \in Nat
      BY WordFacts DEF TilesSound
    <2>3. new.remaining[letter] = s.remaining[letter]
            - IF letter = mine /\ status = "yellow" THEN 1 ELSE 0
      BY <1>2
    <2>4. letter = mine /\ status = "yellow" => s.remaining[letter] > 0
      BY <1>6
    <2>5. s.remaining[letter] \in Int
      BY <1>0
    <2> HIDE DEF used, uses, had
    <2> QED
      BY <2>1, <2>2, <2>3, <2>4, <2>5 DEF uses, had
  <1>9. ASSUME NEW j \in 1..i, new.tiles[j].status = "gray"
        PROVE  /\ new.remaining[guess[j]] = 0
               /\ \A k \in 1..i : guess[k] = guess[j] /\ new.tiles[k].status = "yellow" => k < j
    <2>1. guess[j] \in GameLetters /\ new.remaining[guess[j]] >= 0
      BY <1>0, <1>8, WordFacts
    <2>2. CASE j = i
      <3>1. status = "gray" /\ guess[j] = mine
        BY <1>3, <1>4, <1>9, <2>2 DEF mine
      <3>2. new.remaining[mine] = s.remaining[mine] /\ s.remaining[mine] \in Int
        BY <1>0, <1>2, <3>1
      <3>3. new.remaining[mine] = 0
        BY <1>6, <2>1, <3>1, <3>2
      <3>4. \A k \in 1..i : new.tiles[k].status = "yellow" => k # i
        BY <1>3, <1>4, <3>1
      <3> QED
        BY <1>0, <2>2, <3>1, <3>3, <3>4
    <2>3. CASE j # i
      <3>1. j \in 1..(i - 1) /\ s.tiles[j].status = "gray"
        BY <1>4, <1>5, <1>9, <2>3
      <3>2. s.remaining[guess[j]] = 0
        BY <3>1 DEF TilesSound
      <3>3. ~(guess[j] = mine /\ status = "yellow")
        BY <1>6, <3>2
      <3>4. new.remaining[guess[j]] = 0
        BY <1>2, <2>1, <3>2, <3>3
      <3>5. \A k \in 1..i : guess[k] = guess[j] /\ new.tiles[k].status = "yellow" => k \in 1..(i - 1)
        BY <1>3, <1>4, <1>5, <3>3 DEF mine
      <3>6. \A k \in 1..(i - 1) : guess[k] = guess[j] /\ s.tiles[k].status = "yellow" => k < j
        BY <3>1 DEF TilesSound
      <3> QED
        BY <1>4, <3>4, <3>5, <3>6
    <2> QED
      BY <2>2, <2>3
  <1>10. new \in PassState
    BY <1>0
  <1> QED
    BY <1>4, <1>7, <1>8, <1>9, <1>10 DEF TilesSound, new

(* The whole of evaluateGuess. *)
LEMMA Evaluated ==
  ASSUME Game!WordsAssumption, NEW answer \in Game!AllWords, NEW guess \in Game!AllWords
  PROVE  \E s : /\ TilesSound(answer, guess, GameLength, s)
                /\ Game!evaluateGuess(answer, guess) = s.tiles
  <1> DEFINE pass == CHOOSE f : Pass(answer, guess, f)
  <1>1. Pass(answer, guess, pass)
    BY PassExists
  <1>2. Game!evaluateGuess(answer, guess) = pass[GameLength].tiles
    BY PassIsPass
  <1> HIDE DEF pass
  <1>3. GameLength \in Nat
    BY DEF Game!WordsAssumption
  <1> DEFINE G == {n \in 0..GameLength : TilesSound(answer, guess, n, pass[n])}
  <1>4. 0 \in G
    <2>1. pass[0] = FirstState(answer, guess)
      BY <1>1, <1>3 DEF Pass
    <2>2. pass[0] \in PassState
      BY <2>1, WordFacts
    <2>3. pass[0].tiles = <<>> /\ pass[0].remaining = Game!AfterGreens(answer, guess)
      BY <2>1 DEF FirstState
    <2>4. \A letter : Yellows(guess, pass[0].tiles, 0, letter) = {}
      BY DEF Yellows
    <2>5. ASSUME NEW letter \in GameLetters
          PROVE  /\ pass[0].remaining[letter] = Game!AfterGreens(answer, guess)[letter]
                      - Cardinality(Yellows(guess, pass[0].tiles, 0, letter))
                 /\ pass[0].remaining[letter] >= 0
      <3>1. Cardinality(Yellows(guess, pass[0].tiles, 0, letter)) = 0
        BY <2>4, FS_EmptySet
      <3>2. Game!AfterGreens(answer, guess)[letter] \in Nat
        BY WordFacts
      <3> QED
        BY <2>3, <3>1, <3>2
    <2>6. Len(pass[0].tiles) = 0 /\ 1..0 = {}
      BY <2>3
    <2> QED
      BY <1>3, <2>2, <2>5, <2>6 DEF TilesSound
  <1>5. ASSUME NEW n \in 1..GameLength, n - 1 \in G PROVE n \in G
    <2>1. pass[n] = PassStep(answer, guess, n, pass[n - 1])
      BY <1>1, <1>3 DEF Pass
    <2>2. TilesSound(answer, guess, n - 1, pass[n - 1])
      BY <1>5
    <2>3. TilesSound(answer, guess, n, pass[n])
      BY <2>1, <2>2, TileAdded
    <2> QED
      BY <1>3, <2>3
  <1> HIDE DEF G
  <1>6. GameLength \in G
    BY <1>3, <1>4, <1>5, Upwards
  <1> QED
    BY <1>2, <1>6 DEF G

(* FeedbackCounts, of one guess. *)
TilesCount(answer, guess, tiles) ==
  /\ tiles \in Seq(Game!Tile) /\ Len(tiles) = GameLength
  /\ \A i \in 1..GameLength :
       /\ tiles[i].letter = guess[i] /\ tiles[i].status \in Game!Statuses
       /\ tiles[i].status = "green" <=> guess[i] = answer[i]
  /\ \A letter \in GameLetters :
       LET guessed == Game!PositionsOf(guess, letter)
           common == {Cardinality(guessed), Cardinality(Game!PositionsOf(answer, letter))}
           shown == Cardinality({i \in guessed : tiles[i].status # "gray"})
       IN
       /\ shown \in common /\ \A k \in common : shown <= k
       /\ \A i, j \in guessed : tiles[i].status = "gray" /\ tiles[j].status = "yellow" => j < i

LEMMA TilesCounted ==
  ASSUME Game!WordsAssumption, NEW answer \in Game!AllWords, NEW guess \in Game!AllWords,
         NEW s, TilesSound(answer, guess, GameLength, s)
  PROVE  TilesCount(answer, guess, s.tiles)
  <1>0. /\ GameLength \in Nat /\ DOMAIN guess = 1..GameLength /\ DOMAIN answer = 1..GameLength
        /\ IsFiniteSet(1..GameLength)
    BY WordFacts
  <1>1. /\ s.tiles \in Seq(Game!Tile) /\ Len(s.tiles) = GameLength
        /\ \A i \in 1..GameLength :
             s.tiles[i].letter = guess[i] /\ s.tiles[i].status \in Game!Statuses
    BY DEF TilesSound, PassState
  <1>2. \A i \in 1..GameLength : s.tiles[i].status = "green" <=> guess[i] = answer[i]
    BY <1>0 DEF TilesSound, Game!Greens
  <1>3. ASSUME NEW letter \in GameLetters
        PROVE  LET guessed == Game!PositionsOf(guess, letter)
                   common == {Cardinality(guessed), Cardinality(Game!PositionsOf(answer, letter))}
                   shown == Cardinality({i \in guessed : s.tiles[i].status # "gray"})
               IN
               /\ shown \in common /\ \A k \in common : shown <= k
               /\ \A i, j \in guessed : s.tiles[i].status = "gray" /\ s.tiles[j].status = "yellow" => j < i
    <2> DEFINE guessed == Game!PositionsOf(guess, letter)
               placed == Game!PositionsOf(answer, letter)
               greens == Game!Greens(answer, guess)
               shown == {i \in guessed : s.tiles[i].status # "gray"}
               yellows == Yellows(guess, s.tiles, GameLength, letter)
    <2>1. /\ guessed = {i \in 1..GameLength : guess[i] = letter}
          /\ placed = {i \in 1..GameLength : answer[i] = letter}
          /\ greens = {i \in 1..GameLength : guess[i] = answer[i]}
      BY <1>0 DEF Game!PositionsOf, Game!Greens
    <2>2. shown = (placed \cap greens) \cup yellows /\ (placed \cap greens) \cap yellows = {}
      BY <1>1, <1>2, <2>1 DEF Yellows, Game!Statuses
    <2>3. ~(\E i \in guessed : s.tiles[i].status = "gray") => shown = guessed
      OBVIOUS
    <2>4. \A i \in guessed : s.tiles[i].status = "gray" => s.remaining[letter] = 0
      BY <2>1 DEF TilesSound
    <2>5. \A i, j \in guessed : s.tiles[i].status = "gray" /\ s.tiles[j].status = "yellow" => j < i
      BY <2>1 DEF TilesSound
    <2>6. /\ s.remaining[letter] = Cardinality(placed \ greens) - Cardinality(yellows)
          /\ s.remaining[letter] >= 0
      BY WordFacts DEF TilesSound
    <2>7. shown \subseteq guessed
      OBVIOUS
    <2>8. guessed \subseteq 1..GameLength /\ placed \subseteq 1..GameLength
          /\ yellows \subseteq 1..GameLength
      BY <2>1 DEF Yellows
    <2> HIDE DEF guessed, placed, greens, shown, yellows
    <2>9. IsFiniteSet(guessed) /\ IsFiniteSet(placed) /\ IsFiniteSet(yellows) /\ IsFiniteSet(placed \cap greens)
      BY <1>0, <2>8, FS_Subset
    <2>10. Cardinality(shown) = Cardinality(placed \cap greens) + Cardinality(yellows)
      <3>1. Cardinality((placed \cap greens) \cap yellows) = 0
        BY <2>2, FS_EmptySet
      <3>2. Cardinality(shown) = Cardinality(placed \cap greens) + Cardinality(yellows) - 0
        BY <2>2, <2>9, <3>1, FS_Union
      <3>3. Cardinality(placed \cap greens) \in Nat /\ Cardinality(yellows) \in Nat
        BY <2>9, FS_CardinalityType
      <3> QED
        BY <3>2, <3>3
    <2>11. Cardinality(placed \ greens) = Cardinality(placed) - Cardinality(placed \cap greens)
      BY <2>9, FS_Difference
    <2>12. Cardinality(shown) <= Cardinality(guessed)
      BY <2>7, <2>9, FS_Subset
    <2>13. /\ Cardinality(placed) \in Nat /\ Cardinality(yellows) \in Nat
           /\ Cardinality(placed \cap greens) \in Nat /\ Cardinality(guessed) \in Nat
      BY <2>9, FS_CardinalityType
    <2>14. Cardinality(shown) <= Cardinality(placed)
      BY <2>6, <2>10, <2>11, <2>13
    <2>15. Cardinality(shown) \in {Cardinality(guessed), Cardinality(placed)}
      <3>1. CASE \E i \in guessed : s.tiles[i].status = "gray"
        <4>1. s.remaining[letter] = 0
          BY <2>4, <3>1
        <4>2. Cardinality(shown) = Cardinality(placed)
          BY <2>6, <2>10, <2>11, <2>13, <4>1
        <4> QED
          BY <4>2
      <3>2. CASE ~\E i \in guessed : s.tiles[i].status = "gray"
        BY <2>3, <3>2
      <3> QED
        BY <3>1, <3>2
    <2> QED
      BY <2>5, <2>12, <2>14, <2>15 DEF guessed, placed, shown
  <1> QED
    BY <1>1, <1>2, <1>3 DEF TilesCount

(* Every guess is stored with the tiles of evaluateGuess. *)
StoredGuess == [word: Game!AllWords, feedback: Seq(Game!Tile)]

BoardInv ==
  /\ gameAnswer \in Game!AllWords /\ gameGuesses \in Seq(StoredGuess)
  /\ \A n \in 1..Len(gameGuesses) :
       TilesCount(gameAnswer, gameGuesses[n].word, gameGuesses[n].feedback)

LEMMA BoardStep ==
  ASSUME Game!WordsAssumption, BoardInv, [Game!Next]_(Game!vars)
  PROVE  BoardInv'
  <1>1. CASE UNCHANGED Game!vars
    BY <1>1 DEF BoardInv, Game!vars
  <1>2. ASSUME NEW word \in Game!AllWords, Game!submitGuess(word) PROVE BoardInv'
    <2> DEFINE new == [word |-> word, feedback |-> Game!evaluateGuess(gameAnswer, word)]
    <2>1. TilesCount(gameAnswer, word, Game!evaluateGuess(gameAnswer, word))
      BY Evaluated, TilesCounted DEF BoardInv
    <2>2. new \in StoredGuess
      BY <2>1 DEF StoredGuess, TilesCount
    <2>3. gameGuesses' = Append(gameGuesses, new) /\ gameAnswer' = gameAnswer
      BY <1>2 DEF Game!submitGuess
    <2>4. new.word = word /\ new.feedback = Game!evaluateGuess(gameAnswer, word)
      OBVIOUS
    <2> HIDE DEF new
    <2>5. /\ gameGuesses' \in Seq(StoredGuess) /\ Len(gameGuesses') = Len(gameGuesses) + 1
          /\ gameGuesses'[Len(gameGuesses) + 1] = new
          /\ \A n \in 1..Len(gameGuesses) : gameGuesses'[n] = gameGuesses[n]
      BY <2>2, <2>3 DEF BoardInv
    <2>6. ASSUME NEW n \in 1..Len(gameGuesses')
          PROVE  TilesCount(gameAnswer, gameGuesses'[n].word, gameGuesses'[n].feedback)
      <3>1. Len(gameGuesses) \in Nat
        BY DEF BoardInv
      <3>2. CASE n \in 1..Len(gameGuesses)
        BY <2>5, <3>2 DEF BoardInv
      <3>3. CASE n = Len(gameGuesses) + 1
        BY <2>1, <2>4, <2>5, <3>3
      <3> QED
        BY <2>5, <2>6, <3>1, <3>2, <3>3
    <2> QED
      BY <2>3, <2>5, <2>6 DEF BoardInv
  <1> QED
    BY <1>1, <1>2 DEF Game!Next

LEMMA BoardCorrect == Game!Spec => []BoardInv
  <1>1. Game!Init => BoardInv
    BY DEF Game!Init, BoardInv
  <1>2. BoardInv /\ [Game!Next]_(Game!vars) => BoardInv'
    BY PagesAssumption, BoardStep
  <1> QED
    BY <1>1, <1>2, PTL DEF Game!Spec

(* evaluateGuess gives each guess the tiles a count of letters demands,    *)
(* for words of any length over any alphabet.                              *)
THEOREM TilesAreCounted == Game!Spec => []FeedbackCounts
  <1>1. BoardInv => FeedbackCounts
    <2> SUFFICES ASSUME BoardInv, NEW n \in DOMAIN gameGuesses
                 PROVE  LET word == gameGuesses[n].word
                            Is(i, st) == gameGuesses[n].feedback[i].status = st
                        IN
                        /\ Len(gameGuesses[n].feedback) = GameLength
                        /\ \A i \in 1..GameLength :
                             /\ gameGuesses[n].feedback[i].letter = word[i]
                             /\ Is(i, "green") <=> word[i] = gameAnswer[i]
                        /\ \A letter \in GameLetters :
                             LET guessed == Game!PositionsOf(word, letter)
                                 common == {Game!Cardinality(guessed),
                                            Game!Cardinality(Game!PositionsOf(gameAnswer, letter))}
                                 shown == Game!Cardinality({i \in guessed : ~Is(i, "gray")})
                             IN
                             /\ shown \in common /\ \A k \in common : shown <= k
                             /\ \A i, j \in guessed : Is(i, "gray") /\ Is(j, "yellow") => j < i
      BY DEF FeedbackCounts, Game!FeedbackCounts
    <2>1. TilesCount(gameAnswer, gameGuesses[n].word, gameGuesses[n].feedback)
      <3>1. n \in 1..Len(gameGuesses)
        BY DEF BoardInv
      <3> QED
        BY <3>1 DEF BoardInv
    <2> QED
      BY <2>1, SameCardinality DEF TilesCount
  <1> QED
    BY <1>1, BoardCorrect, PTL

-----------------------------------------------------------------------------
(* The keyboard *)

KeyStates == [GameLetters -> {"unused", "gray", "yellow", "green"}]

LEMMA Ranks ==
  /\ Game!Rank["unused"] = 0 /\ Game!Rank["gray"] = 1
  /\ Game!Rank["yellow"] = 2 /\ Game!Rank["green"] = 3
  BY DEF Game!Rank

LEMMA Raising ==
  ASSUME NEW key \in {"unused", "gray", "yellow", "green"}, NEW status \in Game!Statuses
  PROVE  /\ Game!Raised(key, status) \in {key, status}
         /\ Game!Raised(key, status) \in {"unused", "gray", "yellow", "green"}
         /\ Game!Rank[key] <= Game!Rank[Game!Raised(key, status)]
         /\ Game!Rank[status] <= Game!Rank[Game!Raised(key, status)]
  BY Ranks DEF Game!Raised, Game!Statuses

RaiseKey(states, feedback, c) ==
  [states EXCEPT ![feedback[c].letter] = Game!Raised(@, feedback[c].status)]

TilesRun(states, feedback, f) ==
  f = [c \in 0..Len(feedback) |-> IF c = 0 THEN states ELSE RaiseKey(f[c - 1], feedback, c)]

LEMMA AfterIsRun ==
  ASSUME NEW states, NEW feedback
  PROVE  Game!AfterTiles(states, feedback) =
           (CHOOSE f : TilesRun(states, feedback, f))[Len(feedback)]
  BY DEF Game!AfterTiles, TilesRun, RaiseKey

LEMMA RaisedKey ==
  ASSUME NEW states \in KeyStates, NEW feedback \in Seq(Game!Tile), NEW c \in 1..Len(feedback)
  PROVE  /\ RaiseKey(states, feedback, c) \in KeyStates
         /\ feedback[c].letter \in GameLetters /\ feedback[c].status \in Game!Statuses
         /\ \A letter \in GameLetters : RaiseKey(states, feedback, c)[letter] =
              IF letter = feedback[c].letter THEN Game!Raised(states[letter], feedback[c].status)
                                             ELSE states[letter]
  <1>1. feedback[c] \in Game!Tile
    OBVIOUS
  <1>2. feedback[c].letter \in GameLetters /\ feedback[c].status \in Game!Statuses
    BY <1>1 DEF Game!Tile
  <1> DEFINE mine == feedback[c].letter
             status == feedback[c].status
  <1>3. Game!Raised(states[mine], status) \in {"unused", "gray", "yellow", "green"}
    BY <1>2, Raising DEF KeyStates
  <1> HIDE DEF mine, status
  <1>4. RaiseKey(states, feedback, c) = [states EXCEPT ![mine] = Game!Raised(@, status)]
    BY DEF RaiseKey, mine, status
  <1>5. RaiseKey(states, feedback, c) \in KeyStates
    BY <1>3, <1>4 DEF KeyStates
  <1>6. \A letter \in GameLetters : RaiseKey(states, feedback, c)[letter] =
              IF letter = mine THEN Game!Raised(states[letter], status) ELSE states[letter]
    BY <1>4 DEF KeyStates
  <1> QED
    BY <1>2, <1>5, <1>6 DEF mine, status

LEMMA TilesRunExists ==
  ASSUME NEW states \in KeyStates, NEW feedback \in Seq(Game!Tile)
  PROVE  \E f : TilesRun(states, feedback, f)
  <1> DEFINE step == [c \in 1..Len(feedback) |-> [r \in KeyStates |-> RaiseKey(r, feedback, c)]]
  <1>1. step \in [1..Len(feedback) -> [KeyStates -> KeyStates]]
    BY RaisedKey
  <1>2. Len(feedback) \in Nat
    OBVIOUS
  <1>3. \A c \in 1..Len(feedback), r \in KeyStates : step[c][r] = RaiseKey(r, feedback, c)
    OBVIOUS
  <1> HIDE DEF step
  <1>4. PICK f \in [0..Len(feedback) -> KeyStates] : Runs(f, states, step, Len(feedback))
    BY <1>1, <1>2, RunExists
  <1>5. \A c \in 1..Len(feedback) : f[c] = RaiseKey(f[c - 1], feedback, c)
    <2> SUFFICES ASSUME NEW c \in 1..Len(feedback)
                 PROVE  f[c] = RaiseKey(f[c - 1], feedback, c)
      OBVIOUS
    <2>1. c - 1 \in 0..Len(feedback)
      BY <1>2
    <2>2. f[c - 1] \in KeyStates
      BY <1>4, <2>1
    <2> QED
      BY <1>3, <1>4, <2>2 DEF Runs
  <1>6. f = [c \in 0..Len(feedback) |-> f[c]]
    BY <1>4
  <1>7. \A c \in 0..Len(feedback) :
          f[c] = IF c = 0 THEN states ELSE RaiseKey(f[c - 1], feedback, c)
    BY <1>2, <1>4, <1>5 DEF Runs
  <1> QED
    BY <1>6, <1>7 DEF TilesRun

(* The keys after the first n tiles of a guess: each is as it was or the   *)
(* colour of one of its tiles, and not below any of them.                  *)
KeysRaised(states, feedback, n, keys) ==
  /\ keys \in KeyStates
  /\ \A letter \in GameLetters :
       /\ Game!Rank[states[letter]] <= Game!Rank[keys[letter]]
       /\ \/ keys[letter] = states[letter]
          \/ \E c \in 1..n : feedback[c].letter = letter /\ feedback[c].status = keys[letter]
       /\ \A c \in 1..n : feedback[c].letter = letter =>
            Game!Rank[feedback[c].status] <= Game!Rank[keys[letter]]

LEMMA RankTypes ==
  ASSUME NEW keys \in KeyStates, NEW letter \in GameLetters
  PROVE  /\ keys[letter] \in {"unused", "gray", "yellow", "green"}
         /\ Game!Rank[keys[letter]] \in Int
  BY Ranks DEF KeyStates

LEMMA OneTileMore ==
  ASSUME NEW states \in KeyStates, NEW feedback \in Seq(Game!Tile), NEW n \in 1..Len(feedback),
         NEW keys, KeysRaised(states, feedback, n - 1, keys)
  PROVE  KeysRaised(states, feedback, n, RaiseKey(keys, feedback, n))
  <1> DEFINE new == RaiseKey(keys, feedback, n)
             mine == feedback[n].letter
             status == feedback[n].status
  <1>0. /\ keys \in KeyStates /\ new \in KeyStates
        /\ mine \in GameLetters /\ status \in Game!Statuses
        /\ \A letter \in GameLetters : new[letter] =
             IF letter = mine THEN Game!Raised(keys[letter], status) ELSE keys[letter]
    BY RaisedKey DEF KeysRaised
  <1>1. 1..n = (1..(n - 1)) \cup {n}
    OBVIOUS
  <1> HIDE DEF new
  <1> SUFFICES ASSUME NEW letter \in GameLetters
               PROVE  /\ Game!Rank[states[letter]] <= Game!Rank[new[letter]]
                      /\ \/ new[letter] = states[letter]
                         \/ \E c \in 1..n : feedback[c].letter = letter
                                              /\ feedback[c].status = new[letter]
                      /\ \A c \in 1..n : feedback[c].letter = letter =>
                           Game!Rank[feedback[c].status] <= Game!Rank[new[letter]]
    BY <1>0 DEF KeysRaised, new
  <1>2. /\ Game!Rank[states[letter]] <= Game!Rank[keys[letter]]
        /\ \/ keys[letter] = states[letter]
           \/ \E c \in 1..(n - 1) : feedback[c].letter = letter /\ feedback[c].status = keys[letter]
        /\ \A c \in 1..(n - 1) : feedback[c].letter = letter =>
             Game!Rank[feedback[c].status] <= Game!Rank[keys[letter]]
    BY DEF KeysRaised
  <1>3. /\ Game!Rank[states[letter]] \in Int /\ Game!Rank[keys[letter]] \in Int
        /\ Game!Rank[new[letter]] \in Int
        /\ keys[letter] \in {"unused", "gray", "yellow", "green"}
    BY <1>0, RankTypes
  <1>4. \A c \in 1..n : Game!Rank[feedback[c].status] \in Int
    <2>1. \A c \in 1..n : feedback[c].status \in Game!Statuses
      BY RaisedKey
    <2> QED
      BY <2>1, Ranks DEF Game!Statuses
  <1>5. CASE letter # mine
    BY <1>0, <1>1, <1>2, <1>5
  <1>6. CASE letter = mine
    <2>1. /\ new[letter] \in {keys[letter], status}
          /\ Game!Rank[keys[letter]] <= Game!Rank[new[letter]]
          /\ Game!Rank[status] <= Game!Rank[new[letter]]
      BY <1>0, <1>3, <1>6, Raising
    <2>2. Game!Rank[states[letter]] <= Game!Rank[new[letter]]
      BY <1>2, <1>3, <2>1
    <2>3. \/ new[letter] = states[letter]
          \/ \E c \in 1..n : feedback[c].letter = letter /\ feedback[c].status = new[letter]
      BY <1>1, <1>2, <1>6, <2>1
    <2>4. ASSUME NEW c \in 1..n, feedback[c].letter = letter
          PROVE  Game!Rank[feedback[c].status] <= Game!Rank[new[letter]]
      <3>1. CASE c = n
        BY <2>1, <3>1
      <3>2. CASE c \in 1..(n - 1)
        BY <1>2, <1>3, <1>4, <2>1, <2>4, <3>2
      <3> QED
        BY <1>1, <3>1, <3>2
    <2> QED
      BY <2>2, <2>3, <2>4
  <1> QED
    BY <1>5, <1>6

LEMMA AfterRaised ==
  ASSUME NEW states \in KeyStates, NEW feedback \in Seq(Game!Tile)
  PROVE  KeysRaised(states, feedback, Len(feedback), Game!AfterTiles(states, feedback))
  <1> DEFINE f == CHOOSE g : TilesRun(states, feedback, g)
             N == Len(feedback)
  <1>1. TilesRun(states, feedback, f)
    BY TilesRunExists
  <1>2. Game!AfterTiles(states, feedback) = f[N]
    BY AfterIsRun
  <1>3. N \in Nat
    OBVIOUS
  <1> HIDE DEF f
  <1> DEFINE G == {n \in 0..N : KeysRaised(states, feedback, n, f[n])}
  <1>4. 0 \in G
    <2>1. f[0] = states /\ 1..0 = {}
      BY <1>1, <1>3 DEF TilesRun
    <2>2. \A letter \in GameLetters : Game!Rank[states[letter]] \in Int
      BY RankTypes
    <2>3. KeysRaised(states, feedback, 0, f[0])
      BY <2>1, <2>2 DEF KeysRaised
    <2> QED
      BY <1>3, <2>3
  <1>5. ASSUME NEW n \in 1..N, n - 1 \in G PROVE n \in G
    <2>1. f[n] = RaiseKey(f[n - 1], feedback, n)
      BY <1>1, <1>3 DEF TilesRun
    <2>2. KeysRaised(states, feedback, n - 1, f[n - 1])
      BY <1>5
    <2>3. KeysRaised(states, feedback, n, f[n])
      BY <2>1, <2>2, OneTileMore
    <2> QED
      BY <1>3, <2>3
  <1> HIDE DEF G, N
  <1>6. \A n \in 1..N : n - 1 \in G => n \in G
    BY <1>5
  <1>7. 0..N \subseteq G
    BY <1>3, <1>4, <1>6, Upwards
  <1>8. N \in G
    BY <1>3, <1>7
  <1> QED
    BY <1>2, <1>8 DEF G, N

(* computeKeyStates: one guess after the other. *)
NoKeys == [letter \in GameLetters |-> "unused"]

GuessesRun(gs, f) ==
  f = [n \in 0..Len(gs) |->
         IF n = 0 THEN NoKeys ELSE Game!AfterTiles(f[n - 1], gs[n].feedback)]

LEMMA KeysAreRun ==
  ASSUME NEW gs
  PROVE  Game!computeKeyStates(gs) = (CHOOSE f : GuessesRun(gs, f))[Len(gs)]
  BY DEF Game!computeKeyStates, GuessesRun, NoKeys

LEMMA NoKeysType == NoKeys \in KeyStates
  BY DEF NoKeys, KeyStates

LEMMA StoredFeedback ==
  ASSUME NEW gs \in Seq(StoredGuess), NEW n \in 1..Len(gs)
  PROVE  gs[n].word \in Game!AllWords /\ gs[n].feedback \in Seq(Game!Tile)
  <1>1. gs[n] \in StoredGuess
    OBVIOUS
  <1> QED
    BY <1>1 DEF StoredGuess

LEMMA GuessesRunExists ==
  ASSUME NEW gs \in Seq(StoredGuess)
  PROVE  \E f : GuessesRun(gs, f)
  <1> DEFINE N == Len(gs)
             step == [n \in 1..N |-> [r \in KeyStates |-> Game!AfterTiles(r, gs[n].feedback)]]
  <1>1. step \in [1..N -> [KeyStates -> KeyStates]]
    <2> SUFFICES ASSUME NEW n \in 1..N, NEW r \in KeyStates
                 PROVE  Game!AfterTiles(r, gs[n].feedback) \in KeyStates
      OBVIOUS
    <2> QED
      BY AfterRaised, StoredFeedback DEF KeysRaised
  <1>2. N \in Nat
    OBVIOUS
  <1>3. \A n \in 1..N, r \in KeyStates : step[n][r] = Game!AfterTiles(r, gs[n].feedback)
    OBVIOUS
  <1> HIDE DEF step, N
  <1>4. PICK f \in [0..N -> KeyStates] : Runs(f, NoKeys, step, N)
    BY <1>1, <1>2, NoKeysType, RunExists
  <1>5. \A n \in 1..N : f[n] = Game!AfterTiles(f[n - 1], gs[n].feedback)
    <2> SUFFICES ASSUME NEW n \in 1..N
                 PROVE  f[n] = Game!AfterTiles(f[n - 1], gs[n].feedback)
      OBVIOUS
    <2>1. n - 1 \in 0..N
      BY <1>2
    <2>2. f[n - 1] \in KeyStates
      BY <1>4, <2>1
    <2> QED
      BY <1>3, <1>4, <2>2 DEF Runs
  <1>6. f = [n \in 0..N |-> f[n]]
    BY <1>4
  <1>7. \A n \in 0..N :
          f[n] = IF n = 0 THEN NoKeys ELSE Game!AfterTiles(f[n - 1], gs[n].feedback)
    BY <1>2, <1>4, <1>5 DEF Runs
  <1> QED
    BY <1>6, <1>7 DEF GuessesRun, N

(* The keys after the first n guesses: unused or the colour of one of the  *)
(* letter's tiles, and not below any of them.                              *)
KeysSound(gs, n, keys) ==
  /\ keys \in KeyStates
  /\ \A letter \in GameLetters :
       /\ \/ keys[letter] = "unused"
          \/ \E m \in 1..n : \E c \in 1..Len(gs[m].feedback) :
               gs[m].feedback[c].letter = letter /\ gs[m].feedback[c].status = keys[letter]
       /\ \A m \in 1..n : \A c \in 1..Len(gs[m].feedback) : gs[m].feedback[c].letter = letter =>
            Game!Rank[gs[m].feedback[c].status] <= Game!Rank[keys[letter]]

LEMMA OneGuessMore ==
  ASSUME NEW gs \in Seq(StoredGuess), NEW n \in 1..Len(gs), NEW keys, KeysSound(gs, n - 1, keys)
  PROVE  KeysSound(gs, n, Game!AfterTiles(keys, gs[n].feedback))
  <1> DEFINE feedback == gs[n].feedback
             new == Game!AfterTiles(keys, feedback)
  <1>0. keys \in KeyStates /\ feedback \in Seq(Game!Tile)
    BY StoredFeedback DEF KeysSound
  <1>1. KeysRaised(keys, feedback, Len(feedback), new)
    BY <1>0, AfterRaised
  <1>2. 1..n = (1..(n - 1)) \cup {n}
    OBVIOUS
  <1> HIDE DEF new
  <1> SUFFICES ASSUME NEW letter \in GameLetters
               PROVE  /\ \/ new[letter] = "unused"
                         \/ \E m \in 1..n : \E c \in 1..Len(gs[m].feedback) :
                              /\ gs[m].feedback[c].letter = letter
                              /\ gs[m].feedback[c].status = new[letter]
                      /\ \A m \in 1..n : \A c \in 1..Len(gs[m].feedback) :
                           gs[m].feedback[c].letter = letter =>
                             Game!Rank[gs[m].feedback[c].status] <= Game!Rank[new[letter]]
    BY <1>1 DEF KeysSound, KeysRaised, new
  <1>3. /\ \/ keys[letter] = "unused"
           \/ \E m \in 1..(n - 1) : \E c \in 1..Len(gs[m].feedback) :
                gs[m].feedback[c].letter = letter /\ gs[m].feedback[c].status = keys[letter]
        /\ \A m \in 1..(n - 1) : \A c \in 1..Len(gs[m].feedback) :
             gs[m].feedback[c].letter = letter =>
               Game!Rank[gs[m].feedback[c].status] <= Game!Rank[keys[letter]]
    BY DEF KeysSound
  <1>4. /\ Game!Rank[keys[letter]] <= Game!Rank[new[letter]]
        /\ \/ new[letter] = keys[letter]
           \/ \E c \in 1..Len(feedback) :
                feedback[c].letter = letter /\ feedback[c].status = new[letter]
        /\ \A c \in 1..Len(feedback) : feedback[c].letter = letter =>
             Game!Rank[feedback[c].status] <= Game!Rank[new[letter]]
        /\ Game!Rank[new[letter]] \in Int /\ Game!Rank[keys[letter]] \in Int
    BY <1>0, <1>1, RankTypes DEF KeysRaised
  <1>5. \/ new[letter] = "unused"
        \/ \E m \in 1..n : \E c \in 1..Len(gs[m].feedback) :
             gs[m].feedback[c].letter = letter /\ gs[m].feedback[c].status = new[letter]
    BY <1>2, <1>3, <1>4
  <1>6. ASSUME NEW m \in 1..n, NEW c \in 1..Len(gs[m].feedback), gs[m].feedback[c].letter = letter
        PROVE  Game!Rank[gs[m].feedback[c].status] <= Game!Rank[new[letter]]
    <2>1. CASE m = n
      BY <1>4, <1>6, <2>1
    <2>2. CASE m \in 1..(n - 1)
      <3>1. Game!Rank[gs[m].feedback[c].status] <= Game!Rank[keys[letter]]
        BY <1>3, <1>6, <2>2
      <3>2. gs[m].feedback \in Seq(Game!Tile)
        BY StoredFeedback
      <3>3. gs[m].feedback[c].status \in Game!Statuses
        BY <3>2, RaisedKey, NoKeysType
      <3>4. Game!Rank[gs[m].feedback[c].status] \in Int
        BY <3>3, Ranks DEF Game!Statuses
      <3> QED
        BY <1>4, <3>1, <3>4
    <2> QED
      BY <1>2, <2>1, <2>2
  <1> QED
    BY <1>5, <1>6

LEMMA KeysAreSound ==
  ASSUME NEW gs \in Seq(StoredGuess)
  PROVE  KeysSound(gs, Len(gs), Game!computeKeyStates(gs))
  <1> DEFINE f == CHOOSE g : GuessesRun(gs, g)
             N == Len(gs)
  <1>1. GuessesRun(gs, f)
    BY GuessesRunExists
  <1>2. Game!computeKeyStates(gs) = f[N]
    BY KeysAreRun
  <1>3. N \in Nat
    OBVIOUS
  <1> HIDE DEF f
  <1> DEFINE G == {n \in 0..N : KeysSound(gs, n, f[n])}
  <1>4. 0 \in G
    <2>1. f[0] = NoKeys /\ 1..0 = {}
      BY <1>1, <1>3 DEF GuessesRun
    <2>2. \A letter \in GameLetters : NoKeys[letter] = "unused"
      BY DEF NoKeys
    <2>3. KeysSound(gs, 0, f[0])
      BY <2>1, <2>2, NoKeysType DEF KeysSound
    <2> QED
      BY <1>3, <2>3
  <1>5. ASSUME NEW n \in 1..N, n - 1 \in G PROVE n \in G
    <2>1. f[n] = Game!AfterTiles(f[n - 1], gs[n].feedback)
      BY <1>1, <1>3 DEF GuessesRun
    <2>2. KeysSound(gs, n - 1, f[n - 1])
      BY <1>5
    <2>3. KeysSound(gs, n, f[n])
      BY <2>1, <2>2, OneGuessMore
    <2> QED
      BY <1>3, <2>3
  <1> HIDE DEF G, N
  <1>6. \A n \in 1..N : n - 1 \in G => n \in G
    BY <1>5
  <1>7. 0..N \subseteq G
    BY <1>3, <1>4, <1>6, Upwards
  <1>8. N \in G
    BY <1>3, <1>7
  <1> QED
    BY <1>2, <1>8 DEF G, N

(* A guessed letter that the answer has but never there has a yellow tile. *)
LEMMA YellowShown ==
  ASSUME Game!WordsAssumption, NEW answer \in Game!AllWords, NEW guess \in Game!AllWords, NEW tiles,
         TilesCount(answer, guess, tiles), NEW letter \in GameLetters
  PROVE  /\ /\ Game!PositionsOf(guess, letter) # {} /\ Game!PositionsOf(answer, letter) # {}
            /\ Game!PositionsOf(guess, letter) \cap Game!PositionsOf(answer, letter) = {}
            => \E i \in Game!PositionsOf(guess, letter) : tiles[i].status = "yellow"
         /\ Game!PositionsOf(answer, letter) = {} =>
              \A i \in Game!PositionsOf(guess, letter) : tiles[i].status = "gray"
  <1> DEFINE guessed == Game!PositionsOf(guess, letter)
             placed == Game!PositionsOf(answer, letter)
             shown == {i \in guessed : tiles[i].status # "gray"}
  <1>1. /\ GameLength \in Nat /\ IsFiniteSet(1..GameLength)
        /\ guessed \subseteq 1..GameLength /\ placed \subseteq 1..GameLength
    BY WordFacts
  <1>2. /\ \A i \in 1..GameLength :
             /\ tiles[i].status \in Game!Statuses
             /\ tiles[i].status = "green" <=> guess[i] = answer[i]
        /\ Cardinality(shown) \in {Cardinality(guessed), Cardinality(placed)}
        /\ Cardinality(shown) <= Cardinality(placed)
    BY DEF TilesCount
  <1>3. \A i \in guessed : guess[i] = letter
    BY DEF Game!PositionsOf
  <1>4. DOMAIN answer = 1..GameLength
    BY WordFacts
  <1>5. \A i \in 1..GameLength : answer[i] = letter => i \in placed
    BY <1>4 DEF Game!PositionsOf
  <1>6. shown \subseteq guessed
    OBVIOUS
  <1> HIDE DEF guessed, placed
  <1>7. /\ IsFiniteSet(guessed) /\ IsFiniteSet(placed) /\ IsFiniteSet(shown)
    BY <1>1, <1>6, FS_Subset
  <1>8. ASSUME guessed # {}, placed # {}, guessed \cap placed = {}
        PROVE  \E i \in guessed : tiles[i].status = "yellow"
    <2>1. Cardinality(guessed) # 0 /\ Cardinality(placed) # 0
      BY <1>7, <1>8, FS_EmptySet
    <2>2. shown # {}
      BY <1>2, <2>1, FS_EmptySet
    <2>3. PICK i \in guessed : tiles[i].status # "gray"
      BY <2>2
    <2>4. tiles[i].status # "green"
      BY <1>1, <1>2, <1>3, <1>5, <1>8
    <2> QED
      BY <1>1, <1>2, <2>3, <2>4 DEF Game!Statuses
  <1>9. ASSUME placed = {}
        PROVE  \A i \in guessed : tiles[i].status = "gray"
    <2>1. Cardinality(placed) = 0 /\ Cardinality(shown) \in Nat
      BY <1>7, <1>9, FS_EmptySet, FS_CardinalityType
    <2>2. Cardinality(shown) = 0
      BY <1>2, <2>1
    <2>3. shown = {}
      BY <1>7, <2>2, FS_EmptySet
    <2> QED
      BY <2>3
  <1> QED
    BY <1>8, <1>9 DEF guessed, placed

(* What the board shows of a letter: where it was guessed, and with which  *)
(* tiles.  With the keys' bounds this leaves each key one colour.          *)
LEMMA TilesOfLetter ==
  ASSUME Game!WordsAssumption, BoardInv, NEW n \in 1..Len(gameGuesses), NEW letter \in GameLetters
  PROVE  LET guessed == Game!PositionsOf(gameGuesses[n].word, letter)
             within == Game!PositionsOf(gameAnswer, letter)
         IN
         /\ Len(gameGuesses[n].feedback) = GameLength
         /\ guessed \subseteq 1..GameLength
         /\ \A i \in 1..GameLength : gameGuesses[n].feedback[i].letter = letter <=> i \in guessed
         /\ \A i \in guessed : /\ gameGuesses[n].feedback[i].status \in Game!Statuses
                               /\ gameGuesses[n].feedback[i].status = "green" <=> i \in within
         /\ guessed # {} /\ within # {} /\ guessed \cap within = {} =>
              \E i \in guessed : gameGuesses[n].feedback[i].status = "yellow"
         /\ within = {} => \A i \in guessed : gameGuesses[n].feedback[i].status = "gray"
  <1>1. /\ gameGuesses[n].word \in Game!AllWords /\ gameAnswer \in Game!AllWords
        /\ TilesCount(gameAnswer, gameGuesses[n].word, gameGuesses[n].feedback)
    BY StoredFeedback DEF BoardInv
  <1> DEFINE word == gameGuesses[n].word
             tiles == gameGuesses[n].feedback
  <1>2. /\ Len(tiles) = GameLength
        /\ \A i \in 1..GameLength :
             /\ tiles[i].letter = word[i] /\ tiles[i].status \in Game!Statuses
             /\ tiles[i].status = "green" <=> word[i] = gameAnswer[i]
    BY <1>1 DEF TilesCount
  <1>3. DOMAIN word = 1..GameLength /\ DOMAIN gameAnswer = 1..GameLength
    BY <1>1, WordFacts
  <1>4. /\ Game!PositionsOf(word, letter) = {i \in 1..GameLength : word[i] = letter}
        /\ Game!PositionsOf(gameAnswer, letter) = {i \in 1..GameLength : gameAnswer[i] = letter}
    BY <1>3 DEF Game!PositionsOf
  <1>5. /\ /\ Game!PositionsOf(word, letter) # {} /\ Game!PositionsOf(gameAnswer, letter) # {}
           /\ Game!PositionsOf(word, letter) \cap Game!PositionsOf(gameAnswer, letter) = {}
           => \E i \in Game!PositionsOf(word, letter) : tiles[i].status = "yellow"
        /\ Game!PositionsOf(gameAnswer, letter) = {} =>
             \A i \in Game!PositionsOf(word, letter) : tiles[i].status = "gray"
    BY <1>1, YellowShown
  <1> HIDE DEF word, tiles
  <1>6. /\ \A i \in 1..GameLength : tiles[i].letter = letter <=> i \in Game!PositionsOf(word, letter)
        /\ \A i \in Game!PositionsOf(word, letter) :
             /\ tiles[i].status \in Game!Statuses
             /\ tiles[i].status = "green" <=> i \in Game!PositionsOf(gameAnswer, letter)
    BY <1>2, <1>4
  <1>7. Game!PositionsOf(word, letter) \subseteq 1..GameLength
    BY <1>4
  <1> QED
    BY <1>2, <1>5, <1>6, <1>7 DEF word, tiles

(* The keyboard colours a letter green, yellow or gray exactly when the    *)
(* guesses so far and the answer say so, for any alphabet, any length of   *)
(* words and any number of guesses.                                        *)
THEOREM KeysAreTrue == Game!Spec => []KeysTellTheTruth
  <1>1. BoardInv => KeysTellTheTruth
    <2> SUFFICES ASSUME BoardInv, NEW letter \in GameLetters
                 PROVE  LET guessed == \E n \in DOMAIN gameGuesses :
                                         Game!PositionsOf(gameGuesses[n].word, letter) # {}
                            placed == \E n \in DOMAIN gameGuesses :
                                        Game!PositionsOf(gameGuesses[n].word, letter)
                                          \cap Game!PositionsOf(gameAnswer, letter) # {}
                            within == Game!PositionsOf(gameAnswer, letter) # {}
                        IN
                        Game!keyStates[letter] =
                          CASE placed -> "green"
                            [] guessed /\ within /\ ~placed -> "yellow"
                            [] guessed /\ ~within -> "gray"
                            [] OTHER -> "unused"
      BY DEF KeysTellTheTruth, Game!KeysTellTheTruth
    <2> DEFINE Guessed(n) == Game!PositionsOf(gameGuesses[n].word, letter)
               answered == Game!PositionsOf(gameAnswer, letter)
               guessed == \E n \in 1..Len(gameGuesses) : Guessed(n) # {}
               placed == \E n \in 1..Len(gameGuesses) : Guessed(n) \cap answered # {}
               within == answered # {}
               key == Game!keyStates[letter]
               Status(n, i) == gameGuesses[n].feedback[i].status
    <2>1. DOMAIN gameGuesses = 1..Len(gameGuesses)
      BY DEF BoardInv
    <2>2. KeysSound(gameGuesses, Len(gameGuesses), Game!keyStates)
      BY KeysAreSound DEF BoardInv, Game!keyStates
    <2>3. ASSUME NEW n \in 1..Len(gameGuesses)
          PROVE  /\ Len(gameGuesses[n].feedback) = GameLength
                 /\ Guessed(n) \subseteq 1..GameLength
                 /\ \A i \in 1..GameLength : gameGuesses[n].feedback[i].letter = letter <=> i \in Guessed(n)
                 /\ \A i \in Guessed(n) : /\ Status(n, i) \in Game!Statuses
                                          /\ Status(n, i) = "green" <=> i \in answered
                 /\ Guessed(n) # {} /\ answered # {} /\ Guessed(n) \cap answered = {} =>
                      \E i \in Guessed(n) : Status(n, i) = "yellow"
                 /\ answered = {} => \A i \in Guessed(n) : Status(n, i) = "gray"
      BY PagesAssumption, TilesOfLetter
    <2>4. /\ key \in {"unused", "gray", "yellow", "green"}
          /\ \/ key = "unused"
             \/ \E n \in 1..Len(gameGuesses) : \E i \in Guessed(n) : Status(n, i) = key
          /\ \A n \in 1..Len(gameGuesses) : \A i \in Guessed(n) :
               Game!Rank[Status(n, i)] <= Game!Rank[key]
      <3>1. /\ Game!keyStates \in KeyStates
            /\ \/ Game!keyStates[letter] = "unused"
               \/ \E n \in 1..Len(gameGuesses) : \E i \in 1..Len(gameGuesses[n].feedback) :
                    /\ gameGuesses[n].feedback[i].letter = letter
                    /\ gameGuesses[n].feedback[i].status = Game!keyStates[letter]
            /\ \A n \in 1..Len(gameGuesses) : \A i \in 1..Len(gameGuesses[n].feedback) :
                 gameGuesses[n].feedback[i].letter = letter =>
                   Game!Rank[gameGuesses[n].feedback[i].status] <= Game!Rank[Game!keyStates[letter]]
        BY <2>2 DEF KeysSound
      <3>2. ASSUME NEW n \in 1..Len(gameGuesses)
            PROVE  /\ Len(gameGuesses[n].feedback) = GameLength
                   /\ Guessed(n) \subseteq 1..GameLength
                   /\ \A i \in 1..GameLength :
                        gameGuesses[n].feedback[i].letter = letter <=> i \in Guessed(n)
        BY <2>3
      <3>3. key \in {"unused", "gray", "yellow", "green"}
        BY <3>1 DEF KeyStates
      <3>4. ASSUME NEW n \in 1..Len(gameGuesses), NEW i \in Guessed(n)
            PROVE  Game!Rank[Status(n, i)] <= Game!Rank[key]
        BY <3>1, <3>2
      <3>5. key = "unused" \/ \E n \in 1..Len(gameGuesses) : \E i \in Guessed(n) : Status(n, i) = key
        <4>1. SUFFICES ASSUME NEW n \in 1..Len(gameGuesses), NEW i \in 1..Len(gameGuesses[n].feedback),
                              gameGuesses[n].feedback[i].letter = letter,
                              Status(n, i) = key
                       PROVE  \E m \in 1..Len(gameGuesses) : \E j \in Guessed(m) : Status(m, j) = key
          BY <3>1
        <4>2. i \in Guessed(n)
          BY <3>2, <4>1
        <4> QED
          BY <4>1, <4>2
      <3> QED
        BY <3>3, <3>4, <3>5
    <2> HIDE DEF Guessed, answered, key, Status
    <2>5. ASSUME placed PROVE key = "green"
      <3>1. PICK n \in 1..Len(gameGuesses) : Guessed(n) \cap answered # {}
        BY <2>5
      <3>2. PICK i \in Guessed(n) : i \in answered
        BY <3>1
      <3>3. Status(n, i) = "green"
        BY <2>3, <3>2
      <3>4. Game!Rank["green"] <= Game!Rank[key]
        BY <2>4, <3>3
      <3> QED
        BY <2>4, <2>5, <3>4, Ranks
    <2>6. ASSUME ~placed, guessed, within PROVE key = "yellow"
      <3>1. PICK n \in 1..Len(gameGuesses) : Guessed(n) # {}
        BY <2>6
      <3>2. PICK i \in Guessed(n) : Status(n, i) = "yellow"
        BY <2>3, <2>6, <3>1
      <3>3. Game!Rank["yellow"] <= Game!Rank[key]
        BY <2>4, <3>2
      <3>4. key # "green"
        BY <2>3, <2>4, <2>6
      <3> QED
        BY <2>4, <2>6, <3>3, <3>4, Ranks
    <2>7. ASSUME ~placed, guessed, ~within PROVE key = "gray"
      <3>1. PICK n \in 1..Len(gameGuesses) : Guessed(n) # {}
        BY <2>7
      <3>2. PICK i \in Guessed(n) : Status(n, i) = "gray"
        BY <2>3, <2>7, <3>1
      <3>3. Game!Rank["gray"] <= Game!Rank[key]
        BY <2>4, <3>2
      <3>4. key \in {"unused", "gray"}
        BY <2>3, <2>4, <2>7
      <3> QED
        BY <2>4, <2>7, <3>3, <3>4, Ranks
    <2>8. ASSUME ~placed, ~guessed PROVE key = "unused"
      BY <2>4, <2>8
    <2>9. key = CASE placed -> "green"
                  [] guessed /\ within /\ ~placed -> "yellow"
                  [] guessed /\ ~within -> "gray"
                  [] OTHER -> "unused"
      BY <2>5, <2>6, <2>7, <2>8
    <2> QED
      BY <2>1, <2>9 DEF Guessed, answered, key
  <1> QED
    BY <1>1, BoardCorrect, PTL
=============================================================================
