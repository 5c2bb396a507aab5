------------------------------ MODULE Evaluate ------------------------------
(***************************************************************************)
(* The feedback of one guess (server/game/evaluate.ts) and the keyboard    *)
(* colours the page derives from all of it (shared/lib/wordle-ux.ts).      *)
(***************************************************************************)
EXTENDS Integers, Sequences, FiniteSets

CONSTANTS
  Alphabet,     \* the letters of words
  WordLength    \* GUESS_LENGTH (5 in the code)

(* What the constants have to be; Pages assumes it of its instances. *)
WordsAssumption == WordLength \in Nat \ {0}

AllWords == [1..WordLength -> Alphabet]

Statuses == {"green", "yellow", "gray"}
Tile     == [letter : Alphabet, status : Statuses]

-----------------------------------------------------------------------------
(* evaluateGuess *)

PositionsOf(word, letter) == {i \in DOMAIN word : word[i] = letter}
Greens(answer, guess)     == {i \in DOMAIN guess : guess[i] = answer[i]}

(* A wrong variant: pass 1 consumes nothing. *)
NothingConsumed(answer, guess) ==
  [letter \in Alphabet |-> Cardinality(PositionsOf(answer, letter))]

(* What pass 1 leaves of each letter of the answer: its greens are used up. *)
AfterGreens(answer, guess) ==
  [letter \in Alphabet |->
     Cardinality(PositionsOf(answer, letter) \ Greens(answer, guess))]

(* A yellow tile uses up one more. *)
Take(remaining, letter) == [remaining EXCEPT ![letter] = @ - 1]

(* Pass 2, one position after the other: pass[i] is what is left of each   *)
(* letter, and the tiles, after position i.                                *)
evaluateGuess(answer, guess) ==
  LET Shown(done, i, status) ==
        Append(done.tiles, [letter |-> guess[i], status |-> status])
      pass[i \in 0..WordLength] ==
        IF i = 0 THEN [remaining |-> AfterGreens(answer, guess), tiles |-> <<>>]
        ELSE LET done == pass[i - 1] IN
          IF i \in Greens(answer, guess) THEN [done EXCEPT !.tiles = Shown(done, i, "green")]
          ELSE IF done.remaining[guess[i]] > 0
            THEN [remaining |-> Take(done.remaining, guess[i]), tiles |-> Shown(done, i, "yellow")]
          ELSE [done EXCEPT !.tiles = Shown(done, i, "gray")]
  IN  pass[WordLength].tiles

-----------------------------------------------------------------------------
(* computeKeyStates *)

Rank == [unused |-> 0, gray |-> 1, yellow |-> 2, green |-> 3]

(* A wrong variant: the last tile of a letter wins. *)
LastTile(state, status) == status

(* A tile colours its key only upwards. *)
Raised(state, status) == IF Rank[status] > Rank[state] THEN status ELSE state

(* The key colours after the tiles of some guesses, in order. *)
AfterTiles(states, feedback) ==
  LET upTo[c \in 0..Len(feedback)] ==
        IF c = 0 THEN states
        ELSE [upTo[c - 1] EXCEPT
                ![feedback[c].letter] = Raised(@, feedback[c].status)]
  IN  upTo[Len(feedback)]

computeKeyStates(guesses) ==
  LET upTo[n \in 0..Len(guesses)] ==
        IF n = 0 THEN [letter \in Alphabet |-> "unused"]
        ELSE AfterTiles(upTo[n - 1], guesses[n].feedback)
  IN  upTo[Len(guesses)]
=============================================================================
