-------------------------------- MODULE Board --------------------------------
(***************************************************************************)
(* One game as its player sees it: submitGuess evaluates each guess        *)
(* against the answer and stores the tiles, the page shows them and        *)
(* colours its keyboard (server/game/service.ts, routes/play/+page.svelte).*)
(***************************************************************************)
EXTENDS Evaluate

CONSTANT MaxGuesses   \* MAX_GUESSES (6 in the code)

GuessesAssumption == MaxGuesses \in Nat \ {0}

VARIABLES
  answer,    \* the puzzle's answer; never sent to the page
  guesses,   \* the stored guesses, in order, each with its feedback
  status     \* the game's status

vars == <<answer, guesses, status>>

Init ==
  /\ answer \in AllWords
  /\ guesses = <<>>
  /\ status = "ACTIVE"

(* feedback.every((tile) => tile.status === 'green') *)
Solved(feedback) == \A i \in DOMAIN feedback : feedback[i].status = "green"

NextStatus(feedback, n) ==
  IF Solved(feedback) THEN "COMPLETED" ELSE IF n >= MaxGuesses THEN "FAILED" ELSE "ACTIVE"

submitGuess(word) ==
  LET feedback == evaluateGuess(answer, word) IN
  /\ status = "ACTIVE"
  /\ guesses' = Append(guesses, [word |-> word, feedback |-> feedback])
  /\ status' = NextStatus(feedback, Len(guesses) + 1)
  /\ UNCHANGED answer

Next == \E word \in AllWords : submitGuess(word)

Spec == Init /\ [][Next]_vars

-----------------------------------------------------------------------------
keyStates == computeKeyStates(guesses)

TypeOK ==
  /\ answer \in AllWords
  /\ guesses \in Seq([word : AllWords, feedback : Seq(Tile)])
  /\ Len(guesses) <= MaxGuesses
  /\ status \in {"ACTIVE", "COMPLETED", "FAILED"}
  /\ keyStates \in [Alphabet -> Statuses \cup {"unused"}]

(* Feedback, by counting: greens are the exact positions; of each letter,  *)
(* green and yellow tiles together are as many as guess and answer have in *)
(* common; and the yellow ones come first.  Two passes over repeated       *)
(* letters give neither one too many nor one too few.                      *)
FeedbackCounts ==
  \A n \in DOMAIN guesses :
    LET word == guesses[n].word
        Is(i, st) == guesses[n].feedback[i].status = st
    IN
    /\ Len(guesses[n].feedback) = WordLength
    /\ \A i \in 1..WordLength :
         /\ guesses[n].feedback[i].letter = word[i]
         /\ Is(i, "green") <=> word[i] = answer[i]
    /\ \A letter \in Alphabet :
         LET guessed == PositionsOf(word, letter)
             common == {Cardinality(guessed), Cardinality(PositionsOf(answer, letter))}
             shown == Cardinality({i \in guessed : ~Is(i, "gray")})
         IN
         /\ shown \in common /\ \A k \in common : shown <= k
         /\ \A i, j \in guessed : Is(i, "gray") /\ Is(j, "yellow") => j < i

(* The keyboard tells the truth about the answer, whatever the order of    *)
(* guesses and however letters repeat: a green key has been put where the  *)
(* answer has it, a yellow one is in the answer, a gray one is not.        *)
KeysTellTheTruth ==
  \A letter \in Alphabet :
    LET guessed == \E n \in DOMAIN guesses : PositionsOf(guesses[n].word, letter) # {}
        placed == \E n \in DOMAIN guesses :
                    PositionsOf(guesses[n].word, letter) \cap PositionsOf(answer, letter) # {}
        within == PositionsOf(answer, letter) # {}
    IN
    keyStates[letter] =
      CASE placed -> "green"
        [] guessed /\ within /\ ~placed -> "yellow"
        [] guessed /\ ~within -> "gray"
        [] OTHER -> "unused"
=============================================================================
