-------------------------------- MODULE Pages --------------------------------
(***************************************************************************)
(* The pages that run by themselves in one browser, and what they promise: *)
(* the game board, the profile page, the puzzle form, and the leaderboards *)
(* a browser has cached.  They share no state, so each has constants and   *)
(* variables of its own.                                                   *)
(***************************************************************************)

CONSTANTS
  Nothing,                                  \* None, of all of them
  GameLetters, GameLength, GameLimit,       \* Board
  PageTabs, PageValues, PageRow,            \* ProfilePage
  FormTexts, FormBlank, FormShaped, FormAnswers, FormVerdict, FormMatches,
  FormLettersOf, FormFirst, FormLetters, FormInputs       \* PuzzleForm

VARIABLES
  gameAnswer, gameGuesses, gameStatus,
  pageRow, pageData, pageForm, pageOpen, pageEdited, pageGet, pageSave,
  formWord, formHint, formChip, formWordTimer, formValidates, formQueryTimer, formQuery,
  formCache, formList, formInputs,
  cacheGame, cachePage, cacheTab, cacheOnline, cacheQuery

Game == INSTANCE Board WITH
  Alphabet <- GameLetters, WordLength <- GameLength, MaxGuesses <- GameLimit,
  answer <- gameAnswer, guesses <- gameGuesses, status <- gameStatus

Page == INSTANCE ProfilePage WITH
  Tabs <- PageTabs, Values <- PageValues, InitialRow <- PageRow, None <- Nothing,
  row <- pageRow, data <- pageData, form <- pageForm, open <- pageOpen,
  edited <- pageEdited, get <- pageGet, save <- pageSave

Form == INSTANCE PuzzleForm WITH
  Texts <- FormTexts, Blank <- FormBlank, Shaped <- FormShaped, Answers <- FormAnswers,
  Verdict <- FormVerdict, Matches <- FormMatches, LettersOf <- FormLettersOf,
  First <- FormFirst, Letters <- FormLetters, MaxInputs <- FormInputs, None <- Nothing,
  word <- formWord, hint <- formHint, chip <- formChip, wordTimer <- formWordTimer,
  validates <- formValidates, queryTimer <- formQueryTimer, query <- formQuery,
  cache <- formCache, list <- formList, inputs <- formInputs

Cache == INSTANCE BoardCache WITH
  None <- Nothing, game <- cacheGame, page <- cachePage, tab <- cacheTab,
  online <- cacheOnline, query <- cacheQuery

ASSUME PagesAssumption ==
  /\ Game!WordsAssumption /\ Game!GuessesAssumption
  /\ Page!PageAssumption /\ Form!FormAssumption /\ Cache!CacheAssumption

-----------------------------------------------------------------------------
(* Properties *)

(* The tiles of every guess are those a count of letters demands           *)
(* (evaluateGuess).                                                        *)
FeedbackCounts == Game!FeedbackCounts

(* The colours of the keyboard (computeKeyStates) say of the answer what   *)
(* they should, in whatever order letters were tried.                      *)
KeysTellTheTruth == Game!KeysTellTheTruth

(* The profile form keeps what the user typed, whatever answers arrive.    *)
FormEditsKept == Page!FormEditsKept

(* The highlighted option of the answer search is one of those shown.      *)
HighlightOnList == Form!HighlightOnList

(* The chip of the puzzle form does not stay at "Checking...".             *)
ChipSettles == Form!ChipSettles

(* The answer search comes to show what matches the text typed.            *)
ListCatchesUp == Form!ListCatchesUp

(* A tab of the leaderboard page and the result block show a board of      *)
(* their own period, unless its fetch was paused while offline.            *)
BoardIsOfItsTab == Cache!BoardIsOfItsTab
=============================================================================
