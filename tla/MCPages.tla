------------------------------- MODULE MCPages -------------------------------
(***************************************************************************)
(* Small instances of the pages for TLC: the initial state names the       *)
(* scene, the one page that moves; the others stay as they are.            *)
(***************************************************************************)
EXTENDS Pages, Integers, Sequences

CONSTANTS
  Scenes,
  v1,                                   \* of the profile page
  Blank, prefix, fresh, taken, bad, a, b   \* of the puzzle form

VARIABLE scene

gameVars  == <<gameAnswer, gameGuesses, gameStatus>>
pageVars  == <<pageRow, pageData, pageForm, pageOpen, pageEdited, pageGet, pageSave>>
formVars  == <<formWord, formHint, formChip, formWordTimer, formValidates, formQueryTimer,
               formQuery, formCache, formList, formInputs>>
cacheVars == <<cacheGame, cachePage, cacheTab, cacheOnline, cacheQuery>>

-----------------------------------------------------------------------------
(* The same value in both fields: they are never compared. *)
MCRow == [f \in {"name", "avatar"} |-> v1]

(* A prefix of both answers, one of which is used already, and a word that *)
(* is no answer.                                                           *)
MCTexts     == {Blank, prefix, fresh, taken, bad}
MCFirst     == [t \in MCTexts |-> IF t = bad THEN b ELSE a]
MCLettersOf == [t \in MCTexts |-> IF t \in {bad, taken} THEN {MCFirst[t], b} ELSE {a}]

MCVerdict == [w \in {fresh, taken, bad} |->
  IF w = fresh THEN "approved" ELSE IF w = taken THEN "used" ELSE "rejected"]

MCMatches == [t \in MCTexts |->
  IF t = prefix THEN <<fresh, taken>> ELSE IF t \in {fresh, taken} THEN <<t>> ELSE <<>>]

-----------------------------------------------------------------------------
Init ==
  /\ scene \in Scenes
  /\ Game!Init /\ (scene = "game" \/ gameAnswer = CHOOSE w \in Game!AllWords : TRUE)
  /\ Page!Init
  /\ Form!Init /\ (scene = "form" \/ formWord = Blank)
  /\ Cache!Init

Only(name) ==
  /\ scene = name /\ UNCHANGED scene
  /\ name = "game" \/ UNCHANGED gameVars
  /\ name = "profile" \/ UNCHANGED pageVars
  /\ name = "form" \/ UNCHANGED formVars
  /\ name = "cache" \/ UNCHANGED cacheVars

Next ==
  \/ Only("game") /\ Game!Next
  \/ Only("profile") /\ Page!Next
  \/ Only("form") /\ Form!Next
  \/ Only("cache") /\ Cache!Next

(* The fairness of PuzzleForm, in its scene. *)
Fairness ==
  /\ WF_formVars(scene = "form" /\ Form!QueryTimerFires)
  /\ WF_formVars(scene = "form" /\ Form!WordTimerFires)
  /\ \A t \in FormTexts :
       WF_formVars(scene = "form" /\ (Form!SearchArrives(t) \/ Form!SearchFails(t)))
  /\ \A w \in FormShaped :
       WF_formVars(scene = "form" /\ (Form!ValidateArrives(w) \/ Form!ValidateFails(w)))

Spec ==
  /\ Init
  /\ [][Next]_<<scene, gameVars, pageVars, formVars, cacheVars>>
  /\ Fairness
=============================================================================
