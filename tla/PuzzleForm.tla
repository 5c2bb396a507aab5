----------------------------- MODULE PuzzleForm -----------------------------
(***************************************************************************)
(* The word field of the puzzle form (routes/admin/puzzle-form.svelte)     *)
(* with its answer search (answer-search.svelte): two debounce timers, a   *)
(* validation call whose answer goes to the chip, a search whose answers   *)
(* go to a cache by query, and the list they are picked from.  An effect   *)
(* runs before the next event, so it is part of the step it follows.       *)
(***************************************************************************)
EXTENDS Integers, Sequences, Functions

CONSTANTS
  Texts,      \* what the field can hold, Blank included
  Blank,
  Shaped,     \* the texts of five letters
  Answers,    \* the approved answers
  Verdict,    \* what validateWord says of each five-letter word
  Matches,    \* what searchAnswers finds for each text
  LettersOf, First, \* the letters of each text; the first one
  Letters,
  MaxInputs,  \* bound: the changes of the word
  None

(* What the constants have to be; Pages assumes it of its instance. *)
FormAssumption ==
  /\ Blank \in Texts \ Shaped /\ Shaped \subseteq Texts /\ Answers \subseteq Shaped
  /\ Verdict \in [Shaped -> {"approved", "used", "rejected"}]
  /\ \A w \in Shaped : Verdict[w] = "rejected" <=> w \notin Answers
  /\ Matches \in [Texts -> Seq(Answers)] /\ Matches[Blank] = <<>>
  /\ \A t \in Texts \ {Blank} : First[t] \in LettersOf[t] /\ LettersOf[t] \subseteq Letters
  /\ None \notin Texts \cup Letters
  /\ MaxInputs \in Nat

VARIABLES
  word,        \* the field
  hint,        \* the hint field, and whether the admin has typed in it
  chip,        \* the verdict shown, and (history) the word it is about
  wordTimer,   \* the word to validate when the timer fires, or None
  validates,   \* how many validations of each word are in flight
  queryTimer,  \* the text to search for when the timer fires, or None
  query,       \* debouncedQuery, and the last one that had data
  cache,       \* the state of the search for each text
  list,        \* is the list open, and the option highlighted
  inputs       \* the changes of the word so far

vars == <<word, hint, chip, wordTimer, validates, queryTimer, query, cache, list, inputs>>

Idle     == [kind |-> "idle", of |-> None]
Checking == [kind |-> "checking", of |-> None]
Says(w)  == [kind |-> Verdict[w], of |-> w]

Init ==
  /\ word \in {Blank} \cup Answers
  /\ hint \in [letter: IF word = Blank THEN {None} ELSE LettersOf[word], touched: {FALSE}]
  /\ chip = Idle
  /\ wordTimer = None
  /\ validates = [w \in Shaped |-> 0]
  /\ queryTimer = word
  /\ query = [now |-> Blank, last |-> None]
  /\ cache = [t \in Texts |-> "none"]
  /\ list = [open |-> FALSE, active |-> -1]
  /\ inputs = 0

-----------------------------------------------------------------------------
(* The search *)

(* A query without data is pending: while it is, the results of the last   *)
(* one that had some stay on screen.                                       *)
Shown(q, c) ==
  IF c[q.now] = "data" THEN Matches[q.now]
  ELSE IF c[q.now] = "failed" \/ q.last = None THEN <<>> ELSE Matches[q.last]

results == Shown(query, cache)

(* A query that becomes enabled, or another one: its text is searched for, *)
(* unless it has been.                                                     *)
Wanted(open, q, c) ==
  IF /\ open /\ (~list.open \/ q # query.now)
     /\ q # Blank /\ c[q] \in {"none", "failed"}
  THEN [c EXCEPT ![q] = "sent"] ELSE c

(* A wrong variant: the highlight is left where it was. *)
Unclamped(active, shown) == active

(* The $effect that keeps the highlight on the list. *)
Clamped(active, shown) ==
  IF shown # <<>> /\ active >= Len(shown) THEN Len(shown) - 1 ELSE active

(* The step makes the list open or not and the query q, effects included.  *)
Becomes(open, q) ==
  LET wanted == Wanted(open, q.now, cache)
      last   == IF wanted[q.now] = "data" THEN q.now ELSE q.last
      shown  == Shown([q EXCEPT !.last = last], wanted)
      start  == IF open /\ ~list.open THEN 0 ELSE list.active
  IN
  /\ query' = [q EXCEPT !.last = last]
  /\ cache' = wanted
  /\ list' = [open |-> open, active |-> Clamped(start, shown)]

(* A wrong variant: the effect does not track the text. *)
FrozenTimer(t) == queryTimer

(* The $effect on the trimmed text re-arms the timer. *)
Rearmed(t) == IF t = word THEN queryTimer ELSE t

QueryTimerFires ==
  /\ queryTimer # None
  /\ queryTimer' = None
  /\ Becomes(list.open, [query EXCEPT !.now = queryTimer])
  /\ UNCHANGED <<word, hint, chip, wordTimer, validates, inputs>>

SearchEnds(t, outcome) ==
  /\ cache[t] = "sent"
  /\ IF t = query.now
       THEN LET c == [cache EXCEPT ![t] = outcome] IN
            /\ cache' = c
            /\ query' = [query EXCEPT !.last = IF outcome = "data" THEN t ELSE @]
            /\ list' = [list EXCEPT !.active = Clamped(@, Shown(query', c))]
       ELSE cache' = [cache EXCEPT ![t] = outcome] /\ UNCHANGED <<query, list>>
  /\ UNCHANGED <<word, hint, chip, wordTimer, validates, queryTimer, inputs>>

SearchArrives(t) == SearchEnds(t, "data")
SearchFails(t)   == SearchEnds(t, "failed")

-----------------------------------------------------------------------------
(* The list *)

Elsewhere == <<word, hint, chip, wordTimer, validates, queryTimer, inputs>>

openList == ~list.open /\ Becomes(TRUE, query) /\ UNCHANGED Elsewhere

closeList ==
  /\ list.open
  /\ list' = [open |-> FALSE, active |-> -1]
  /\ UNCHANGED <<Elsewhere, query, cache>>

Down(active) == IF active < Len(results) - 1 THEN active + 1 ELSE active

Highlight(active) ==
  /\ list.open
  /\ list' = [list EXCEPT !.active = Clamped(active, results)]
  /\ UNCHANGED <<Elsewhere, query, cache>>

ArrowDown == Highlight(Down(list.active))
ArrowUp   == Highlight(IF list.active > 0 THEN list.active - 1 ELSE 0)
Home      == Highlight(0)
End       == Highlight(Len(results) - 1)

-----------------------------------------------------------------------------
(* The word, the chip and the hint *)

Prefilled(t) ==
  IF hint.touched \/ t = Blank THEN hint ELSE [hint EXCEPT !.letter = First[t]]

(* onWordInput: the prefill, scheduleCheck, and the list opens. *)
onWordInput(t) ==
  /\ t # word
  /\ inputs < MaxInputs /\ inputs' = inputs + 1
  /\ word' = t
  /\ hint' = Prefilled(t)
  /\ chip' = IF t \in Shaped THEN Checking ELSE Idle
  /\ wordTimer' = IF t \in Shaped THEN t ELSE None
  /\ queryTimer' = Rearmed(t)
  /\ Becomes(TRUE, query)
  /\ UNCHANGED validates

(* onWordSelect, by a click or by Enter on the highlighted option: a timer *)
(* that is running is left running.                                        *)
onWordSelect(w) ==
  /\ list.open /\ \E i \in 1..Len(results) : results[i] = w
  /\ inputs < MaxInputs /\ inputs' = inputs + 1
  /\ word' = w
  /\ hint' = Prefilled(w)
  /\ chip' = Says(w)
  /\ queryTimer' = Rearmed(w)
  /\ list' = [open |-> FALSE, active |-> -1]
  /\ UNCHANGED <<wordTimer, validates, query, cache>>

onHintInput ==
  /\ \E h \in Letters : hint' = [letter |-> h, touched |-> TRUE]
  /\ UNCHANGED <<word, chip, wordTimer, validates, queryTimer, query, cache, list, inputs>>

WordTimerFires ==
  /\ wordTimer # None
  /\ wordTimer' = None
  /\ validates' = [validates EXCEPT ![wordTimer] = @ + 1]
  /\ UNCHANGED <<word, hint, chip, queryTimer, query, cache, list, inputs>>

ValidateEnds(w, verdict) ==
  /\ validates[w] > 0
  /\ validates' = [validates EXCEPT ![w] = @ - 1]
  /\ chip' = verdict
  /\ UNCHANGED <<word, hint, wordTimer, queryTimer, query, cache, list, inputs>>

ValidateArrives(w) == ValidateEnds(w, Says(w))

(* A wrong variant: a failure is caught and forgotten. *)
ValidateForgotten(w) == ValidateEnds(w, chip)

(* The catch: the chip goes quiet. *)
ValidateFails(w) == ValidateEnds(w, Idle)

Types ==
  \/ \E t \in Texts : onWordInput(t)
  \/ \E w \in Answers : onWordSelect(w)
  \/ onHintInput
  \/ openList \/ closeList \/ ArrowDown \/ ArrowUp \/ Home \/ End

Timers == QueryTimerFires \/ WordTimerFires

Network ==
  \/ \E t \in Texts : SearchArrives(t) \/ SearchFails(t)
  \/ \E w \in Shaped : ValidateArrives(w) \/ ValidateFails(w)

Next == Types \/ Timers \/ Network

Spec == Init /\ [][Next]_vars

(* Timers fire, and a request is answered or given up.  Nobody has to type *)
(* or to leave the field.                                                  *)
FairSpec ==
  /\ Spec
  /\ WF_vars(QueryTimerFires) /\ WF_vars(WordTimerFires)
  /\ \A t \in Texts : WF_vars(SearchArrives(t) \/ SearchFails(t))
  /\ \A w \in Shaped : WF_vars(ValidateArrives(w) \/ ValidateFails(w))

-----------------------------------------------------------------------------
(* Properties *)

MostMatches == CHOOSE n \in {Len(Matches[t]) : t \in Texts} : \A t \in Texts : Len(Matches[t]) <= n

(* Types; a highlight is a position some list could have. *)
FormTypeOK ==
  /\ word \in Texts /\ hint \in [letter: Letters \cup {None}, touched: BOOLEAN]
  /\ chip \in {Idle, Checking} \cup {Says(w) : w \in Shaped}
  /\ wordTimer \in Shaped \cup {None} /\ validates \in [Shaped -> Nat]
  /\ queryTimer \in Texts \cup {None}
  /\ query \in [now: Texts, last: Texts \cup {None}]
  /\ cache \in [Texts -> {"none", "sent", "data", "failed"}]
  /\ list \in [open: BOOLEAN, active: -1..MostMatches]

(* "Never point past the end": whatever query's results replace the list   *)
(* under it, the highlighted option is one of those shown.                 *)
HighlightOnList == list.open /\ results # <<>> => list.active < Len(results)

(* "Checking..." ends, even if the validation fails or is overtaken.       *)
ChipSettles == chip.kind = "checking" ~> chip.kind # "checking"

(* A list left open comes to show what matches the text typed, or says     *)
(* that the search failed.                                                 *)
ListCatchesUp ==
  \A t \in Texts \ {Blank} :
    (list.open /\ word = t) ~>
      (word # t \/ ~list.open \/ results = Matches[t] \/ cache[t] = "failed")
=============================================================================
